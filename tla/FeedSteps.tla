------------------------------ MODULE FeedSteps ------------------------------
(***************************************************************************)
(* What one decoded observation of a feed asks of the governed graph: the  *)
(* ordered list of entities the feed's projector writes for it.            *)
(*                                                                         *)
(* Every projector (internal/projectors/{mavlink,cot,cap,adsb}) walks the  *)
(* entities of an observation in a fixed order and decides for each one    *)
(* between a birth and an update from its born sets.  A step of the list   *)
(* names the entity, whether it is written only at its birth ("once", the  *)
(* source assets) or by every observation, and the entity its birth has an *)
(* edge to (cop.track.source), if any.                                     *)
(***************************************************************************)
EXTENDS Naturals, Sequences

CONSTANTS
  NoEntity,     \* the absence of an edge
  entityToken   \* function from native identifiers to entity tokens; many to one

Entity(system, type, instance) == <<system, type, instance>>

Once(id) == [id |-> id, once |-> TRUE, edge |-> NoEntity]
Every(id) == [id |-> id, once |-> FALSE, edge |-> NoEntity]
EveryFrom(id, source) == [id |-> id, once |-> FALSE, edge |-> source]

-----------------------------------------------------------------------------
(* MAVLink.  A packet is [feed, system, kind, fields]: the decoded message  *)
(* kind and the set of fields its parser filled in.                        *)

MavlinkAsset(p) == Entity("mavlink", "asset", p.system)
MavlinkTrack(p) == Entity("mavlink", "track", p.system)

\* A packet without a field its kind is about yields no track triples.
MavlinkTrackTriples(p) ==
  \/ p.kind = "heartbeat" /\ "system_status" \in p.fields
  \/ p.kind = "position" /\ ({"lat", "lon"} \subseteq p.fields
                               \/ {"vx", "vy", "vz"} \subseteq p.fields)
  \/ p.kind = "attitude" /\ {"roll", "pitch", "yaw"} \cap p.fields # {}
  \/ p.kind = "battery" /\ "battery_remaining" \in p.fields

MavlinkSteps(p) ==
  IF MavlinkTrackTriples(p)
  THEN << Once(MavlinkAsset(p)), EveryFrom(MavlinkTrack(p), MavlinkAsset(p)) >>
  ELSE << >>

-----------------------------------------------------------------------------
(* TAK/CoT.  An event is [feed, uid, type, point, track, text, label]: its  *)
(* type class and which optional parts it carries.                         *)

CotEntity(type, e) == Entity("tak", type, entityToken[e.uid])

CotTrackSteps(e) ==
  IF e.point \/ e.track
  THEN << Once(CotEntity("asset", e)),
          EveryFrom(CotEntity("track", e), CotEntity("asset", e)) >>
  ELSE << >>

CotTaskSteps(e) ==
  IF e.point \/ e.label \/ e.text THEN << Every(CotEntity("task", e)) >> ELSE << >>

CotAdvisorySteps(e) ==
  IF e.text THEN << Every(CotEntity("advisory", e)) >> ELSE << >>

\* The order of the cases is the order of the switch; other types are ignored.
CotSteps(e) ==
  CASE e.type = "geochat" -> CotAdvisorySteps(e)
    [] e.type = "marker" -> CotTaskSteps(e)
    [] e.type \in {"operator", "air"} -> CotTrackSteps(e)
    [] OTHER -> << >>

-----------------------------------------------------------------------------
(* CAP: one hazard area per alert identifier.  ADS-B: one track per state  *)
(* vector of the snapshot, in snapshot order, an aircraft may appear twice. *)

CapSteps(a) == << Every(Entity("cap", "hazard", entityToken[a.identifier])) >>

AdsbSteps(s) ==
  [i \in 1 .. Len(s.states) |->
     Every(Entity("adsb", "track", entityToken[s.states[i].icao24]))]

-----------------------------------------------------------------------------
(* Observations a projector refuses as a whole: nothing of them is written. *)

CotRefused(e) == e.uid = "" \/ e.type = ""
CapRefused(a) == ~a.valid
AdsbRefused(s) ==
  \E i \in 1 .. Len(s.states) : s.states[i].icao24 = "" \/ ~s.states[i].contact

Refused(o) ==
  \/ o.feed = "cot" /\ CotRefused(o)
  \/ o.feed = "cap" /\ CapRefused(o)
  \/ o.feed = "adsb" /\ AdsbRefused(o)

StepsOf(o) ==
  IF Refused(o) THEN << >>
  ELSE CASE o.feed = "mavlink" -> MavlinkSteps(o)
         [] o.feed = "cot" -> CotSteps(o)
         [] o.feed = "cap" -> CapSteps(o)
         [] o.feed = "adsb" -> AdsbSteps(o)
=============================================================================

------------------------------- MODULE CapCodec -------------------------------
(***************************************************************************)
(* The CAP codec (pkg/adapters/cap, Parse) and the payloads that carry its  *)
(* alerts over the bus.                                                     *)
(*                                                                         *)
(* A field of the XML is a class of texts:                                  *)
(*   a text    "blank" or "text";                                           *)
(*   a time    "blank", "bad", "zero" (Go's zero time), "good", or "far" (a *)
(*             time JSON has no form for, such as a UTC year of 10000);     *)
(*   a number  "bad", "nan", "inf", "low", "in" or "high", against its range.*)
(***************************************************************************)
EXTENDS Naturals, Sequences

Unencodable == {"nan", "inf"}

CapTimes == {"blank", "bad", "zero", "good", "far"}
CapNumbers == {"bad", "nan", "inf", "low", "in", "high"}
CapPoints == [lat : CapNumbers, lon : CapNumbers]
CapCircles == [parts : Nat, center : CapPoints, radius : CapNumbers]
CapAreas == [polygons : Seq(Seq(CapPoints)), circles : Seq(CapCircles)]
CapInfos == [effective : CapTimes, expires : CapTimes, areas : Seq(CapAreas)]
Mandatory == {"identifier", "sender", "status", "msgType", "scope"}

\* What encoding/xml makes of a message.
CapDocuments ==
  [xml : BOOLEAN, text : [Mandatory -> {"blank", "text"}], sent : CapTimes, infos : Seq(CapInfos)]

\* A blank time is none; none is the zero time.
CapTimeParses(t) == t # "bad"
CapTimeOf(t) == IF t = "blank" THEN "zero" ELSE t

\* Go compares with < and >, so that NaN is in every range.
InRange(c) == c \notin {"bad", "low", "high", "inf"}

PointParses(p) == InRange(p.lat) /\ InRange(p.lon)

PolygonParses(pg) == Len(pg) >= 3 /\ \A i \in DOMAIN pg : PointParses(pg[i])

\* "lat,lon radius"; the radius has no upper bound.
CircleParses(c) == c.parts = 2 /\ PointParses(c.center) /\ c.radius \notin {"bad", "low"}

AreaParses(a) ==
  /\ \A i \in DOMAIN a.polygons : PolygonParses(a.polygons[i])
  /\ \A i \in DOMAIN a.circles : CircleParses(a.circles[i])

InfoParses(i) ==
  /\ CapTimeParses(i.effective)
  /\ CapTimeParses(i.expires)
  /\ \A n \in DOMAIN i.areas : AreaParses(i.areas[n])

ToInfo(i) ==
  [i EXCEPT !.effective = CapTimeOf(@), !.expires = CapTimeOf(@)]

ToAlert(x) ==
  [x EXCEPT !.sent = CapTimeOf(@), !.infos = [n \in DOMAIN @ |-> ToInfo(@[n])]]

AlertValid(a) ==
  /\ \A f \in Mandatory : a.text[f] # "blank"
  /\ a.sent # "zero"
  /\ a.infos # << >>

\* Parse: the XML, the conversion, the validation.
CapParses(x) ==
  /\ x.xml
  /\ CapTimeParses(x.sent)
  /\ \A n \in DOMAIN x.infos : InfoParses(x.infos[n])
  /\ AlertValid(ToAlert(x))

PointEncodes(p) == p.lat \notin Unencodable /\ p.lon \notin Unencodable

AreaEncodes(a) ==
  /\ \A i \in DOMAIN a.polygons : \A n \in DOMAIN a.polygons[i] : PointEncodes(a.polygons[i][n])
  /\ \A i \in DOMAIN a.circles :
       PointEncodes(a.circles[i].center) /\ a.circles[i].radius \notin Unencodable

\* The replay line of an alert has the time it was sent.
CapRecordEncodes(a) == a.sent # "far"

\* The decoded payload has the whole alert.
CapPayloadEncodes(a) ==
  /\ a.sent # "far"
  /\ \A n \in DOMAIN a.infos :
       /\ a.infos[n].effective # "far"
       /\ a.infos[n].expires # "far"
       /\ \A k \in DOMAIN a.infos[n].areas : AreaEncodes(a.infos[n].areas[k])

\* The payload and the projector validate the alert once more.
CapAccepts(a) == AlertValid(a)

\* What a CAP alert has to be for the picture, said without the parser: all that is
\* mandatory is there, and everything drawn is a place on the earth.
CapSound(x) ==
  /\ x.xml
  /\ \A f \in DOMAIN x.text : x.text[f] = "text"
  /\ x.sent = "good"
  /\ Len(x.infos) > 0
  /\ \A n \in DOMAIN x.infos :
       LET i == x.infos[n] IN
       /\ {i.effective, i.expires} \subseteq {"good", "blank", "zero"}
       /\ \A k \in DOMAIN i.areas :
            LET drawn == i.areas[k] IN
            /\ \A p \in DOMAIN drawn.polygons : Len(drawn.polygons[p]) > 2
            /\ \A p \in DOMAIN drawn.polygons : \A q \in DOMAIN drawn.polygons[p] :
                 drawn.polygons[p][q] = [lat |-> "in", lon |-> "in"]
            /\ \A p \in DOMAIN drawn.circles :
                 /\ drawn.circles[p].center = [lat |-> "in", lon |-> "in"]
                 /\ drawn.circles[p].radius \in {"in", "high"}
=============================================================================

------------------------- MODULE FormatNegotiation --------------------------
(***************************************************************************)
(* The format that a producer and a consumer of audio agree on             *)
(* (formats/negotiation.py). Where the code takes whatever comes first out *)
(* of a set, any member may be it.                                         *)
(***************************************************************************)
EXTENDS Integers, Sequences, FiniteSets, FiniteSetsExt

CONSTANT Capabilities  \* of either: [formats, rates, depths, channels, format, rate], the last two preferred

VARIABLES
  producer, consumer, strategy,
  stage,   \* "asking", "agreed" or "incompatible"
  result   \* [format, rate, depth, channels, notes], Nothing before and without an agreement

negotiationVars == <<producer, consumer, strategy, stage, result>>

Nothing == [format |-> "", rate |-> 0, depth |-> 0, channels |-> 0, notes |-> {}]

Strategies == {"producer", "consumer", "quality", "speed"}
QualityOrder == <<"FLAC", "WAV", "OGG", "OPUS", "MP3">>
SpeedOrder == <<"PCM", "WAV", "MP3", "OGG", "OPUS", "FLAC">>

\* The first format of an order that is there; PCM is in one order only.
FirstOf(order, common) ==
  LET there == {i \in DOMAIN order : order[i] \in common}
  IN  IF there = {} THEN common ELSE {order[Min(there)]}

Preferred(value, common) == IF value \in common THEN {value} ELSE common

\* _select_format()
SelectFormat(common, p, c, s) ==
  CASE s = "producer" -> Preferred(p.format, common)
    [] s = "consumer" -> Preferred(c.format, common)
    [] s = "quality" -> FirstOf(QualityOrder, common)
    [] s = "speed" -> FirstOf(SpeedOrder, common)

\* _select_sample_rate()
SelectRate(common, p, c, s) ==
  CASE s = "producer" -> Preferred(p.rate, common)
    [] s = "consumer" -> Preferred(c.rate, common)
    [] s = "quality" -> {Max(common)}
    [] s = "speed" -> {Min(common)}

\* _select_bit_depth()
SelectDepth(common, s) == IF s \in {"quality", "producer"} THEN Max(common) ELSE Min(common)

\* Mutant: a rate that is not common is not noted.
Notes_NoRate(p, c) ==
  {n \in {"format", "depth", "channels"} :
     CASE n = "format" -> p.formats \cap c.formats = {}
       [] n = "depth" -> p.depths \cap c.depths = {}
       [] n = "channels" -> p.channels \cap c.channels = {}}

\* What has to be converted.
Notes(p, c) ==
  {n \in {"format", "rate", "depth", "channels"} :
     CASE n = "format" -> p.formats \cap c.formats = {}
       [] n = "rate" -> p.rates \cap c.rates = {}
       [] n = "depth" -> p.depths \cap c.depths = {}
       [] n = "channels" -> p.channels \cap c.channels = {}}

Or(common, other) == IF common = {} THEN other ELSE common

\* Mutant: what the consumer could convert is enough.
Convertible_ByEither(p, c) == (p.formats \cup c.formats) \cap {"WAV", "PCM"} # {}

Convertible(p, c) == p.formats \cap {"WAV", "PCM"} # {}

\* negotiate(): the results there may be, none when there is no common format and the producer
\* has nothing that can be converted.
Negotiated(p, c, s) ==
  IF p.formats \cap c.formats = {} /\ ~Convertible(p, c) THEN {}
  ELSE [format   : SelectFormat(Or(p.formats \cap c.formats, {"WAV"}), p, c, s),
        rate     : SelectRate(Or(p.rates \cap c.rates, p.rates), p, c, s),
        depth    : {SelectDepth(Or(p.depths \cap c.depths, {16}), s)},
        channels : LET common == Or(p.channels \cap c.channels, {1})
                   IN  {IF s = "quality" THEN Max(common) ELSE Min(common)},
        notes    : {Notes(p, c)}]

-----------------------------------------------------------------------------
Negotiate ==
  /\ stage = "asking"
  /\ LET results == Negotiated(producer, consumer, strategy)
     IN  IF results = {} THEN stage' = "incompatible" /\ UNCHANGED result
         ELSE stage' = "agreed" /\ result' \in results
  /\ UNCHANGED <<producer, consumer, strategy>>

Init ==
  /\ producer \in Capabilities /\ consumer \in Capabilities /\ strategy \in Strategies
  /\ stage = "asking" /\ result = Nothing

Next == Negotiate

Spec == Init /\ [][Next]_negotiationVars

-----------------------------------------------------------------------------
\* Type invariant.
TypeOK ==
  /\ producer \in Capabilities /\ consumer \in Capabilities /\ strategy \in Strategies
  /\ stage \in {"asking", "agreed", "incompatible"} /\ (result = Nothing) = (stage # "agreed")

\* What no note is about, both sides have, so that without a note nothing is converted; a rate
\* is always one that the producer has. There is no agreement only when the two have no format
\* in common and what the producer has cannot be converted (negotiate()).
SilentMeansSupported ==
  /\ stage = "agreed" =>
       /\ "format" \notin result.notes => result.format \in producer.formats \cap consumer.formats
       /\ "rate" \notin result.notes => result.rate \in consumer.rates
       /\ "depth" \notin result.notes => result.depth \in producer.depths \cap consumer.depths
       /\ "channels" \notin result.notes => result.channels \in producer.channels \cap consumer.channels
       /\ result.rate \in producer.rates
  /\ stage # "asking" =>
       (stage = "incompatible" <=> producer.formats \cap (consumer.formats \cup {"WAV", "PCM"}) = {})

\* By quality or by speed it makes no difference who produces, as long as nothing is converted.
SameForBoth ==
  strategy \in {"quality", "speed"} /\ stage = "agreed" /\ result.notes = {} =>
    result \in Negotiated(consumer, producer, strategy)
=============================================================================

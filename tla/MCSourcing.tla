----------------------------- MODULE MCSourcing -----------------------------
(***************************************************************************)
(* An instance of Sourcing for TLC: a supplier by road that is quick, one  *)
(* by sea that is cheap and slow, and one whose file is doubtful.          *)
(***************************************************************************)
EXTENDS Sourcing, TLC

CONSTANTS quick, cheap, doubtful

Suppliers == {quick, cheap, doubtful}

Transits == [road |-> 1, sea |-> 5, air |-> 1]
Freights == [road |-> 1, sea |-> 1, air |-> 9]
Duties   == [DE |-> 0, CN |-> 10, RU |-> 20]

Filed ==
  [ country |-> "DE", certified |-> TRUE, expires |-> Unknown, audited |-> TRUE,
    lead |-> 2, fill |-> 4, allocated |-> 0, contract |-> 300,
    breaks |-> {[min |-> 1, price |-> 250], [min |-> 4, price |-> 200]} ]

RecordSets ==
  quick :> {Filed, [Filed EXCEPT !.fill = 12, !.expires = 1]}
  @@ cheap :> {[Filed EXCEPT !.country = "CN", !.lead = 6, !.fill = 12, !.breaks = {}, !.contract = 90],
               [Filed EXCEPT !.country = "CN", !.lead = Unknown, !.fill = 8]}
  @@ doubtful :> {[Filed EXCEPT !.audited = FALSE], [Filed EXCEPT !.country = "RU"],
                  [Filed EXCEPT !.lead = 3, !.fill = 9, !.allocated = 3, !.expires = 2, !.contract = Unknown, !.breaks = {}]}

Silent ==
  [ available |-> Unknown, offered |-> Unknown, stock |-> Unknown, price |-> Unknown,
    breaks |-> {}, lead |-> Unknown, certified |-> Unknown, confidence |-> Unknown ]

\* Round 1 answers by phone: garbled, less than asked for, all of it later.
CallResults ==
  { Silent,
    [Silent EXCEPT !.available = "true", !.offered = 3, !.certified = "yes", !.confidence = 80],
    [Silent EXCEPT !.available = "true", !.offered = 12, !.price = 180, !.lead = 4, !.confidence = 90] }

\* What the agent posts: a denial on the call, and an offer it implies.
Postings ==
  { [Silent EXCEPT !.available = "yes", !.offered = 12, !.certified = "no"],
    [Silent EXCEPT !.stock = "free", !.offered = 6, !.lead = 0, !.certified = "pending",
                   !.breaks = {[min |-> 0, price |-> 1], [min |-> 2, price |-> 150]}] }

=============================================================================

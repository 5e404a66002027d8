------------------------------ MODULE Answers -------------------------------
(***************************************************************************)
(* What a supplier's answer becomes: a call's result is read into a quote  *)
(* (outreach/normalize.py) and the quote into a claim (flow/claims.py); a  *)
(* result the agent posts itself is read into a claim directly             *)
(* (packages/contracts/safe.py).  A field is a number, a word, or Unknown  *)
(* for what is absent, null or unreadable.                                 *)
(***************************************************************************)
EXTENDS Integers

CONSTANTS
  Unknown,      \* a field nobody filled
  MadeToOrder   \* days of lead time from which the goods have yet to be made

OrElse(value, default) == IF value = Unknown THEN default ELSE value

\* normalize_result: availability is a truth value, a missing quantity is 0.
Quote(raw) ==
  [ available |-> raw.available \notin {"false", Unknown},
    offered   |-> OrElse(raw.offered, 0),
    price     |-> raw.price,
    breaks    |-> raw.breaks,
    lead      |-> raw.lead,
    certified |-> raw.certified # Unknown,
    confidence |-> OrElse(raw.confidence, 0) ]

QuotedStock(quote, requested) ==
  IF ~quote.available THEN "unavailable"
  ELSE IF quote.lead # Unknown /\ quote.lead >= MadeToOrder THEN "to_be_made"
  ELSE IF quote.offered \in 1..(requested - 1) THEN "allocated"
  ELSE "free"

\* Our file can only doubt the certificate; only the supplier can confirm it.
QuotedCertificate(quote, lapsed) ==
  IF lapsed THEN "no" ELSE IF quote.certified THEN "yes" ELSE Unknown

ClaimFromQuote(quote, requested, lapsed) ==
  [ available |-> quote.available,
    offered   |-> quote.offered,
    stock     |-> QuotedStock(quote, requested),
    price     |-> quote.price,
    breaks    |-> quote.breaks,
    lead      |-> quote.lead,
    certified |-> QuotedCertificate(quote, lapsed),
    confidence |-> quote.confidence ]

-----------------------------------------------------------------------------
\* The yes or no of a field, whether it came as a truth value or as a word.
Answer(value) ==
  CASE value \in {"true", "yes"} -> "yes"
    [] value \in {"false", "no"} -> "no"
    [] OTHER -> Unknown

\* An explicit answer wins; a silent one follows the stock and the quantity.
Available(raw) ==
  CASE Answer(raw.available) = "yes" -> TRUE
    [] Answer(raw.available) = "no" -> FALSE
    [] OTHER -> /\ OrElse(raw.offered, 0) > 0
                /\ raw.stock \notin {"unavailable", Unknown}

\* claim_from_result; a tier for less than one piece is no tier.
ClaimFromResult(raw) ==
  [ available |-> Available(raw),
    offered   |-> OrElse(raw.offered, 0),
    stock     |-> raw.stock,
    price     |-> raw.price,
    breaks    |-> {tier \in raw.breaks : tier.min >= 1},
    lead      |-> raw.lead,
    certified |-> Answer(raw.certified),
    confidence |-> OrElse(raw.confidence, 0) ]

=============================================================================

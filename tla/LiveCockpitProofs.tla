-------------------------- MODULE LiveCockpitProofs -------------------------
(***************************************************************************)
(* Theorems about LiveCockpit, for any tabs, suppliers, scenarios and      *)
(* bounds.                                                                 *)
(*                                                                         *)
(* Dials are accounted for tab by tab and case by case: a life of a page   *)
(* that may dial a case, or whose dial has not reached the API yet, has    *)
(* placed no dial but those whose answer got lost.                         *)
(*                                                                         *)
(* Cases are accounted for over all tabs at once: each tab has one opening *)
(* under way at most, and every one the API has not answered yet leaves    *)
(* room for one more case among the launches.                              *)
(*                                                                         *)
(* What a page shows and whom it dials follow from what every answer under *)
(* way carries: it is of the case it was asked for, and names nobody as    *)
(* called but those who may be.                                            *)
(***************************************************************************)
EXTENDS LiveCockpit, FiniteSetTheorems, FunctionTheorems, SequenceTheorems, WellFoundedInduction, TLAPS

-----------------------------------------------------------------------------
(* Extreme numbers.                                                        *)

\* A set of natural numbers has a least element.
LEMMA LeastNatural ==
  ASSUME NEW T \in SUBSET Nat, T # {}
  PROVE  \E x \in T : \A y \in T : x <= y
<1> DEFINE R == OpToRel(<, Nat)
<1>1. IsWellFoundedOn(R, Nat)
  BY NatLessThanWellFounded
<1>2. PICK x \in T : \A y \in T : ~(<<y, x>> \in R)
  <2> HIDE DEF R
  <2>1. QED BY <1>1, WFMin
<1>3. \A y \in T : ~(y < x)
  BY <1>2 DEF OpToRel
<1>4. QED BY <1>3

\* A bounded one has a greatest: the least distance from the bound.
LEMMA GreatestBounded ==
  ASSUME NEW T \in SUBSET Nat, T # {}, NEW b \in Nat, \A x \in T : x <= b
  PROVE  \E x \in T : \A y \in T : y <= x
<1> DEFINE U == {b - x : x \in T}
<1>1. U \in SUBSET Nat /\ U # {}
  <2>1. \A x \in T : b - x \in Nat
    OBVIOUS
  <2>2. QED BY <2>1
<1>2. PICK u \in U : \A v \in U : u <= v
  <2> HIDE DEF U
  <2>1. QED BY <1>1, LeastNatural
<1>3. PICK x \in T : u = b - x
  BY <1>2
<1>4. ASSUME NEW y \in T PROVE y <= x
  BY <1>2, <1>3, <1>4
<1>5. QED BY <1>4


-----------------------------------------------------------------------------
(* Requests.                                                               *)

\* A request says what it is and of which case; a dial whether it was answered.
RequestOK(r) ==
  /\ {"kind", "case"} \subseteq DOMAIN r
  /\ r.kind = "dial" => "answer" \in DOMAIN r

RequestsInv ==
  /\ DOMAIN sent = Tab
  /\ \A t \in Tab : \A r \in sent[t] : RequestOK(r)

DialsIn(requests) == {r \in requests : r.kind = "dial"}
OpensIn(requests) == {r \in requests : r.kind = "open"}

\* A new state cancels polls and adds an attach, and touches nothing else.
LEMMA BecomesKeeps ==
  ASSUME RequestsInv, NEW t \in Tab, NEW url, NEW state, NEW requests,
         \A r \in requests : RequestOK(r), Becomes(t, url, state, requests)
  PROVE  /\ sent' = [sent EXCEPT ![t] = sent'[t]]
         /\ \A r \in sent'[t] : RequestOK(r)
         /\ DialsIn(sent'[t]) = DialsIn(requests)
         /\ OpensIn(sent'[t]) = OpensIn(requests)
<1> DEFINE kept == IF state.case = tab[t].state.case /\ state.status = tab[t].state.status
                   THEN requests ELSE {r \in requests : r.kind # "tick"}
           attach == Attach(url, FALSE, 1)
<1>1. /\ sent' = [sent EXCEPT ![t] = sent'[t]]
      /\ sent'[t] = IF url \in {NoCase, tab[t].url} THEN kept ELSE kept \cup {attach}
  BY DEF Becomes, RequestsInv
<1>2. attach.kind = "attach" /\ RequestOK(attach)
  BY DEF Attach, RequestOK
<1>3. kept \subseteq requests /\ \A r \in requests \ kept : r.kind = "tick"
  OBVIOUS
<1> HIDE DEF kept, attach
<1>4. \A r \in sent'[t] : RequestOK(r)
  BY <1>1, <1>2, <1>3
<1>5. DialsIn(sent'[t]) = DialsIn(requests) /\ OpensIn(sent'[t]) = OpensIn(requests)
  BY <1>1, <1>2, <1>3 DEF DialsIn, OpensIn
<1>6. QED BY <1>1, <1>4, <1>5

\* What a launch asks for is one opening, with every one who waits for it.
LEMMA LaunchSends ==
  ASSUME RequestsInv, NEW t \in Tab, NEW waiters, Launch(t, waiters)
  PROVE  /\ sent' = [sent EXCEPT ![t] = sent'[t]]
         /\ \A r \in sent'[t] : RequestOK(r)
         /\ DialsIn(sent'[t]) = DialsIn(sent[t])
         /\ OpensIn(sent'[t]) = OpenCase(t, waiters)
<1> DEFINE requests == (sent[t] \ Opening(t)) \cup OpenCase(t, waiters)
<1>1. \A r \in OpenCase(t, waiters) : RequestOK(r) /\ r.kind = "open"
  BY DEF OpenCase, Open, Opening, RequestOK, RequestsInv
<1>2. \A r \in requests : RequestOK(r)
  BY <1>1 DEF RequestsInv
<1>3. DialsIn(requests) = DialsIn(sent[t]) /\ OpensIn(requests) = OpenCase(t, waiters)
  BY <1>1 DEF DialsIn, OpensIn, Opening
<1>4. Becomes(t, tab[t].url, [Empty EXCEPT !.status = "launching"], requests)
  BY DEF Launch
<1> HIDE DEF requests
<1>5. QED BY <1>2, <1>3, <1>4, BecomesKeeps

\* The actions that are neither about dials nor about openings: one tab's requests
\* change, its dials and its openings do not.
Reading(t) ==
  /\ sent' = [sent EXCEPT ![t] = sent'[t]]
  /\ \A r \in sent'[t] : RequestOK(r)
  /\ DialsIn(sent'[t]) = DialsIn(sent[t])
  /\ OpensIn(sent'[t]) = OpensIn(sent[t])

LEMMA ReadsOnly ==
  ASSUME RequestsInv, NEW t \in Tab, Tick(t) \/ ServeRead(t) \/ ShowAttach(t) \/ ShowTick(t)
  PROVE  Reading(t)
<1>1. CASE Tick(t)
  <2> DEFINE r == [kind |-> "tick", case |-> tab[t].state.case, since |-> Since(tab[t].state.events),
                   events |-> Nobody, view |-> Nobody]
  <2>1. sent' = [sent EXCEPT ![t] = @ \cup {r}]
    BY <1>1 DEF Tick
  <2>2. r.kind = "tick" /\ RequestOK(r)
    BY DEF RequestOK
  <2> HIDE DEF r
  <2>3. QED BY <2>1, <2>2 DEF Reading, RequestsInv, DialsIn, OpensIn
<1>2. CASE ServeRead(t)
  <2>1. PICK r \in sent[t] :
          /\ IsRead(r)
          /\ sent' = [sent EXCEPT ![t] = (@ \ {r}) \cup
                       {[r EXCEPT !.events = EventsOf(r.case, r.since), !.view = View(r.case)]}]
    BY <1>2 DEF ServeRead
  <2> DEFINE q == [r EXCEPT !.events = EventsOf(r.case, r.since), !.view = View(r.case)]
  <2>2. DOMAIN q = DOMAIN r /\ (RequestOK(r) => q.kind = r.kind)
    BY DEF RequestOK
  <2>3. sent'[t] = (sent[t] \ {r}) \cup {q} /\ sent' = [sent EXCEPT ![t] = sent'[t]]
    BY <2>1 DEF RequestsInv
  <2> HIDE DEF q
  <2>4. RequestOK(r) /\ RequestOK(q) /\ q.kind = r.kind /\ r.kind \in {"attach", "tick"}
    BY <2>1, <2>2 DEF RequestsInv, RequestOK, IsRead
  <2>5. QED BY <2>3, <2>4 DEF Reading, RequestsInv, DialsIn, OpensIn
<1>3. CASE ShowAttach(t)
  <2>1. PICK r \in sent[t] :
          /\ r.kind = "attach"
          /\ Becomes(t, IF r.opened THEN r.case ELSE tab[t].url, Attached(t, r), sent[t] \ {r})
    BY <1>3 DEF ShowAttach
  <2>2. DialsIn(sent[t] \ {r}) = DialsIn(sent[t]) /\ OpensIn(sent[t] \ {r}) = OpensIn(sent[t])
    BY <2>1 DEF DialsIn, OpensIn
  <2>3. \A q \in sent[t] \ {r} : RequestOK(q)
    BY DEF RequestsInv
  <2>4. QED BY <2>1, <2>2, <2>3, BecomesKeeps DEF Reading
<1>4. CASE ShowTick(t)
  <2>1. PICK r \in sent[t] :
          r.kind = "tick" /\ Becomes(t, tab[t].url, Extended(t, r), sent[t] \ {r})
    BY <1>4 DEF ShowTick
  <2>2. DialsIn(sent[t] \ {r}) = DialsIn(sent[t]) /\ OpensIn(sent[t] \ {r}) = OpensIn(sent[t])
    BY <2>1 DEF DialsIn, OpensIn
  <2>3. \A q \in sent[t] \ {r} : RequestOK(q)
    BY DEF RequestsInv
  <2>4. QED BY <2>1, <2>2, <2>3, BecomesKeeps DEF Reading
<1>5. QED BY <1>1, <1>2, <1>3, <1>4

\* The API answers an opening.
LEMMA ServeOpenSends ==
  ASSUME RequestsInv, NEW t \in Tab, ServeOpen(t)
  PROVE  /\ sent' = [sent EXCEPT ![t] = sent'[t]]
         /\ \A r \in sent'[t] : RequestOK(r)
         /\ DialsIn(sent'[t]) = DialsIn(sent[t])
         /\ \E r \in Opening(t), q \in sent'[t] :
              /\ r.case = NoCase /\ q.case = Len(cases) + 1 /\ q.kind = "open"
              /\ sent'[t] = (sent[t] \ {r}) \cup {q}
<1>1. PICK r \in Opening(t), session \in {"session", "stub"} :
        /\ r.case = NoCase
        /\ sent' = [sent EXCEPT ![t] = (@ \ {r}) \cup {[r EXCEPT !.case = Len(cases) + 1]}]
  BY DEF ServeOpen
<1> DEFINE q == [r EXCEPT !.case = Len(cases) + 1]
<1>2. r \in sent[t] /\ RequestOK(r) /\ r.kind = "open"
  BY DEF Opening, RequestsInv
<1>3. q.kind = "open" /\ q.case = Len(cases) + 1 /\ RequestOK(q)
  BY <1>2 DEF RequestOK
<1>4. sent'[t] = (sent[t] \ {r}) \cup {q} /\ sent' = [sent EXCEPT ![t] = sent'[t]]
  BY <1>1 DEF RequestsInv
<1> HIDE DEF q
<1>5. QED BY <1>1, <1>2, <1>3, <1>4 DEF RequestsInv, DialsIn

LEMMA LaunchedSends ==
  ASSUME RequestsInv, NEW t \in Tab, Launched(t)
  PROVE  /\ sent' = [sent EXCEPT ![t] = sent'[t]]
         /\ \A r \in sent'[t] : RequestOK(r)
         /\ DialsIn(sent'[t]) = DialsIn(sent[t])
         /\ OpensIn(sent'[t]) \subseteq OpensIn(sent[t])
<1>1. PICK r \in Opening(t) :
        sent' = [sent EXCEPT ![t] = (@ \ {r}) \cup {Attach(r.case, TRUE, w) : w \in r.waiters}]
  BY DEF Launched
<1> DEFINE attaches == {Attach(r.case, TRUE, w) : w \in r.waiters}
<1>2. \A q \in attaches : q.kind = "attach" /\ RequestOK(q)
  BY DEF Attach, RequestOK
<1>3. sent'[t] = (sent[t] \ {r}) \cup attaches /\ sent' = [sent EXCEPT ![t] = sent'[t]]
  BY <1>1 DEF RequestsInv
<1>4. r.kind = "open"
  BY DEF Opening
<1> HIDE DEF attaches
<1>5. QED BY <1>2, <1>3, <1>4 DEF RequestsInv, DialsIn, OpensIn

\* One request gets lost; what an error cancels are polls.
LEMMA LoseSends ==
  ASSUME RequestsInv, NEW t \in Tab, NEW r \in sent[t],
         Becomes(t, tab[t].url, AfterLoss(t, r), sent[t] \ {r})
  PROVE  /\ sent' = [sent EXCEPT ![t] = sent'[t]]
         /\ \A q \in sent'[t] : RequestOK(q)
         /\ DialsIn(sent'[t]) = DialsIn(sent[t]) \ {r}
         /\ OpensIn(sent'[t]) = OpensIn(sent[t]) \ {r}
<1>1. \A q \in sent[t] \ {r} : RequestOK(q)
  BY DEF RequestsInv
<1>2. /\ DialsIn(sent[t] \ {r}) = DialsIn(sent[t]) \ {r}
      /\ OpensIn(sent[t] \ {r}) = OpensIn(sent[t]) \ {r}
  BY DEF DialsIn, OpensIn
<1>3. QED BY <1>1, <1>2, BecomesKeeps

LEMMA LoadSends ==
  ASSUME RequestsInv, NEW t \in Tab, NEW url, Load(t, url)
  PROVE  /\ sent' = [sent EXCEPT ![t] = sent'[t]]
         /\ \A q \in sent'[t] : RequestOK(q)
         /\ DialsIn(sent'[t]) = {}
         /\ OpensIn(sent'[t]) = {}
<1>1. sent'[t] = (IF url = NoCase THEN {} ELSE {Attach(url, FALSE, run) : run \in Runs})
      /\ sent' = [sent EXCEPT ![t] = sent'[t]]
  BY DEF Load, RequestsInv
<1>2. \A q \in sent'[t] : q.kind = "attach" /\ RequestOK(q)
  BY <1>1 DEF Attach, RequestOK
<1>3. QED BY <1>1, <1>2 DEF DialsIn, OpensIn

LEMMA PlaceSends ==
  ASSUME RequestsInv, NEW t \in Tab, PlaceLiveCall(t)
  PROVE  \E q :
           /\ sent' = [sent EXCEPT ![t] = @ \cup {q}]
           /\ RequestOK(q) /\ q.kind = "dial" /\ q.answer = "none"
           /\ q.case = tab[t].state.case /\ MayDial(t, q.case)
<1>1. PICK s \in WantsToDial(t) :
        /\ MayDial(t, tab[t].state.case)
        /\ sent' = [sent EXCEPT ![t] = @ \cup
             {[kind |-> "dial", case |-> tab[t].state.case, supplier |-> s,
               run |-> dials[t][tab[t].state.case], answer |-> "none"]}]
  BY DEF PlaceLiveCall
<1> DEFINE q == [kind |-> "dial", case |-> tab[t].state.case, supplier |-> s,
                 run |-> dials[t][tab[t].state.case], answer |-> "none"]
<1>2. /\ RequestOK(q) /\ q.kind = "dial" /\ q.answer = "none"
      /\ q.case = tab[t].state.case
  BY DEF RequestOK
<1>3. sent' = [sent EXCEPT ![t] = @ \cup {q}] /\ MayDial(t, q.case)
  BY <1>1, <1>2
<1> HIDE DEF q
<1>4. QED BY <1>2, <1>3

LEMMA ServeDialSends ==
  ASSUME RequestsInv, NEW t \in Tab, ServeDial(t)
  PROVE  \E r \in sent[t], q \in sent'[t] :
           /\ r.kind = "dial" /\ r.answer = "none"
           /\ dials' = dials \/ dials' = [dials EXCEPT ![t][r.case] = @ + 1]
           /\ sent'[t] = (sent[t] \ {r}) \cup {q}
           /\ sent' = [sent EXCEPT ![t] = sent'[t]]
           /\ RequestOK(q) /\ q.kind = "dial" /\ q.answer = "some" /\ q.case = r.case
<1>1. PICK r \in sent[t] :
        /\ r.kind = "dial" /\ r.answer = "none"
        /\ sent' = [sent EXCEPT ![t] = (@ \ {r}) \cup {[r EXCEPT !.answer = "some"]}]
        /\ dials' = dials \/ dials' = [dials EXCEPT ![t][r.case] = @ + 1]
  BY DEF ServeDial
<1> DEFINE q == [r EXCEPT !.answer = "some"]
<1>2. RequestOK(r)
  BY DEF RequestsInv
<1>3. RequestOK(q) /\ q.kind = "dial" /\ q.answer = "some" /\ q.case = r.case
  BY <1>1, <1>2 DEF RequestOK
<1>4. sent'[t] = (sent[t] \ {r}) \cup {q} /\ sent' = [sent EXCEPT ![t] = sent'[t]]
  BY <1>1 DEF RequestsInv
<1> HIDE DEF q
<1>5. QED BY <1>1, <1>3, <1>4

-----------------------------------------------------------------------------
(* Dials.                                                                  *)

\* The dials of a case in this life of a tab's page.
CaseDialsOK(t, c) ==
  LET waiting == DialsUnderWay(t, c)
  IN  /\ dials[t][c] \in Nat /\ lostDials[t][c] \in Nat
      /\ dials[t][c] <= 1 + lostDials[t][c]
      /\ \A q, r \in waiting : q = r
      /\ (\E r \in waiting : r.answer = "none") => dials[t][c] <= lostDials[t][c]
      /\ MayDial(t, c) => dials[t][c] <= lostDials[t][c]

DialsInv ==
  /\ RequestsInv
  /\ dials \in [Tab -> [Cases -> Nat]] /\ lostDials \in [Tab -> [Cases -> Nat]]
  /\ DOMAIN dialled = Tab
  /\ \A t \in Tab, c \in Cases : CaseDialsOK(t, c)

\* A step that touches no dial keeps all of that.
LEMMA QuietOK ==
  ASSUME DialsInv, NEW t \in Tab, sent' = [sent EXCEPT ![t] = sent'[t]],
         \A r \in sent'[t] : RequestOK(r), DialsIn(sent'[t]) = DialsIn(sent[t]),
         UNCHANGED <<dialled, dials, lostDials>>
  PROVE  DialsInv'
<1>1. RequestsInv'
  BY DEF DialsInv, RequestsInv
<1>2. ASSUME NEW u \in Tab, NEW c \in Cases
      PROVE  DialsUnderWay(u, c)' = DialsUnderWay(u, c)
  <2>1. DialsIn(sent'[u]) = DialsIn(sent[u])
    BY DEF DialsInv, RequestsInv
  <2>2. QED BY <2>1 DEF DialsUnderWay, DialsIn
<1>3. ASSUME NEW u \in Tab, NEW c \in Cases
      PROVE  CaseDialsOK(u, c)'
  BY <1>2 DEF DialsInv, CaseDialsOK, MayDial
<1>4. QED BY <1>1, <1>3 DEF DialsInv

\* Nothing changes of the dials but those of one case and tab.
OnlyDialsOf(t, c) ==
  \A u \in Tab, d \in Cases : u # t \/ d # c =>
    /\ DialsUnderWay(u, d)' = DialsUnderWay(u, d)
    /\ dials'[u][d] = dials[u][d] /\ lostDials'[u][d] = lostDials[u][d]
    /\ d \in dialled'[u] <=> d \in dialled[u]

LEMMA OneCaseOK ==
  ASSUME DialsInv, NEW t \in Tab, NEW c, RequestsInv',
         dials' \in [Tab -> [Cases -> Nat]], lostDials' \in [Tab -> [Cases -> Nat]],
         DOMAIN dialled' = Tab,
         OnlyDialsOf(t, c),
         c \in Cases => CaseDialsOK(t, c)'
  PROVE  DialsInv'
<1>1. ASSUME NEW u \in Tab, NEW d \in Cases
      PROVE  CaseDialsOK(u, d)'
  <2>1. CASE u = t /\ d = c
    BY <2>1
  <2>2. CASE u # t \/ d # c
    BY <2>2 DEF DialsInv, CaseDialsOK, MayDial, OnlyDialsOf
  <2>3. QED BY <2>1, <2>2
<1>2. QED BY <1>1 DEF DialsInv

\* One dial more is placed.
LEMMA OneDialMore ==
  ASSUME DialsInv, NEW t \in Tab, NEW c, dials' = [dials EXCEPT ![t][c] = @ + 1]
  PROVE  /\ dials' \in [Tab -> [Cases -> Nat]]
         /\ \A u \in Tab, d \in Cases : u # t \/ d # c => dials'[u][d] = dials[u][d]
<1> DEFINE row == [dials[t] EXCEPT ![c] = dials[t][c] + 1]
<1>1. dials \in [Tab -> [Cases -> Nat]] /\ dials[t] \in [Cases -> Nat]
  BY DEF DialsInv
<1>2. \A d \in Cases : row[d] = IF d = c THEN dials[t][d] + 1 ELSE dials[t][d]
  BY <1>1
<1>3. DOMAIN row = Cases /\ row = [d \in Cases |-> row[d]]
  BY <1>1
<1>4. dials' = [dials EXCEPT ![t] = row]
  OBVIOUS
<1> HIDE DEF row
<1>5. \A d \in Cases : row[d] \in Nat
  BY <1>1, <1>2
<1>6. row \in [Cases -> Nat]
  BY <1>3, <1>5
<1>7. QED BY <1>1, <1>2, <1>4, <1>6

\* The answer to one dial more gets lost.
LEMMA OneLossMore ==
  ASSUME DialsInv, NEW t \in Tab, NEW c, lostDials' = [lostDials EXCEPT ![t][c] = @ + 1]
  PROVE  /\ lostDials' \in [Tab -> [Cases -> Nat]]
         /\ \A u \in Tab, d \in Cases : u # t \/ d # c => lostDials'[u][d] = lostDials[u][d]
<1> DEFINE row == [lostDials[t] EXCEPT ![c] = lostDials[t][c] + 1]
<1>1. lostDials \in [Tab -> [Cases -> Nat]] /\ lostDials[t] \in [Cases -> Nat]
  BY DEF DialsInv
<1>2. \A d \in Cases : row[d] = IF d = c THEN lostDials[t][d] + 1 ELSE lostDials[t][d]
  BY <1>1
<1>3. DOMAIN row = Cases /\ row = [d \in Cases |-> row[d]]
  BY <1>1
<1>4. lostDials' = [lostDials EXCEPT ![t] = row]
  OBVIOUS
<1> HIDE DEF row
<1>5. \A d \in Cases : row[d] \in Nat
  BY <1>1, <1>2
<1>6. row \in [Cases -> Nat]
  BY <1>3, <1>5
<1>7. QED BY <1>1, <1>2, <1>4, <1>6

LEMMA PlaceOK == ASSUME DialsInv, NEW t \in Tab, PlaceLiveCall(t) PROVE DialsInv'
<1>0. RequestsInv
  BY DEF DialsInv
<1>1. PICK q :
        /\ sent' = [sent EXCEPT ![t] = @ \cup {q}]
        /\ RequestOK(q) /\ q.kind = "dial" /\ q.answer = "none"
        /\ MayDial(t, q.case)
  BY <1>0, PlaceSends
<1>2. dials' = dials /\ lostDials' = lostDials /\ dialled' = dialled
  BY DEF PlaceLiveCall
<1>3. RequestsInv'
  BY <1>0, <1>1 DEF RequestsInv
<1>4. \A u \in Tab, d \in Cases : u # t \/ d # q.case => DialsUnderWay(u, d)' = DialsUnderWay(u, d)
  BY <1>0, <1>1 DEF RequestsInv, DialsUnderWay
<1>5. DialsUnderWay(t, q.case)' = {q}
  <2>1. DialsUnderWay(t, q.case) = {} /\ sent'[t] = sent[t] \cup {q}
    BY <1>0, <1>1 DEF MayDial, RequestsInv
  <2>2. QED BY <2>1, <1>1 DEF DialsUnderWay
<1>6. ASSUME q.case \in Cases PROVE CaseDialsOK(t, q.case)'
  BY <1>1, <1>2, <1>5, <1>6 DEF DialsInv, CaseDialsOK, MayDial
<1>7. OnlyDialsOf(t, q.case)
  BY <1>2, <1>4 DEF OnlyDialsOf
<1>8. QED
  <2>1. dials' \in [Tab -> [Cases -> Nat]] /\ lostDials' \in [Tab -> [Cases -> Nat]] /\ DOMAIN dialled' = Tab
    BY <1>2 DEF DialsInv
  <2>2. QED BY <1>3, <1>6, <1>7, <2>1, OneCaseOK

LEMMA ServeDialOK == ASSUME DialsInv, NEW t \in Tab, ServeDial(t) PROVE DialsInv'
<1>0. RequestsInv
  BY DEF DialsInv
<1>1. PICK r \in sent[t], q \in sent'[t] :
        /\ r.kind = "dial" /\ r.answer = "none"
        /\ dials' = dials \/ dials' = [dials EXCEPT ![t][r.case] = @ + 1]
        /\ sent'[t] = (sent[t] \ {r}) \cup {q}
        /\ sent' = [sent EXCEPT ![t] = sent'[t]]
        /\ RequestOK(q) /\ q.kind = "dial" /\ q.answer = "some" /\ q.case = r.case
  BY <1>0, ServeDialSends
<1>2. lostDials' = lostDials /\ dialled' = dialled
  BY DEF ServeDial
<1>3. RequestsInv'
  BY <1>0, <1>1 DEF RequestsInv
<1>4. \A u \in Tab, d \in Cases : u # t \/ d # r.case => DialsUnderWay(u, d)' = DialsUnderWay(u, d)
  BY <1>0, <1>1 DEF RequestsInv, DialsUnderWay
<1>5. ASSUME r.case \in Cases PROVE CaseDialsOK(t, r.case)'
  <2>1. r \in DialsUnderWay(t, r.case) /\ CaseDialsOK(t, r.case)
    BY <1>1, <1>5 DEF DialsUnderWay, DialsInv
  <2>2. DialsUnderWay(t, r.case)' = {q}
    BY <1>1, <2>1 DEF DialsUnderWay, CaseDialsOK
  <2>3. dials[t][r.case] <= lostDials[t][r.case] /\ dials[t][r.case] \in Nat /\ lostDials[t][r.case] \in Nat
    BY <1>1, <2>1 DEF CaseDialsOK
  <2>4. dials'[t][r.case] \in {dials[t][r.case], dials[t][r.case] + 1}
    BY <1>1, <1>5 DEF DialsInv
  <2>5. QED BY <1>1, <1>2, <2>2, <2>3, <2>4 DEF CaseDialsOK, MayDial
<1>6. /\ dials' \in [Tab -> [Cases -> Nat]]
      /\ \A u \in Tab, d \in Cases : u # t \/ d # r.case => dials'[u][d] = dials[u][d]
  <2>1. CASE dials' = dials
    BY <2>1 DEF DialsInv
  <2>2. CASE dials' = [dials EXCEPT ![t][r.case] = @ + 1]
    BY <2>2, OneDialMore
  <2>3. QED BY <1>1, <2>1, <2>2
<1>7. OnlyDialsOf(t, r.case)
  BY <1>2, <1>4, <1>6 DEF OnlyDialsOf
<1>8. QED
  <2>1. lostDials' \in [Tab -> [Cases -> Nat]] /\ DOMAIN dialled' = Tab
    BY <1>2 DEF DialsInv
  <2>2. QED BY <1>3, <1>5, <1>6, <1>7, <2>1, OneCaseOK

LEMMA DialedOK == ASSUME DialsInv, NEW t \in Tab, Dialed(t) PROVE DialsInv'
<1>0. RequestsInv
  BY DEF DialsInv
<1>1. PICK r \in sent[t] :
        /\ r.kind = "dial"
        /\ sent' = [sent EXCEPT ![t] = @ \ {r}]
        /\ dialled' = [dialled EXCEPT ![t] = @ \cup {r.case}]
  BY DEF Dialed
<1>2. dials' = dials /\ lostDials' = lostDials
  BY DEF Dialed
<1>3. RequestsInv'
  BY <1>0, <1>1 DEF RequestsInv
<1>4. \A u \in Tab, d \in Cases : u # t \/ d # r.case => DialsUnderWay(u, d)' = DialsUnderWay(u, d)
  BY <1>0, <1>1 DEF RequestsInv, DialsUnderWay
<1>5. ASSUME r.case \in Cases PROVE CaseDialsOK(t, r.case)'
  <2>1. r \in DialsUnderWay(t, r.case) /\ CaseDialsOK(t, r.case)
    BY <1>1, <1>5 DEF DialsUnderWay, DialsInv
  <2>2. DialsUnderWay(t, r.case)' = {}
    BY <1>0, <1>1, <2>1 DEF DialsUnderWay, CaseDialsOK, RequestsInv
  <2>3. r.case \in dialled'[t]
    BY <1>1 DEF DialsInv
  <2>4. QED BY <1>2, <2>1, <2>2, <2>3 DEF CaseDialsOK, MayDial
<1>6. /\ DOMAIN dialled' = Tab
      /\ \A u \in Tab, d \in Cases : u # t \/ d # r.case => (d \in dialled'[u] <=> d \in dialled[u])
  BY <1>1 DEF DialsInv
<1>7. OnlyDialsOf(t, r.case)
  BY <1>2, <1>4, <1>6 DEF OnlyDialsOf
<1>8. QED
  <2>1. dials' \in [Tab -> [Cases -> Nat]] /\ lostDials' \in [Tab -> [Cases -> Nat]]
    BY <1>2 DEF DialsInv
  <2>2. QED BY <1>3, <1>5, <1>6, <1>7, <2>1, OneCaseOK

LEMMA LoseOK == ASSUME DialsInv, NEW t \in Tab, Lose(t) PROVE DialsInv'
<1>0. RequestsInv
  BY DEF DialsInv
<1>1. PICK r \in sent[t] :
        /\ Becomes(t, tab[t].url, AfterLoss(t, r), sent[t] \ {r})
        /\ lostDials' = IF r.kind # "dial" THEN lostDials ELSE [lostDials EXCEPT ![t][r.case] = @ + 1]
  BY DEF Lose
<1>2. dials' = dials /\ dialled' = dialled
  BY DEF Lose
<1>3. /\ sent' = [sent EXCEPT ![t] = sent'[t]]
      /\ \A q \in sent'[t] : RequestOK(q)
      /\ DialsIn(sent'[t]) = DialsIn(sent[t]) \ {r}
  BY <1>0, <1>1, LoseSends
<1>4. CASE r.kind # "dial"
  <2>1. DialsIn(sent'[t]) = DialsIn(sent[t])
    BY <1>3, <1>4 DEF DialsIn
  <2>2. QED BY <1>1, <1>2, <1>3, <1>4, <2>1, QuietOK
<1>5. CASE r.kind = "dial"
  <2>1. RequestsInv'
    BY <1>0, <1>3 DEF RequestsInv
  <2>2. \A d : DialsUnderWay(t, d)' = DialsUnderWay(t, d) \ {r}
    BY <1>3 DEF DialsIn, DialsUnderWay
  <2>3. \A u \in Tab, d \in Cases : u # t \/ d # r.case => DialsUnderWay(u, d)' = DialsUnderWay(u, d)
    <3>1. \A u \in Tab : u # t => sent'[u] = sent[u]
      BY <1>0, <1>3 DEF RequestsInv
    <3>2. \A d : d # r.case => r \notin DialsUnderWay(t, d)
      BY DEF DialsUnderWay
    <3>3. QED BY <2>2, <3>1, <3>2 DEF DialsUnderWay
  <2>4. ASSUME r.case \in Cases PROVE CaseDialsOK(t, r.case)'
    <3>1. r \in DialsUnderWay(t, r.case) /\ CaseDialsOK(t, r.case)
      BY <1>5, <2>4 DEF DialsUnderWay, DialsInv
    <3>2. DialsUnderWay(t, r.case)' = {}
      BY <2>2, <3>1 DEF CaseDialsOK
    <3>3. lostDials'[t][r.case] = lostDials[t][r.case] + 1
      BY <1>1, <1>5, <2>4 DEF DialsInv
    <3>4. QED BY <1>2, <3>1, <3>2, <3>3 DEF CaseDialsOK, MayDial
  <2>5. lostDials' = [lostDials EXCEPT ![t][r.case] = @ + 1]
    BY <1>1, <1>5
  <2>6. /\ lostDials' \in [Tab -> [Cases -> Nat]]
        /\ \A u \in Tab, d \in Cases : u # t \/ d # r.case => lostDials'[u][d] = lostDials[u][d]
    BY <2>5, OneLossMore
  <2>7. OnlyDialsOf(t, r.case)
    BY <1>2, <2>3, <2>6 DEF OnlyDialsOf
  <2>8. dials' \in [Tab -> [Cases -> Nat]] /\ DOMAIN dialled' = Tab
    BY <1>2 DEF DialsInv
  <2>9. QED BY <2>1, <2>4, <2>6, <2>7, <2>8, OneCaseOK
<1>6. QED BY <1>4, <1>5

LEMMA LoadOK == ASSUME DialsInv, NEW t \in Tab, NEW url, Load(t, url) PROVE DialsInv'
<1>0. RequestsInv
  BY DEF DialsInv
<1>1. /\ sent' = [sent EXCEPT ![t] = sent'[t]]
      /\ \A q \in sent'[t] : RequestOK(q)
      /\ DialsIn(sent'[t]) = {}
  BY <1>0, LoadSends
<1>2. RequestsInv'
  BY <1>0, <1>1 DEF RequestsInv
<1>3. /\ dials' = [dials EXCEPT ![t] = [c \in Cases |-> 0]]
      /\ lostDials' = [lostDials EXCEPT ![t] = [c \in Cases |-> 0]]
      /\ dialled' = [dialled EXCEPT ![t] = {}]
  BY DEF Load
<1>4. ASSUME NEW u \in Tab, NEW c \in Cases
      PROVE  CaseDialsOK(u, c)'
  <2>1. CASE u = t
    <3>1. DialsUnderWay(u, c)' = {}
      BY <1>1, <2>1 DEF DialsIn, DialsUnderWay
    <3>2. dials'[u][c] = 0 /\ lostDials'[u][c] = 0
      BY <1>3, <2>1 DEF DialsInv
    <3>3. QED BY <3>1, <3>2 DEF CaseDialsOK, MayDial
  <2>2. CASE u # t
    <3>1. DialsUnderWay(u, c)' = DialsUnderWay(u, c)
      BY <1>0, <1>1, <2>2 DEF RequestsInv, DialsUnderWay
    <3>2. QED BY <1>3, <2>2, <3>1 DEF DialsInv, CaseDialsOK, MayDial
  <2>3. QED BY <2>1, <2>2
<1>5. QED BY <1>2, <1>3, <1>4 DEF DialsInv

LEMMA DialsNext == DialsInv /\ [Next]_vars => DialsInv'
<1> SUFFICES ASSUME DialsInv, [Next]_vars PROVE DialsInv'
  OBVIOUS
<1>0. RequestsInv
  BY DEF DialsInv
<1>1. CASE UNCHANGED vars \/ AgentWorks
  BY <1>1 DEF vars, AgentWorks, DialsInv, RequestsInv, CaseDialsOK, MayDial, DialsUnderWay
<1>2. ASSUME NEW t \in Tab, AutoLaunch(t) \/ StartNewSession(t)
      PROVE  DialsInv'
  <2>1. PICK waiters : Launch(t, waiters)
    BY <1>2 DEF AutoLaunch, StartNewSession
  <2>2. UNCHANGED <<dialled, dials, lostDials>>
    BY <1>2 DEF AutoLaunch, StartNewSession
  <2>3. QED BY <1>0, <2>1, <2>2, LaunchSends, QuietOK
<1>3. ASSUME NEW t \in Tab, Tick(t) \/ ServeRead(t) \/ ShowAttach(t) \/ ShowTick(t)
      PROVE  DialsInv'
  <2>1. UNCHANGED <<dialled, dials, lostDials>>
    BY <1>3 DEF Tick, ServeRead, ShowAttach, ShowTick
  <2>2. Reading(t)
    BY <1>0, <1>3, ReadsOnly
  <2>3. QED BY <2>1, <2>2, QuietOK DEF Reading
<1>4. ASSUME NEW t \in Tab, ServeOpen(t) \/ Launched(t)
      PROVE  DialsInv'
  <2>1. UNCHANGED <<dialled, dials, lostDials>>
    BY <1>4 DEF ServeOpen, Launched
  <2>2. QED BY <1>0, <1>4, <2>1, ServeOpenSends, LaunchedSends, QuietOK
<1>5. ASSUME NEW t \in Tab, Reload(t) \/ OpenTab(t)
      PROVE  DialsInv'
  BY <1>5, LoadOK DEF Reload, OpenTab
<1>6. QED
  BY <1>1, <1>2, <1>3, <1>4, <1>5, PlaceOK, ServeDialOK, DialedOK, LoseOK DEF Next, Reads, Dials

LEMMA DialsInit == Init => DialsInv
BY DEF Init, DialsInv, RequestsInv, CaseDialsOK, DialsUnderWay, MayDial

\* One life of a tab dials a case once, and once more only for a dial whose answer
\* got lost, whatever it shows, polls or loses in between (lib/live/api.ts).
THEOREM DialsAccountedHolds == Spec => []DialsAccounted
<1>1. DialsInv => DialsAccounted
  BY DEF DialsInv, CaseDialsOK, DialsAccounted
<1>2. QED BY DialsInit, DialsNext, <1>1, PTL DEF Spec

-----------------------------------------------------------------------------
(* Cases.                                                                  *)

\* The tabs with an opening that the API has not answered.
Waiting == {t \in Tab : \E r \in OpensIn(sent[t]) : r.case = NoCase}

Listed == \E S : cases \in Seq(S)

CasesInv ==
  /\ RequestsInv
  /\ Listed
  /\ launches \in Nat
  /\ \A t \in Tab : \A q, r \in OpensIn(sent[t]) : q = r
  /\ IsFiniteSet(Waiting)
  /\ Len(cases) + Cardinality(Waiting) <= launches

\* A step that opens nothing, and may give up what a tab has been opening.
LEMMA NoOpeningOK ==
  ASSUME CasesInv, RequestsInv', Listed', Len(cases') = Len(cases), launches' = launches,
         \A u \in Tab : OpensIn(sent'[u]) \subseteq OpensIn(sent[u])
  PROVE  CasesInv'
<1>1. Waiting' \subseteq Waiting
  BY DEF Waiting
<1>2. IsFiniteSet(Waiting') /\ Cardinality(Waiting') <= Cardinality(Waiting)
  BY <1>1, FS_Subset DEF CasesInv
<1>3. Cardinality(Waiting) \in Nat /\ Cardinality(Waiting') \in Nat
  BY <1>2, FS_CardinalityType DEF CasesInv
<1>4. Len(cases) \in Nat
  BY DEF CasesInv, Listed
<1>5. \A t \in Tab : \A q, r \in OpensIn(sent'[t]) : q = r
  BY DEF CasesInv
<1>6. launches' \in Nat /\ Len(cases') + Cardinality(Waiting') <= launches'
  BY <1>2, <1>3, <1>4 DEF CasesInv
<1>7. QED BY <1>2, <1>5, <1>6 DEF CasesInv

\* The same, where one tab's requests change.
LEMMA NoOpeningByOK ==
  ASSUME CasesInv, NEW t \in Tab, sent' = [sent EXCEPT ![t] = sent'[t]],
         \A r \in sent'[t] : RequestOK(r), OpensIn(sent'[t]) \subseteq OpensIn(sent[t]),
         Listed', Len(cases') = Len(cases), launches' = launches
  PROVE  CasesInv'
<1>1. RequestsInv'
  BY DEF CasesInv, RequestsInv
<1>2. \A u \in Tab : OpensIn(sent'[u]) \subseteq OpensIn(sent[u])
  BY DEF CasesInv, RequestsInv
<1>3. QED BY <1>1, <1>2, NoOpeningOK

\* Work on a case opens none.
LEMMA WorkedOn ==
  ASSUME Listed, DOMAIN cases' = DOMAIN cases, cases' = [c \in DOMAIN cases |-> cases'[c]]
  PROVE  Listed' /\ Len(cases') = Len(cases)
<1>1. DOMAIN cases = 1..Len(cases) /\ Len(cases) \in Nat
  BY DEF Listed
<1> DEFINE S == {cases'[c] : c \in DOMAIN cases}
<1>2. cases' \in [1..Len(cases) -> S]
  BY <1>1
<1>3. cases' \in Seq(S) /\ Len(cases') = Len(cases)
  BY <1>1, <1>2
<1>4. QED BY <1>3 DEF Listed

LEMMA LaunchOK == ASSUME CasesInv, NEW t \in Tab, NEW waiters, Launch(t, waiters), cases' = cases PROVE CasesInv'
<1>0. RequestsInv /\ launches' = launches + 1
  BY DEF CasesInv, Launch
<1>1. /\ sent' = [sent EXCEPT ![t] = sent'[t]]
      /\ \A r \in sent'[t] : RequestOK(r)
      /\ OpensIn(sent'[t]) = OpenCase(t, waiters)
  BY <1>0, LaunchSends
<1>2. RequestsInv'
  BY <1>0, <1>1 DEF RequestsInv
<1>3. \A u \in Tab : u # t => OpensIn(sent'[u]) = OpensIn(sent[u])
  BY <1>0, <1>1 DEF RequestsInv
<1>4. \A q, r \in OpensIn(sent'[t]) : q = r
  <2>1. Opening(t) = OpensIn(sent[t])
    BY DEF Opening, OpensIn
  <2>2. CASE Opening(t) = {}
    BY <1>1, <2>2 DEF OpenCase
  <2>3. CASE Opening(t) # {}
    <3>1. PICK r : Opening(t) = {r}
      BY <2>1, <2>3 DEF CasesInv
    <3>2. OpenCase(t, waiters) = {[r EXCEPT !.waiters = @ \cup waiters]}
      BY <3>1 DEF OpenCase
    <3>3. QED BY <1>1, <3>2
  <2>4. QED BY <2>2, <2>3
<1>5. Waiting' \subseteq Waiting \cup {t}
  BY <1>3 DEF Waiting
<1>6. /\ IsFiniteSet(Waiting \cup {t})
      /\ Cardinality(Waiting \cup {t}) \in {Cardinality(Waiting), Cardinality(Waiting) + 1}
  BY FS_AddElement DEF CasesInv
<1>7. IsFiniteSet(Waiting') /\ Cardinality(Waiting') <= Cardinality(Waiting \cup {t})
  BY <1>5, <1>6, FS_Subset
<1>8. Cardinality(Waiting) \in Nat /\ Cardinality(Waiting') \in Nat /\ Len(cases) \in Nat
  BY <1>7, FS_CardinalityType DEF CasesInv, Listed
<1>9. Listed' /\ Len(cases') = Len(cases)
  BY DEF CasesInv, Listed
<1>10. \A u \in Tab : \A q, r \in OpensIn(sent'[u]) : q = r
  BY <1>3, <1>4 DEF CasesInv
<1>11. launches' \in Nat /\ Len(cases') + Cardinality(Waiting') <= launches'
  BY <1>0, <1>6, <1>7, <1>8, <1>9 DEF CasesInv
<1>12. QED BY <1>2, <1>7, <1>9, <1>10, <1>11 DEF CasesInv

LEMMA ServeOpenOK == ASSUME CasesInv, NEW t \in Tab, ServeOpen(t) PROVE CasesInv'
<1>0. RequestsInv /\ launches' = launches
  BY DEF CasesInv, ServeOpen
<1>1. /\ sent' = [sent EXCEPT ![t] = sent'[t]]
      /\ \A r \in sent'[t] : RequestOK(r)
  BY <1>0, ServeOpenSends
<1>2. PICK r \in Opening(t), q \in sent'[t] :
        /\ r.case = NoCase /\ q.case = Len(cases) + 1 /\ q.kind = "open"
        /\ sent'[t] = (sent[t] \ {r}) \cup {q}
  BY <1>0, ServeOpenSends
<1>3. RequestsInv'
  BY <1>0, <1>1 DEF RequestsInv
<1>4. \A u \in Tab : u # t => OpensIn(sent'[u]) = OpensIn(sent[u])
  BY <1>0, <1>1 DEF RequestsInv
<1>5. OpensIn(sent[t]) = {r} /\ OpensIn(sent'[t]) = {q}
  BY <1>2 DEF OpensIn, Opening, CasesInv
<1>6. Len(cases) \in Nat /\ Listed' /\ Len(cases') = Len(cases) + 1
  <2>1. PICK session : cases' = Append(cases, SeededCase(session))
    BY DEF ServeOpen
  <2>2. PICK S : cases \in Seq(S)
    BY DEF CasesInv, Listed
  <2>3. cases \in Seq(S \cup {SeededCase(session)})
    BY <2>2
  <2>4. /\ cases' \in Seq(S \cup {SeededCase(session)}) /\ Len(cases') = Len(cases) + 1
        /\ Len(cases) \in Nat
    BY <2>1, <2>3
  <2>5. QED BY <2>4 DEF Listed
<1>7. t \in Waiting /\ Waiting' = Waiting \ {t}
  <2>1. q.case # NoCase
    BY <1>2, <1>6 DEF NoCase
  <2>2. QED BY <1>2, <1>4, <1>5, <2>1 DEF Waiting
<1>8. IsFiniteSet(Waiting') /\ Cardinality(Waiting') = Cardinality(Waiting) - 1
  BY <1>7, FS_RemoveElement DEF CasesInv
<1>9. Cardinality(Waiting) \in Nat
  BY FS_CardinalityType DEF CasesInv
<1>10. \A u \in Tab : \A p, o \in OpensIn(sent'[u]) : p = o
  <2>1. ASSUME NEW u \in Tab PROVE \A p, o \in OpensIn(sent'[u]) : p = o
    <3>1. CASE u = t
      BY <1>5, <3>1
    <3>2. CASE u # t
      BY <1>4, <3>2 DEF CasesInv
    <3>3. QED BY <3>1, <3>2
  <2>2. QED BY <2>1
<1>11. launches' \in Nat /\ Len(cases') + Cardinality(Waiting') <= launches'
  BY <1>0, <1>6, <1>8, <1>9 DEF CasesInv
<1>12. QED BY <1>3, <1>6, <1>8, <1>10, <1>11 DEF CasesInv

LEMMA CasesNext == CasesInv /\ [Next]_vars => CasesInv'
<1> SUFFICES ASSUME CasesInv, [Next]_vars PROVE CasesInv'
  OBVIOUS
<1>0. RequestsInv /\ Listed
  BY DEF CasesInv
<1>1. CASE UNCHANGED vars
  BY <1>1 DEF vars, CasesInv, RequestsInv, Listed, Waiting
<1>2. CASE AgentWorks
  <2>1. PICK c \in Opened : \E work : cases' = [cases EXCEPT ![c] = work]
    BY <1>2 DEF AgentWorks
  <2>2. Listed' /\ Len(cases') = Len(cases)
    <3>1. PICK work : cases' = [cases EXCEPT ![c] = work]
      BY <2>1
    <3>2. QED BY <1>0, <3>1, WorkedOn
  <2>3. sent' = sent /\ launches' = launches
    BY <1>2 DEF AgentWorks
  <2>4. QED BY <1>0, <2>2, <2>3, NoOpeningOK DEF RequestsInv
<1>3. ASSUME NEW t \in Tab, AutoLaunch(t) \/ StartNewSession(t)
      PROVE  CasesInv'
  BY <1>3, LaunchOK DEF AutoLaunch, StartNewSession
<1>4. ASSUME NEW t \in Tab, Tick(t) \/ ServeRead(t) \/ ShowAttach(t) \/ ShowTick(t)
      PROVE  CasesInv'
  <2>1. cases' = cases /\ launches' = launches
    BY <1>4 DEF Tick, ServeRead, ShowAttach, ShowTick
  <2>2. Reading(t)
    BY <1>0, <1>4, ReadsOnly
  <2>3. QED BY <1>0, <2>1, <2>2, NoOpeningByOK DEF Reading, Listed
<1>5. ASSUME NEW t \in Tab, Launched(t)
      PROVE  CasesInv'
  <2>1. cases' = cases /\ launches' = launches
    BY <1>5 DEF Launched
  <2>2. QED BY <1>0, <1>5, <2>1, LaunchedSends, NoOpeningByOK DEF Listed
<1>6. ASSUME NEW t \in Tab, PlaceLiveCall(t)
      PROVE  CasesInv'
  <2>1. cases' = cases /\ launches' = launches
    BY <1>6 DEF PlaceLiveCall
  <2>2. PICK q : sent' = [sent EXCEPT ![t] = @ \cup {q}] /\ RequestOK(q) /\ q.kind = "dial"
    BY <1>0, <1>6, PlaceSends
  <2>3. /\ sent' = [sent EXCEPT ![t] = sent'[t]] /\ \A r \in sent'[t] : RequestOK(r)
        /\ OpensIn(sent'[t]) \subseteq OpensIn(sent[t])
    BY <1>0, <2>2 DEF RequestsInv, OpensIn
  <2>4. QED BY <1>0, <2>1, <2>3, NoOpeningByOK DEF Listed
<1>7. ASSUME NEW t \in Tab, ServeDial(t)
      PROVE  CasesInv'
  <2>1. PICK r \in sent[t], q \in sent'[t] :
          /\ r.kind = "dial"
          /\ sent'[t] = (sent[t] \ {r}) \cup {q} /\ sent' = [sent EXCEPT ![t] = sent'[t]]
          /\ RequestOK(q) /\ q.kind = "dial"
    BY <1>0, <1>7, ServeDialSends
  <2>2. /\ \A p \in sent'[t] : RequestOK(p)
        /\ OpensIn(sent'[t]) \subseteq OpensIn(sent[t])
    BY <1>0, <2>1 DEF RequestsInv, OpensIn
  <2>3. launches' = launches
    BY <1>7 DEF ServeDial
  <2>4. DOMAIN cases' = DOMAIN cases /\ cases' = [c \in DOMAIN cases |-> cases'[c]]
    <3>1. CASE cases' = cases
      BY <1>0, <3>1 DEF Listed
    <3>2. CASE \E p \in sent[t], outcome \in {"active", "failed"} :
                 cases' = [cases EXCEPT ![p.case].log = Append(@, "live"),
                                        ![p.case].called = Marked(@, p.supplier, outcome)]
      BY <3>2
    <3>3. QED BY <1>7, <3>1, <3>2 DEF ServeDial
  <2>5. Listed' /\ Len(cases') = Len(cases)
    BY <1>0, <2>4, WorkedOn
  <2>6. QED BY <2>1, <2>2, <2>3, <2>5, NoOpeningByOK
<1>8. ASSUME NEW t \in Tab, Dialed(t)
      PROVE  CasesInv'
  <2>1. cases' = cases /\ launches' = launches
    BY <1>8 DEF Dialed
  <2>2. PICK r \in sent[t] : sent' = [sent EXCEPT ![t] = @ \ {r}]
    BY <1>8 DEF Dialed
  <2>3. /\ sent' = [sent EXCEPT ![t] = sent'[t]] /\ \A q \in sent'[t] : RequestOK(q)
        /\ OpensIn(sent'[t]) \subseteq OpensIn(sent[t])
    BY <1>0, <2>2 DEF RequestsInv, OpensIn
  <2>4. QED BY <1>0, <2>1, <2>3, NoOpeningByOK DEF Listed
<1>9. ASSUME NEW t \in Tab, Lose(t)
      PROVE  CasesInv'
  <2>1. cases' = cases /\ launches' = launches
    BY <1>9 DEF Lose
  <2>2. PICK r \in sent[t] : Becomes(t, tab[t].url, AfterLoss(t, r), sent[t] \ {r})
    BY <1>9 DEF Lose
  <2>3. QED BY <1>0, <2>1, <2>2, LoseSends, NoOpeningByOK DEF Listed
<1>10. ASSUME NEW t \in Tab, NEW url, Load(t, url)
       PROVE  CasesInv'
  <2>1. cases' = cases /\ launches' = launches
    BY <1>10 DEF Load
  <2>2. QED BY <1>0, <1>10, <2>1, LoadSends, NoOpeningByOK DEF Listed
<1>11. ASSUME NEW t \in Tab, Reload(t) \/ OpenTab(t)
       PROVE  CasesInv'
  BY <1>10, <1>11 DEF Reload, OpenTab
<1>12. QED
  BY <1>1, <1>2, <1>3, <1>4, <1>5, <1>6, <1>7, <1>8, <1>9, <1>11, ServeOpenOK DEF Next, Reads, Dials

LEMMA CasesInit == Init => CasesInv
<1> SUFFICES ASSUME Init PROVE CasesInv
  OBVIOUS
<1>1. RequestsInv /\ Listed /\ launches = 0 /\ Len(cases) = 0
  BY DEF Init, RequestsInv, Listed
<1>2. \A t \in Tab : OpensIn(sent[t]) = {}
  BY DEF Init, OpensIn
<1>3. Waiting = {}
  BY <1>2 DEF Waiting
<1>4. QED BY <1>1, <1>2, <1>3, FS_EmptySet DEF CasesInv

\* One session that is asked for opens one case at most, over all tabs, however
\* often an effect of a mount runs and whoever waits for the same answer
\* (lib/live/api.ts).
THEOREM OneCasePerLaunchHolds == Spec => []OneCasePerLaunch
<1>1. CasesInv => OneCasePerLaunch
  <2> SUFFICES ASSUME CasesInv PROVE OneCasePerLaunch
    OBVIOUS
  <2>1. Cardinality(Waiting) \in Nat /\ Len(cases) \in Nat /\ launches \in Nat
    BY FS_CardinalityType DEF CasesInv, Listed
  <2>2. QED BY <2>1 DEF CasesInv, OneCasePerLaunch
<1>2. QED BY CasesInit, CasesNext, <1>1, PTL DEF Spec

-----------------------------------------------------------------------------
(* The ranking of the panel: a strict order of the candidates, and where   *)
(* it puts each of them.                                                   *)

Value == Int \cup {Unknown}

LEMMA CompareOrders ==
  ASSUME NEW x \in Value, NEW y \in Value, NEW z \in Value
  PROVE  /\ Compare(x, y) = 0 <=> x = y
         /\ x # y => Compare(x, y) = -1 \/ Compare(y, x) = -1
         /\ ~ (Compare(x, y) = -1 /\ Compare(y, x) = -1)
         /\ Compare(x, y) = -1 /\ Compare(y, z) = -1 => Compare(x, z) = -1
<1>1. Unknown \notin Int
  BY LiveCockpitAssumption
<1>2. ASSUME NEW u \in Value, NEW v \in Value
      PROVE  /\ u = v => Compare(u, v) = 0
             /\ u \in Int /\ v \in Int /\ u < v => Compare(u, v) = -1 /\ Compare(v, u) = 1
             /\ u \in Int /\ v = Unknown => Compare(u, v) = -1 /\ Compare(v, u) = 1
  <2>1. u = v => Compare(u, v) = 0
    BY DEF Compare
  <2>2. ASSUME u \in Int, v = Unknown PROVE Compare(u, v) = -1 /\ Compare(v, u) = 1
    BY <1>1, <2>2 DEF Compare
  <2>3. ASSUME u \in Int, v \in Int, u < v PROVE Compare(u, v) = -1 /\ Compare(v, u) = 1
    <3>1. u # Unknown /\ v # Unknown /\ u # v /\ ~ (v < u)
      BY <1>1, <2>3
    <3>2. QED BY <2>3, <3>1 DEF Compare
  <2>4. QED BY <2>1, <2>2, <2>3
<1>3. ASSUME NEW u \in Value, NEW v \in Value
      PROVE  u = v \/ (u \in Int /\ v \in Int /\ (u < v \/ v < u)) \/ (u \in Int /\ v = Unknown) \/ (u = Unknown /\ v \in Int)
  BY DEF Value
<1> HIDE DEF Compare
<1>4. Compare(x, y) = 0 <=> x = y
  BY <1>2, <1>3
<1>5. x # y => Compare(x, y) = -1 \/ Compare(y, x) = -1
  BY <1>2, <1>3
<1>6. ~ (Compare(x, y) = -1 /\ Compare(y, x) = -1)
  BY <1>2, <1>3
<1>7. ASSUME NEW u \in Value, NEW v \in Value, Compare(u, v) = -1
      PROVE  u \in Int /\ (v = Unknown \/ (v \in Int /\ u < v))
  BY <1>2, <1>3, <1>7
<1>8. ASSUME Compare(x, y) = -1, Compare(y, z) = -1 PROVE Compare(x, z) = -1
  <2>1. x \in Int /\ (z = Unknown \/ (z \in Int /\ x < z))
    BY <1>1, <1>7, <1>8
  <2>2. QED BY <1>2, <2>1
<1>9. QED BY <1>4, <1>5, <1>6, <1>8

\* One list of keys is ahead of another where they first differ.
KeysAhead(k, l) == \E i \in 1..6 : Compare(k[i], l[i]) = -1 /\ \A j \in 1..(i - 1) : Compare(k[j], l[j]) = 0

Keys == [1..6 -> Value]

LEMMA KeysOrder ==
  ASSUME NEW k \in Keys, NEW l \in Keys, NEW m \in Keys
  PROVE  /\ k # l => KeysAhead(k, l) \/ KeysAhead(l, k)
         /\ ~ (KeysAhead(k, l) /\ KeysAhead(l, k))
         /\ ~ KeysAhead(k, k)
         /\ KeysAhead(k, l) /\ KeysAhead(l, m) => KeysAhead(k, m)
<1>1. \A i \in 1..6 : k[i] \in Value /\ l[i] \in Value /\ m[i] \in Value
  BY DEF Keys
<1>2. ASSUME k # l PROVE KeysAhead(k, l) \/ KeysAhead(l, k)
  <2> DEFINE D == {i \in 1..6 : k[i] # l[i]}
  <2>1. D \in SUBSET Nat /\ D # {}
    BY <1>2 DEF Keys
  <2>2. PICK i \in D : \A j \in D : i <= j
    BY <2>1, LeastNatural
  <2>3. i \in 1..6 /\ k[i] # l[i] /\ \A j \in 1..(i - 1) : j \in 1..6 /\ k[j] = l[j]
    BY <2>2
  <2>4. /\ Compare(k[i], l[i]) = -1 \/ Compare(l[i], k[i]) = -1
        /\ \A j \in 1..(i - 1) : Compare(k[j], l[j]) = 0 /\ Compare(l[j], k[j]) = 0
    BY <1>1, <2>3, CompareOrders
  <2>5. QED BY <2>3, <2>4 DEF KeysAhead
<1>3. ASSUME KeysAhead(k, l), KeysAhead(l, k) PROVE FALSE
  <2>1. PICK i \in 1..6 : Compare(k[i], l[i]) = -1 /\ \A j \in 1..(i - 1) : Compare(k[j], l[j]) = 0
    BY <1>3 DEF KeysAhead
  <2>2. PICK h \in 1..6 : Compare(l[h], k[h]) = -1 /\ \A j \in 1..(h - 1) : Compare(l[j], k[j]) = 0
    BY <1>3 DEF KeysAhead
  <2>3. CASE i < h
    <3>1. Compare(l[i], k[i]) = 0
      BY <2>2, <2>3
    <3>2. QED BY <1>1, <2>1, <3>1, CompareOrders
  <2>4. CASE h < i
    <3>1. Compare(k[h], l[h]) = 0
      BY <2>1, <2>4
    <3>2. QED BY <1>1, <2>2, <3>1, CompareOrders
  <2>5. CASE h = i
    BY <1>1, <2>1, <2>2, <2>5, CompareOrders
  <2>6. QED BY <2>3, <2>4, <2>5
<1>4. ~ KeysAhead(k, k)
  <2>1. \A i \in 1..6 : Compare(k[i], k[i]) # -1
    BY <1>1, CompareOrders
  <2>2. QED BY <2>1 DEF KeysAhead
<1>5. ASSUME KeysAhead(k, l), KeysAhead(l, m) PROVE KeysAhead(k, m)
  <2>1. PICK i \in 1..6 : Compare(k[i], l[i]) = -1 /\ \A j \in 1..(i - 1) : Compare(k[j], l[j]) = 0
    BY <1>5 DEF KeysAhead
  <2>2. PICK h \in 1..6 : Compare(l[h], m[h]) = -1 /\ \A j \in 1..(h - 1) : Compare(l[j], m[j]) = 0
    BY <1>5 DEF KeysAhead
  <2>3. PICK g \in 1..6 : g <= i /\ g <= h /\ (g = i \/ g = h)
    OBVIOUS
  <2>4. \A j \in 1..(i - 1) : k[j] = l[j]
    BY <1>1, <2>1, CompareOrders
  <2>5. \A j \in 1..(h - 1) : l[j] = m[j]
    BY <1>1, <2>2, CompareOrders
  <2>6. \A j \in 1..(g - 1) : Compare(k[j], m[j]) = 0
    BY <1>1, <2>3, <2>4, <2>5, CompareOrders
  <2>7. Compare(k[g], m[g]) = -1
    <3>1. CASE i < h
      <4>1. g = i /\ l[g] = m[g]
        BY <2>3, <2>5, <3>1
      <4>2. QED BY <2>1, <4>1
    <3>2. CASE h < i
      <4>1. g = h /\ k[g] = l[g]
        BY <2>3, <2>4, <3>2
      <4>2. QED BY <2>2, <4>1
    <3>3. CASE h = i
      <4>1. g = i /\ g = h
        BY <2>3, <3>3
      <4>2. QED BY <1>1, <2>1, <2>2, <4>1, CompareOrders
    <3>4. QED BY <3>1, <3>2, <3>3
  <2>8. QED BY <2>6, <2>7 DEF KeysAhead
<1>6. QED BY <1>2, <1>3, <1>4, <1>5

\* A strict order of the numbers up to `n`, as the pairs it holds of.
Orders(R, n) ==
  \A i, j, h \in 1..n :
    /\ <<i, i>> \notin R
    /\ i # j => <<i, j>> \in R \/ <<j, i>> \in R
    /\ <<i, j>> \in R /\ <<j, h>> \in R => <<i, h>> \in R

PlaceIn(R, n, i) == 1 + Cardinality({j \in 1..n : <<j, i>> \in R})

\* Of two, the one that comes first has the lower place; so every place is taken.
LEMMA PlacesTaken ==
  ASSUME NEW n \in Nat, NEW R, Orders(R, n)
  PROVE  /\ \A i \in 1..n : PlaceIn(R, n, i) \in 1..n
         /\ \A i, j \in 1..n : <<i, j>> \in R => PlaceIn(R, n, i) < PlaceIn(R, n, j)
         /\ \A k \in 1..n : \E i \in 1..n : PlaceIn(R, n, i) = k
<1> DEFINE Under(i) == {j \in 1..n : <<j, i>> \in R}
<1>0. IsFiniteSet(1..n) /\ Cardinality(1..n) = n
  BY FS_Interval
<1>1. ASSUME NEW i \in 1..n
      PROVE  /\ IsFiniteSet(Under(i)) /\ Cardinality(Under(i)) \in Nat
             /\ IsFiniteSet(Under(i) \cup {i}) /\ Cardinality(Under(i) \cup {i}) = Cardinality(Under(i)) + 1
             /\ Cardinality(Under(i)) + 1 <= n
  <2>1. Under(i) \subseteq 1..n /\ i \notin Under(i) /\ Under(i) \cup {i} \subseteq 1..n
    BY DEF Orders
  <2> HIDE DEF Under
  <2>2. IsFiniteSet(Under(i)) /\ Cardinality(Under(i)) \in Nat
    BY <1>0, <2>1, FS_Subset, FS_CardinalityType
  <2>3. IsFiniteSet(Under(i) \cup {i}) /\ Cardinality(Under(i) \cup {i}) = Cardinality(Under(i)) + 1
    BY <2>1, <2>2, FS_AddElement
  <2>4. Cardinality(Under(i) \cup {i}) <= n
    BY <1>0, <2>1, FS_Subset
  <2>5. QED BY <2>2, <2>3, <2>4
<1>2. ASSUME NEW i \in 1..n
      PROVE  PlaceIn(R, n, i) \in 1..n /\ PlaceIn(R, n, i) = 1 + Cardinality(Under(i))
  <2>1. PlaceIn(R, n, i) = 1 + Cardinality(Under(i))
    BY DEF PlaceIn
  <2>2. Cardinality(Under(i)) \in Nat /\ Cardinality(Under(i)) + 1 <= n
    BY <1>1
  <2> HIDE DEF Under
  <2>3. QED BY <2>1, <2>2
<1>3. ASSUME NEW i \in 1..n, NEW j \in 1..n, <<i, j>> \in R
      PROVE  PlaceIn(R, n, i) < PlaceIn(R, n, j)
  <2>1. Under(i) \cup {i} \subseteq Under(j)
    BY <1>3 DEF Orders
  <2>2. /\ IsFiniteSet(Under(j)) /\ Cardinality(Under(i)) \in Nat /\ Cardinality(Under(j)) \in Nat
        /\ Cardinality(Under(i) \cup {i}) = Cardinality(Under(i)) + 1
    BY <1>1
  <2>3. PlaceIn(R, n, i) = 1 + Cardinality(Under(i)) /\ PlaceIn(R, n, j) = 1 + Cardinality(Under(j))
    BY <1>2
  <2> HIDE DEF Under
  <2>4. Cardinality(Under(i) \cup {i}) <= Cardinality(Under(j))
    BY <2>1, <2>2, FS_Subset
  <2>5. QED BY <2>2, <2>3, <2>4
<1>4. \A k \in 1..n : \E i \in 1..n : PlaceIn(R, n, i) = k
  <2> DEFINE f == [i \in 1..n |-> PlaceIn(R, n, i)]
  <2>1. f \in [1..n -> 1..n]
    BY <1>2
  <2>2. \A i, j \in 1..n : f[i] = f[j] => i = j
    <3> SUFFICES ASSUME NEW i \in 1..n, NEW j \in 1..n, f[i] = f[j], i # j PROVE FALSE
      OBVIOUS
    <3>1. <<i, j>> \in R \/ <<j, i>> \in R
      BY DEF Orders
    <3>2. PlaceIn(R, n, i) < PlaceIn(R, n, j) \/ PlaceIn(R, n, j) < PlaceIn(R, n, i)
      BY <1>3, <3>1
    <3>3. PlaceIn(R, n, i) = PlaceIn(R, n, j)
      OBVIOUS
    <3>4. PlaceIn(R, n, i) \in 1..n /\ PlaceIn(R, n, j) \in 1..n
      BY ONLY <1>2, i \in 1..n, j \in 1..n
    <3> HIDE DEF f
    <3>5. QED BY <3>2, <3>3, <3>4
  <2> HIDE DEF f
  <2>3. f \in Injection(1..n, 1..n)
    BY <2>1, <2>2, Fun_IsInj
  <2>4. f \in Surjection(1..n, 1..n)
    BY <1>0, <2>3, FS_Injection
  <2>5. \A k \in 1..n : \E i \in 1..n : f[i] = k
    BY <2>4, Fun_SurjectionProperties
  <2>6. QED BY <2>5 DEF f
<1>5. QED BY <1>2, <1>3, <1>4

\* What the agent may have named.
NamingOK(candidates) == candidates.order \in Seq(Supplier) /\ candidates.passed \subseteq Supplier

KeysOf(candidates, i) == RankKeys(Records, candidates.passed, candidates.order[i])

LEMMA BeforeOrders ==
  ASSUME NEW c, NamingOK(c)
  PROVE  Orders({p \in (DOMAIN c.order) \X (DOMAIN c.order) : Before(Records, c, p[1], p[2])}, Len(c.order))
<1> DEFINE at == DOMAIN c.order
           R == {p \in at \X at : Before(Records, c, p[1], p[2])}
<1>1. at = 1..Len(c.order) /\ Len(c.order) \in Nat /\ \A i \in at : c.order[i] \in Supplier
  BY DEF NamingOK
<1>2. \A i \in at : KeysOf(c, i) \in Keys
  <2> SUFFICES ASSUME NEW i \in at PROVE KeysOf(c, i) \in Keys
    OBVIOUS
  <2> DEFINE r == Records[c.order[i]]
  <2>1. r \in [preferred : BOOLEAN, incumbent : BOOLEAN, approved : BOOLEAN, ref : Int,
               price : Int \cup {Unknown}, lead : Int \cup {Unknown}]
    BY <1>1, LiveCockpitAssumption
  <2>2. \A b : Flag(b) \in Value
    BY DEF Flag, Value
  <2>3. r.price \in Value /\ r.lead \in Value /\ r.ref \in Value
    BY <2>1 DEF Value
  <2> HIDE DEF r
  <2>4. KeysOf(c, i) = <<Flag(c.order[i] \in c.passed), Flag(r.preferred), Flag(r.incumbent), r.price, r.lead, r.ref>>
    BY DEF KeysOf, RankKeys, r
  <2>5. QED BY <2>2, <2>3, <2>4 DEF Keys
<1>3. \A i, j \in at : Ahead(Records, c.passed, c.order[i], c.order[j]) <=> KeysAhead(KeysOf(c, i), KeysOf(c, j))
  BY DEF Ahead, KeysAhead, KeysOf
<1>4. \A i, j \in at : <<i, j>> \in R <=>
        \/ KeysAhead(KeysOf(c, i), KeysOf(c, j))
        \/ i < j /\ ~ KeysAhead(KeysOf(c, j), KeysOf(c, i))
  BY <1>3 DEF Before
<1>5. \A i, j \in at : <<i, j>> \in R <=>
        KeysAhead(KeysOf(c, i), KeysOf(c, j)) \/ (i < j /\ KeysOf(c, i) = KeysOf(c, j))
  BY <1>2, <1>4, KeysOrder
<1> HIDE DEF R
<1>6. ASSUME NEW i \in at, NEW j \in at, NEW h \in at
      PROVE  /\ <<i, i>> \notin R
             /\ i # j => <<i, j>> \in R \/ <<j, i>> \in R
             /\ <<i, j>> \in R /\ <<j, h>> \in R => <<i, h>> \in R
  <2>1. <<i, i>> \notin R
    BY <1>1, <1>2, <1>5, KeysOrder
  <2>2. ASSUME i # j PROVE <<i, j>> \in R \/ <<j, i>> \in R
    <3>1. i < j \/ j < i
      BY <1>1, <2>2
    <3>2. QED BY <1>2, <1>5, <3>1, KeysOrder
  <2>3. ASSUME <<i, j>> \in R, <<j, h>> \in R PROVE <<i, h>> \in R
    <3>1. \/ KeysAhead(KeysOf(c, i), KeysOf(c, j))
          \/ (i < j /\ KeysOf(c, i) = KeysOf(c, j))
      BY <1>5, <2>3
    <3>2. \/ KeysAhead(KeysOf(c, j), KeysOf(c, h))
          \/ (j < h /\ KeysOf(c, j) = KeysOf(c, h))
      BY <1>5, <2>3
    <3>3. CASE KeysAhead(KeysOf(c, i), KeysOf(c, j)) /\ KeysAhead(KeysOf(c, j), KeysOf(c, h))
      BY <1>2, <1>5, <3>3, KeysOrder
    <3>4. CASE i < j /\ j < h
      BY <1>1, <1>5, <3>1, <3>2, <3>3, <3>4
    <3>5. QED BY <1>5, <3>1, <3>2, <3>3, <3>4
  <2>4. QED BY <2>1, <2>2, <2>3
<1>7. Orders(R, Len(c.order))
  BY <1>1, <1>6 DEF Orders
<1>8. QED BY <1>7 DEF R

\* The panel lists who was named and nobody else, and never a refused candidate
\* above one that passed.
LEMMA RankedByPolicy ==
  ASSUME NEW c, NamingOK(c)
  PROVE  /\ DOMAIN RankCandidates(Records, c) = DOMAIN c.order
         /\ \A k \in DOMAIN c.order : RankCandidates(Records, c)[k] \in ToSet(c.order)
         /\ \A k, l \in DOMAIN c.order :
              k < l /\ RankCandidates(Records, c)[l] \in c.passed => RankCandidates(Records, c)[k] \in c.passed
<1> DEFINE at == DOMAIN c.order
           n == Len(c.order)
           R == {p \in at \X at : Before(Records, c, p[1], p[2])}
           Pick(k) == CHOOSE i \in at : 1 + Cardinality({j \in at : Before(Records, c, j, i)}) = k
<1>1. at = 1..n /\ n \in Nat /\ \A i \in at : c.order[i] \in Supplier
  BY DEF NamingOK
<1>2. Orders(R, n)
  BY BeforeOrders
<1>3. \A i \in at : PlaceIn(R, n, i) = 1 + Cardinality({j \in at : Before(Records, c, j, i)})
  <2>1. ASSUME NEW i \in at PROVE {j \in 1..n : <<j, i>> \in R} = {j \in at : Before(Records, c, j, i)}
    BY <1>1
  <2>2. QED BY <2>1 DEF PlaceIn
<1>4. ASSUME NEW i \in at, NEW j \in at, <<i, j>> \in R, c.order[j] \in c.passed
      PROVE  c.order[i] \in c.passed
  <2> DEFINE k == KeysOf(c, i)
             l == KeysOf(c, j)
  <2>1. Before(Records, c, i, j)
    BY <1>4
  <2>2. /\ k[1] = Flag(c.order[i] \in c.passed) /\ l[1] = Flag(c.order[j] \in c.passed)
        /\ Ahead(Records, c.passed, c.order[i], c.order[j]) <=> KeysAhead(k, l)
        /\ Ahead(Records, c.passed, c.order[j], c.order[i]) <=> KeysAhead(l, k)
    BY DEF KeysOf, RankKeys, Ahead, KeysAhead
  <2> HIDE DEF k, l
  <2> SUFFICES ASSUME c.order[i] \notin c.passed PROVE FALSE
    OBVIOUS
  <2>3. k[1] = 1 /\ l[1] = 0
    BY <1>4, <2>2 DEF Flag
  <2>4. Compare(k[1], l[1]) = 1 /\ Compare(l[1], k[1]) = -1
    <3>1. 0 # Unknown /\ 1 # Unknown
      BY LiveCockpitAssumption
    <3>2. QED BY <2>3, <3>1 DEF Compare
  <2>5. KeysAhead(l, k) /\ ~ KeysAhead(k, l)
    <3>1. \A m \in 1..6 : m # 1 => 1 \in 1..(m - 1)
      OBVIOUS
    <3>2. QED BY <2>4, <3>1 DEF KeysAhead
  <2>6. QED BY <2>1, <2>2, <2>5 DEF Before
<1> HIDE DEF R
<1>5. \A k \in at : Pick(k) \in at /\ PlaceIn(R, n, Pick(k)) = k
  <2>1. \A k \in at : \E i \in at : PlaceIn(R, n, i) = k
    BY <1>1, <1>2, PlacesTaken
  <2>2. \A k \in at : \E i \in at : 1 + Cardinality({j \in at : Before(Records, c, j, i)}) = k
    BY <1>3, <2>1
  <2>3. \A k \in at : Pick(k) \in at /\ 1 + Cardinality({j \in at : Before(Records, c, j, Pick(k))}) = k
    BY <2>2, Zenon
  <2>4. QED BY <1>3, <2>3
<1>6. RankCandidates(Records, c) = [k \in at |-> c.order[Pick(k)]]
  BY Zenon DEF RankCandidates
<1> HIDE DEF Pick
<1>7. ASSUME NEW k \in at, NEW l \in at, k < l PROVE <<Pick(k), Pick(l)>> \in R
  <2>1. Pick(k) \in 1..n /\ Pick(l) \in 1..n /\ PlaceIn(R, n, Pick(k)) = k /\ PlaceIn(R, n, Pick(l)) = l
    BY <1>1, <1>5
  <2>2. Pick(k) # Pick(l) /\ k \in Int /\ l \in Int /\ ~ (l < k)
    BY <1>1, <1>7, <2>1
  <2>3. \/ <<Pick(k), Pick(l)>> \in R
        \/ <<Pick(l), Pick(k)>> \in R
    BY <1>2, <2>1, <2>2 DEF Orders
  <2>4. <<Pick(l), Pick(k)>> \in R => PlaceIn(R, n, Pick(l)) < PlaceIn(R, n, Pick(k))
    BY <1>1, <1>2, <2>1, PlacesTaken
  <2>5. QED BY <2>1, <2>2, <2>3, <2>4
<1>8. \A k \in at : RankCandidates(Records, c)[k] = c.order[Pick(k)]
  BY <1>6
<1>9. QED BY <1>4, <1>5, <1>6, <1>7, <1>8 DEF ToSet

-----------------------------------------------------------------------------
(* What a tab shows, and whom it dials.  A case keeps its first event, the *)
(* one of its session, and lists nobody as called but those who may be;    *)
(* every answer under way is of the case that it was asked for; and a poll *)
(* under way is of the case on the page, for a page that turns to another  *)
(* cancels it.                                                             *)

Allowed == Named.passed \cup {HoldFor}

SessionEvents == {"session", "stub"}

CaseOK(k) ==
  /\ k = [candidates |-> k.candidates, briefed |-> k.briefed, called |-> k.called, log |-> k.log]
  /\ k.candidates \in {NoCandidates, Named}
  /\ IsFiniteSet(DOMAIN k.called) /\ DOMAIN k.called \subseteq Allowed
  /\ \E S : k.log \in Seq(S)
  /\ Len(k.log) >= 1
  /\ \A i \in DOMAIN k.log : k.log[i] \in SessionEvents <=> i = 1

CasesOK(cs) == (\E S : cs \in Seq(S)) /\ \A c \in DOMAIN cs : CaseOK(cs[c])

\* What the API has answered of case `c`.
ViewOK(c, v) ==
  /\ v.case = c
  /\ v.candidates \in {NoCandidates, Named}
  /\ DOMAIN v.plan.screening.steps = {}
  /\ IsFiniteSet(DOMAIN v.plan.outreach.steps)
  /\ DOMAIN v.plan.outreach.steps \subseteq Allowed \cup {Brief}

SeqsOK(cs, c, seqs) == seqs \in Seq(1..Len(cs[c].log))

EventsOK(cs, c, events) ==
  /\ events \in Seq([case : {c}, seq : 1..Len(cs[c].log)])
  /\ \E i \in DOMAIN events : events[i].seq = 1

StateOK(cs, state) ==
  /\ {"status", "case", "events", "view"} \subseteq DOMAIN state
  /\ state.case \in DOMAIN cs \cup {NoCase}
  /\ state.case # NoCase =>
       /\ state.view # Nobody /\ ViewOK(state.case, state.view)
       /\ EventsOK(cs, state.case, state.events)
       /\ state.status = StatusFromSession(cs[state.case].log[1])

ReadOK(cs, r) ==
  /\ {"since", "events", "view"} \subseteq DOMAIN r
  /\ r.case \in DOMAIN cs /\ r.since \in Nat
  /\ Answered(r) => ViewOK(r.case, r.view) /\ SeqsOK(cs, r.case, r.events)

\* A request fits a page that shows case `shown`.
Fits(cs, shown, r) ==
  /\ RequestOK(r)
  /\ r.kind = "open" => r.case \in DOMAIN cs \cup {NoCase}
  /\ r.kind \in {"attach", "tick"} => ReadOK(cs, r)
  /\ r.kind = "attach" => r.since = 0 /\ (Answered(r) => \E i \in DOMAIN r.events : r.events[i] = 1)
  /\ r.kind = "tick" => r.case = shown
  /\ r.kind = "dial" => "supplier" \in DOMAIN r /\ r.supplier \in Allowed /\ r.case \in DOMAIN cs

PageOK(cs, page) ==
  /\ {"url", "open", "state"} \subseteq DOMAIN page
  /\ page.url \in DOMAIN cs \cup {NoCase}
  /\ StateOK(cs, page.state)

ShownInv ==
  /\ RequestsInv
  /\ CasesOK(cases)
  /\ DOMAIN tab = Tab
  /\ \A t \in Tab : PageOK(cases, tab[t]) /\ \A r \in sent[t] : Fits(cases, tab[t].state.case, r)

\* What holds of a case goes on holding when the case grows.
Grows(cs, ds) ==
  /\ DOMAIN cs \subseteq DOMAIN ds
  /\ \A c \in DOMAIN cs : ds[c].log[1] = cs[c].log[1] /\ Len(cs[c].log) <= Len(ds[c].log)

LEMMA CasesAreNumbers ==
  ASSUME NEW cs, CasesOK(cs)
  PROVE  /\ DOMAIN cs = 1..Len(cs) /\ Len(cs) \in Nat /\ NoCase \notin DOMAIN cs
         /\ \A c \in DOMAIN cs : Len(cs[c].log) \in Nat /\ DOMAIN cs[c].log = 1..Len(cs[c].log)
<1>1. DOMAIN cs = 1..Len(cs) /\ Len(cs) \in Nat
  BY DEF CasesOK
<1>2. NoCase \notin DOMAIN cs
  BY <1>1 DEF NoCase
<1>3. ASSUME NEW c \in DOMAIN cs
      PROVE  Len(cs[c].log) \in Nat /\ DOMAIN cs[c].log = 1..Len(cs[c].log)
  <2>1. PICK S : cs[c].log \in Seq(S)
    BY DEF CasesOK, CaseOK
  <2>2. QED BY <2>1
<1>4. QED BY <1>1, <1>2, <1>3

LEMMA StillOK ==
  ASSUME NEW cs, NEW ds, CasesOK(cs), CasesOK(ds), Grows(cs, ds)
  PROVE  /\ \A page : PageOK(cs, page) => PageOK(ds, page)
         /\ \A shown, r : Fits(cs, shown, r) => Fits(ds, shown, r)
<1>1. \A c \in DOMAIN cs : /\ c \in DOMAIN ds /\ c # NoCase /\ ds[c].log[1] = cs[c].log[1]
                           /\ 1..Len(cs[c].log) \subseteq 1..Len(ds[c].log)
  BY CasesAreNumbers DEF Grows
<1>2. \A c \in DOMAIN cs : \A seqs : SeqsOK(cs, c, seqs) => SeqsOK(ds, c, seqs)
  <2> SUFFICES ASSUME NEW c \in DOMAIN cs, NEW seqs, SeqsOK(cs, c, seqs) PROVE SeqsOK(ds, c, seqs)
    OBVIOUS
  <2> DEFINE A == 1..Len(cs[c].log)
             B == 1..Len(ds[c].log)
  <2>1. A \subseteq B /\ seqs \in Seq(A)
    BY <1>1 DEF SeqsOK
  <2> HIDE DEF A, B
  <2>2. seqs \in Seq(B)
    BY <2>1
  <2>3. QED BY <2>2 DEF SeqsOK, B
<1>3. \A c \in DOMAIN cs : \A events : EventsOK(cs, c, events) => EventsOK(ds, c, events)
  <2> SUFFICES ASSUME NEW c \in DOMAIN cs, NEW events, EventsOK(cs, c, events) PROVE EventsOK(ds, c, events)
    OBVIOUS
  <2> DEFINE A == [case : {c}, seq : 1..Len(cs[c].log)]
             B == [case : {c}, seq : 1..Len(ds[c].log)]
  <2>1. A \subseteq B /\ events \in Seq(A)
    BY <1>1 DEF EventsOK
  <2> HIDE DEF A, B
  <2>2. events \in Seq(B)
    BY <2>1
  <2>3. QED BY <2>2 DEF EventsOK, B
<1>4. ASSUME NEW page, PageOK(cs, page) PROVE PageOK(ds, page)
  BY <1>1, <1>3, <1>4 DEF PageOK, StateOK
<1>5. ASSUME NEW shown, NEW r, Fits(cs, shown, r) PROVE Fits(ds, shown, r)
  BY <1>1, <1>2, <1>5 DEF Fits, ReadOK
<1>6. QED BY <1>4, <1>5

\* A step of one tab that leaves the cases alone.
LEMMA TabStepOK ==
  ASSUME ShownInv, NEW t \in Tab, cases' = cases,
         DOMAIN tab' = Tab, \A u \in Tab : u # t => tab'[u] = tab[u], sent' = [sent EXCEPT ![t] = sent'[t]],
         PageOK(cases, tab'[t]), \A r \in sent'[t] : Fits(cases, tab'[t].state.case, r)
  PROVE  ShownInv'
<1>1. RequestsInv'
  BY DEF ShownInv, RequestsInv, Fits
<1>2. \A u \in Tab : u # t => tab'[u] = tab[u] /\ sent'[u] = sent[u]
  BY DEF ShownInv, RequestsInv
<1>3. ASSUME NEW u \in Tab
      PROVE  PageOK(cases, tab'[u]) /\ \A r \in sent'[u] : Fits(cases, tab'[u].state.case, r)
  <2>1. CASE u = t
    BY <2>1
  <2>2. CASE u # t
    BY <1>2, <2>2 DEF ShownInv
  <2>3. QED BY <2>1, <2>2
<1>4. DOMAIN tab' = Tab /\ CasesOK(cases')
  BY DEF ShownInv
<1>5. QED BY <1>1, <1>3, <1>4 DEF ShownInv

\* A new state of a page, and its requests.
LEMMA BecomesOK ==
  ASSUME ShownInv, NEW t \in Tab, cases' = cases, NEW url \in DOMAIN cases \cup {NoCase},
         NEW state, StateOK(cases, state), NEW requests,
         \A r \in requests : Fits(cases, tab[t].state.case, r),
         Becomes(t, url, state, requests)
  PROVE  ShownInv'
<1> DEFINE kept == IF state.case = tab[t].state.case /\ state.status = tab[t].state.status
                   THEN requests ELSE {r \in requests : r.kind # "tick"}
           attach == Attach(url, FALSE, 1)
<1>1. /\ sent' = [sent EXCEPT ![t] = sent'[t]]
      /\ sent'[t] = IF url \in {NoCase, tab[t].url} THEN kept ELSE kept \cup {attach}
      /\ tab' = [tab EXCEPT ![t].url = url, ![t].state = state]
  BY DEF Becomes, ShownInv, RequestsInv
<1>2. DOMAIN tab' = Tab /\ (\A u \in Tab : u # t => tab'[u] = tab[u]) /\ tab'[t].url = url /\ tab'[t].state = state
      /\ {"url", "open", "state"} \subseteq DOMAIN tab'[t]
  BY <1>1 DEF ShownInv, PageOK
<1>3. PageOK(cases, tab'[t])
  BY <1>2 DEF PageOK
<1>4. \A r \in kept : Fits(cases, state.case, r)
  <2>1. CASE state.case = tab[t].state.case
    BY <2>1
  <2>2. CASE state.case # tab[t].state.case
    <3>1. \A r \in kept : r \in requests /\ r.kind # "tick"
      BY <2>2
    <3>2. QED BY <3>1 DEF Fits
  <2>3. QED BY <2>1, <2>2
<1>5. url # NoCase => Fits(cases, state.case, attach)
  BY DEF Fits, Attach, RequestOK, ReadOK, Answered
<1> HIDE DEF kept, attach
<1>6. \A r \in sent'[t] : Fits(cases, tab'[t].state.case, r)
  BY <1>1, <1>2, <1>4, <1>5
<1>7. QED BY <1>1, <1>2, <1>3, <1>6, TabStepOK

\* A step of the API.
LEMMA ApiStepOK ==
  ASSUME ShownInv, CasesOK(cases'), Grows(cases, cases'), tab' = tab, RequestsInv',
         \A u \in Tab : \A r \in sent'[u] : r \in sent[u] \/ Fits(cases', tab[u].state.case, r)
  PROVE  ShownInv'
<1>0. CasesOK(cases)
  BY DEF ShownInv
<1>1. ASSUME NEW u \in Tab
      PROVE  PageOK(cases', tab[u]) /\ \A r \in sent'[u] : Fits(cases', tab[u].state.case, r)
  <2>1. PageOK(cases', tab[u])
    BY <1>0, StillOK DEF ShownInv
  <2>2. \A r \in sent[u] : Fits(cases', tab[u].state.case, r)
    BY <1>0, StillOK DEF ShownInv
  <2>3. QED BY <2>1, <2>2
<1>2. QED BY <1>1 DEF ShownInv

\* What the API answers about a case.
LEMMA ViewFits ==
  ASSUME CasesOK(cases), NEW c \in DOMAIN cases
  PROVE  ViewOK(c, View(c))
<1>1. /\ cases[c].candidates \in {NoCandidates, Named}
      /\ IsFiniteSet(DOMAIN cases[c].called) /\ DOMAIN cases[c].called \subseteq Allowed
  BY DEF CasesOK, CaseOK
<1> DEFINE steps == [r \in DOMAIN cases[c].called \cup {Brief} |->
                       IF r = Brief THEN cases[c].briefed ELSE cases[c].called[r]]
<1>2. View(c).plan.outreach.steps = steps /\ View(c).plan.screening.steps = <<>>
  BY DEF View, ApiPlan, ApiSection
<1>3. View(c).case = c /\ View(c).candidates = cases[c].candidates
  BY DEF View
<1>4. DOMAIN steps = DOMAIN cases[c].called \cup {Brief}
  OBVIOUS
<1> HIDE DEF steps
<1>5. IsFiniteSet(DOMAIN steps)
  BY <1>1, <1>4, FS_AddElement
<1>6. DOMAIN View(c).plan.screening.steps = {}
  BY <1>2
<1>7. QED BY <1>1, <1>2, <1>3, <1>4, <1>5, <1>6 DEF ViewOK

LEMMA AnswerFits ==
  ASSUME CasesOK(cases), NEW c \in DOMAIN cases, NEW since \in Nat
  PROVE  /\ SeqsOK(cases, c, EventsOf(c, since))
         /\ since = 0 => \E i \in DOMAIN EventsOf(c, since) : EventsOf(c, since)[i] = 1
<1> DEFINE n == Len(cases[c].log)
<1>1. n \in Nat /\ n >= 1
  BY CasesAreNumbers DEF CasesOK, CaseOK
<1> HIDE DEF n
<1>2. EventsOf(c, since) = [i \in 1..(n - since) |-> since + i]
  BY DEF EventsOf, n
<1>3. EventsOf(c, since) \in Seq(1..n)
  <2>1. CASE since <= n
    <3> DEFINE m == n - since
               B == 1..n
    <3>1. m \in Nat /\ \A i \in 1..m : since + i \in B
      BY <1>1, <2>1
    <3>2. EventsOf(c, since) = [i \in 1..m |-> since + i]
      BY <1>2
    <3> HIDE DEF m, B
    <3>3. EventsOf(c, since) \in Seq(B)
      BY <3>1, <3>2
    <3>4. QED BY <3>3 DEF B
  <2>2. CASE since > n
    <3>1. 1..(n - since) = {}
      BY <1>1, <2>2
    <3>2. EventsOf(c, since) = <<>>
      BY <1>2, <3>1
    <3>3. QED BY <3>2
  <2>3. QED BY <1>1, <2>1, <2>2
<1>4. ASSUME since = 0 PROVE \E i \in DOMAIN EventsOf(c, since) : EventsOf(c, since)[i] = 1
  <2>1. 1 \in 1..(n - since)
    BY <1>1, <1>4
  <2>2. 1 \in DOMAIN EventsOf(c, since) /\ EventsOf(c, since)[1] = 1
    BY <1>2, <1>4, <2>1
  <2>3. QED BY <2>2
<1>5. QED BY <1>3, <1>4 DEF SeqsOK, n

\* The session of a page is the one its case was opened with.
LEMMA SessionFound ==
  ASSUME CasesOK(cases), NEW c \in DOMAIN cases, NEW events, EventsOK(cases, c, events)
  PROVE  SessionIn(c, events) = cases[c].log[1]
<1> DEFINE at == {i \in DOMAIN events : cases[c].log[events[i].seq] \in {"session", "stub"}}
           last == CHOOSE i \in at : \A j \in at : j <= i
<1>1. DOMAIN events = 1..Len(events) /\ Len(events) \in Nat
      /\ \A i \in DOMAIN events : events[i].seq \in 1..Len(cases[c].log)
  <2> DEFINE B == 1..Len(cases[c].log)
             E == [case : {c}, seq : B]
  <2>1. events \in Seq(E)
    BY DEF EventsOK
  <2>2. \A e \in E : e.seq \in B
    OBVIOUS
  <2> HIDE DEF E
  <2>3. DOMAIN events = 1..Len(events) /\ Len(events) \in Nat /\ \A i \in DOMAIN events : events[i] \in E
    BY <2>1
  <2>4. QED BY <2>2, <2>3
<1>2. \A i \in DOMAIN events : i \in at <=> events[i].seq = 1
  BY <1>1, CasesAreNumbers DEF CasesOK, CaseOK, SessionEvents
<1>3. at # {} /\ at \in SUBSET Nat /\ \A i \in at : i <= Len(events)
  BY <1>1, <1>2 DEF EventsOK
<1>4. \E i \in at : \A j \in at : j <= i
  <2> HIDE DEF at
  <2>1. QED BY <1>1, <1>3, GreatestBounded
<1>5. last \in at
  BY <1>4, Zenon
<1>6. events[last].seq = 1
  BY <1>2, <1>5
<1>7. SessionIn(c, events) = cases[c].log[events[last].seq]
  BY <1>3, Zenon DEF SessionIn
<1>8. QED BY <1>6, <1>7

LEMMA TaggedOK ==
  ASSUME NEW cs, NEW c, NEW seqs, SeqsOK(cs, c, seqs)
  PROVE  Tagged(c, seqs) \in Seq([case : {c}, seq : 1..Len(cs[c].log)])
<1> DEFINE B == 1..Len(cs[c].log)
           E == [case : {c}, seq : B]
           n == Len(seqs)
<1>1. seqs \in Seq(B) /\ n \in Nat /\ DOMAIN seqs = 1..n
  BY DEF SeqsOK
<1> HIDE DEF B
<1>2. \A i \in 1..n : seqs[i] \in B
  BY <1>1
<1>3. Tagged(c, seqs) \in [1..n -> E]
  BY <1>1, <1>2 DEF Tagged
<1> HIDE DEF n, E
<1>4. Tagged(c, seqs) \in Seq(E)
  BY <1>1, <1>3
<1>5. QED BY <1>4 DEF E, B

LEMMA AttachedOK ==
  ASSUME ShownInv, NEW t \in Tab, NEW r \in sent[t], r.kind = "attach", Answered(r)
  PROVE  StateOK(cases, Attached(t, r))
<1> DEFINE c == r.case
           events == Tagged(c, r.events)
           state == Attached(t, r)
<1>1. /\ CasesOK(cases) /\ c \in DOMAIN cases /\ r.view # Nobody /\ ViewOK(c, r.view)
      /\ SeqsOK(cases, c, r.events) /\ \E i \in DOMAIN r.events : r.events[i] = 1
  BY DEF ShownInv, Fits, ReadOK, Answered
<1>2. EventsOK(cases, c, events)
  <2>1. SeqsOK(cases, c, r.events)
    BY <1>1
  <2>2. events \in Seq([case : {c}, seq : 1..Len(cases[c].log)])
    BY <2>1, TaggedOK
  <2>3. DOMAIN events = DOMAIN r.events /\ \A i \in DOMAIN r.events : events[i].seq = r.events[i]
    BY DEF Tagged
  <2> HIDE DEF events
  <2>4. \E i \in DOMAIN events : events[i].seq = 1
    BY <1>1, <2>3
  <2>5. QED BY <2>2, <2>4 DEF EventsOK
<1>3. SessionIn(c, events) = cases[c].log[1]
  BY <1>1, <1>2, SessionFound
<1>4. /\ {"status", "case", "events", "view"} \subseteq DOMAIN state
      /\ state.case = c /\ state.events = events /\ state.view = r.view
      /\ state.status = StatusFromSession(SessionIn(c, events))
  BY DEF Attached
<1> HIDE DEF c, events, state
<1>5. StateOK(cases, state)
  BY <1>1, <1>2, <1>3, <1>4 DEF StateOK
<1>6. QED BY <1>5 DEF state

LEMMA ExtendedOK ==
  ASSUME ShownInv, NEW t \in Tab, NEW r \in sent[t], r.kind = "tick", Answered(r)
  PROVE  StateOK(cases, Extended(t, r))
<1> DEFINE old == tab[t].state
           c == r.case
           events == old.events \o Tagged(c, r.events)
           state == Extended(t, r)
<1>1. /\ CasesOK(cases) /\ c \in DOMAIN cases /\ r.view # Nobody /\ ViewOK(c, r.view)
      /\ SeqsOK(cases, c, r.events) /\ old.case = c /\ StateOK(cases, old)
  BY DEF ShownInv, Fits, ReadOK, Answered, PageOK
<1>2. /\ {"status", "case", "events", "view"} \subseteq DOMAIN old
      /\ EventsOK(cases, c, old.events) /\ old.status = StatusFromSession(cases[c].log[1])
  BY <1>1, CasesAreNumbers DEF StateOK
<1>3. EventsOK(cases, c, events)
  <2> DEFINE E == [case : {c}, seq : 1..Len(cases[c].log)]
             more == Tagged(c, r.events)
  <2>1. old.events \in Seq(E) /\ \E i \in DOMAIN old.events : old.events[i].seq = 1
    BY <1>2 DEF EventsOK
  <2>2. more \in Seq(E)
    BY <1>1, TaggedOK
  <2> HIDE DEF E, more
  <2>3. old.events \o more \in Seq(E)
        /\ \A i \in DOMAIN old.events : i \in DOMAIN (old.events \o more) /\ (old.events \o more)[i] = old.events[i]
    BY <2>1, <2>2
  <2>4. \E i \in DOMAIN (old.events \o more) : (old.events \o more)[i].seq = 1
    BY <2>1, <2>3
  <2>5. QED BY <2>3, <2>4 DEF EventsOK, E, more
<1>4. SessionIn(c, events) = cases[c].log[1]
  BY <1>1, <1>3, SessionFound
<1>5. /\ {"status", "case", "events", "view"} \subseteq DOMAIN state
      /\ state.case = c /\ state.events = events /\ state.view = r.view
      /\ state.status = IF SessionIn(c, events) = Nobody THEN old.status
                        ELSE StatusFromSession(SessionIn(c, events))
  <2> DEFINE session == SessionIn(c, events)
             status == IF session = Nobody THEN old.status ELSE StatusFromSession(session)
  <2>1. state = [old EXCEPT !.events = events, !.view = r.view, !.status = status]
    BY <1>1 DEF Extended
  <2> HIDE DEF status, events, old, state
  <2>2. QED BY <1>1, <1>2, <2>1 DEF status
<1>6. state.status = StatusFromSession(cases[c].log[1])
  BY <1>2, <1>4, <1>5
<1> HIDE DEF c, events, state
<1>7. StateOK(cases, state)
  BY <1>1, <1>3, <1>5, <1>6 DEF StateOK
<1>8. QED BY <1>7 DEF state

LEMMA LastSeenType ==
  ASSUME NEW cs, NEW state, StateOK(cs, state), CasesOK(cs), state.case # NoCase
  PROVE  Since(state.events) \in Nat
<1> DEFINE B == 1..Len(cs[state.case].log)
           E == [case : {state.case}, seq : B]
           events == state.events
<1>1. events \in Seq(E)
  BY DEF StateOK, EventsOK
<1>2. \A e \in E : e.seq \in Nat
  OBVIOUS
<1> HIDE DEF E
<1>3. CASE events = <<>>
  BY <1>3 DEF Since, LastSeen
<1>4. CASE events # <<>>
  <2>1. events[Len(events)] \in E
    BY <1>1, <1>4
  <2>2. Since(events) = events[Len(events)].seq
    BY <1>4 DEF Since, LastSeen, Last
  <2>3. QED BY <1>2, <2>1, <2>2
<1>5. QED BY <1>3, <1>4

\* A tab asks, and the API answers.
LEMMA AskOK ==
  ASSUME ShownInv, NEW t \in Tab, Tick(t) \/ ServeRead(t) \/ Launched(t)
  PROVE  ShownInv'
<1> DEFINE shown == tab[t].state.case
<1>0. RequestsInv /\ CasesOK(cases) /\ \A r \in sent[t] : Fits(cases, shown, r)
  BY DEF ShownInv
<1>1. cases' = cases /\ tab' = tab
  BY DEF Tick, ServeRead, Launched
<1>2. ASSUME NEW requests, sent' = [sent EXCEPT ![t] = requests], \A r \in requests : Fits(cases, shown, r)
      PROVE  ShownInv'
  <2>1. sent' = [sent EXCEPT ![t] = sent'[t]] /\ sent'[t] = requests
    BY <1>0, <1>2 DEF RequestsInv
  <2>2. DOMAIN tab' = Tab /\ (\A u \in Tab : tab'[u] = tab[u]) /\ PageOK(cases, tab'[t]) /\ tab'[t].state.case = shown
    BY <1>1 DEF ShownInv
  <2>3. QED BY <1>1, <1>2, <2>1, <2>2, TabStepOK
<1>3. CASE Tick(t)
  <2> DEFINE q == [kind |-> "tick", case |-> shown, since |-> Since(tab[t].state.events),
                   events |-> Nobody, view |-> Nobody]
  <2>1. shown # NoCase /\ sent' = [sent EXCEPT ![t] = sent[t] \cup {q}]
    BY <1>3 DEF Tick
  <2>2. StateOK(cases, tab[t].state)
    BY DEF ShownInv, PageOK
  <2>3. shown \in DOMAIN cases /\ Since(tab[t].state.events) \in Nat
    BY <1>0, <2>1, <2>2, LastSeenType DEF StateOK
  <2>4. Fits(cases, shown, q)
    BY <2>3 DEF Fits, RequestOK, ReadOK, Answered
  <2> HIDE DEF q
  <2>5. QED BY <1>0, <1>2, <2>1, <2>4
<1>4. CASE ServeRead(t)
  <2>1. PICK r \in sent[t] :
          /\ IsRead(r)
          /\ sent' = [sent EXCEPT ![t] = (sent[t] \ {r}) \cup
                       {[r EXCEPT !.events = EventsOf(r.case, r.since), !.view = View(r.case)]}]
    BY <1>4 DEF ServeRead
  <2> DEFINE events == EventsOf(r.case, r.since)
             view == View(r.case)
             q == [r EXCEPT !.events = events, !.view = view]
  <2>2. RequestOK(r) /\ ReadOK(cases, r) /\ r.kind \in {"attach", "tick"}
        /\ (r.kind = "attach" => r.since = 0) /\ (r.kind = "tick" => r.case = shown)
    BY <1>0, <2>1 DEF Fits, IsRead
  <2>3. ViewOK(r.case, view) /\ SeqsOK(cases, r.case, events)
        /\ (r.since = 0 => \E i \in DOMAIN events : events[i] = 1)
    BY <1>0, <2>2, ViewFits, AnswerFits DEF ReadOK
  <2>4. /\ DOMAIN q = DOMAIN r /\ q.kind = r.kind /\ q.case = r.case /\ q.since = r.since
        /\ q.events = events /\ q.view = view
    <3> HIDE DEF events, view
    <3>1. QED BY <2>2 DEF ReadOK, RequestOK
  <2>5. sent' = [sent EXCEPT ![t] = (sent[t] \ {r}) \cup {q}]
    BY <2>1
  <2> HIDE DEF q, events, view
  <2>6. Fits(cases, shown, q)
    BY <2>2, <2>3, <2>4 DEF Fits, RequestOK, ReadOK, Answered
  <2>7. QED BY <1>0, <1>2, <2>5, <2>6
<1>5. CASE Launched(t)
  <2>1. PICK r \in Opening(t) :
          /\ r.case # NoCase
          /\ sent' = [sent EXCEPT ![t] = (sent[t] \ {r}) \cup {Attach(r.case, TRUE, w) : w \in r.waiters}]
    BY <1>5 DEF Launched
  <2>2. r.case \in DOMAIN cases
    BY <1>0, <2>1 DEF Fits, Opening
  <2>3. \A w : Fits(cases, shown, Attach(r.case, TRUE, w))
    BY <2>2 DEF Fits, Attach, RequestOK, ReadOK, Answered
  <2>4. QED BY <1>0, <1>2, <2>1, <2>3, ZenonT(40)
<1>6. QED BY <1>3, <1>4, <1>5

\* An answer is shown.
LEMMA ShowOK ==
  ASSUME ShownInv, NEW t \in Tab, ShowAttach(t) \/ ShowTick(t)
  PROVE  ShownInv'
<1>0. /\ \A r \in sent[t] : Fits(cases, tab[t].state.case, r)
      /\ tab[t].url \in DOMAIN cases \cup {NoCase}
  BY DEF ShownInv, PageOK
<1>1. cases' = cases
  BY DEF ShowAttach, ShowTick
<1>2. CASE ShowAttach(t)
  <2>1. PICK r \in sent[t] :
          /\ r.kind = "attach" /\ Answered(r)
          /\ Becomes(t, IF r.opened THEN r.case ELSE tab[t].url, Attached(t, r), sent[t] \ {r})
    BY <1>2 DEF ShowAttach
  <2>2. r.case \in DOMAIN cases
    BY <1>0, <2>1 DEF Fits, ReadOK
  <2> DEFINE url == IF r.opened THEN r.case ELSE tab[t].url
  <2>3. url \in DOMAIN cases \cup {NoCase}
    BY <1>0, <2>2
  <2>4. Becomes(t, url, Attached(t, r), sent[t] \ {r})
    BY <2>1
  <2> HIDE DEF url
  <2>5. StateOK(cases, Attached(t, r))
    BY <2>1, AttachedOK
  <2>6. QED BY <1>0, <1>1, <2>3, <2>4, <2>5, BecomesOK
<1>3. CASE ShowTick(t)
  <2>1. PICK r \in sent[t] :
          /\ r.kind = "tick" /\ Answered(r)
          /\ Becomes(t, tab[t].url, Extended(t, r), sent[t] \ {r})
    BY <1>3 DEF ShowTick
  <2>2. StateOK(cases, Extended(t, r))
    BY <2>1, ExtendedOK
  <2>3. QED BY <1>0, <1>1, <2>1, <2>2, BecomesOK
<1>4. QED BY <1>2, <1>3

LEMMA EmptyOK ==
  ASSUME NEW cs
  PROVE  /\ StateOK(cs, Empty) /\ StateOK(cs, Error) /\ StateOK(cs, [Empty EXCEPT !.status = "launching"])
         /\ Error.case = NoCase /\ Empty.case = NoCase
BY DEF StateOK, Empty, Error

\* A session is asked for.
LEMMA LaunchShownOK ==
  ASSUME ShownInv, NEW t \in Tab, NEW waiters, Launch(t, waiters), cases' = cases
  PROVE  ShownInv'
<1> DEFINE requests == (sent[t] \ Opening(t)) \cup OpenCase(t, waiters)
           shown == tab[t].state.case
<1>1. \A r \in sent[t] : Fits(cases, shown, r)
  BY DEF ShownInv
<1>2. ASSUME NEW q \in OpenCase(t, waiters) PROVE Fits(cases, shown, q)
  <2>1. CASE q = Open(waiters)
    BY <2>1 DEF Open, Fits, RequestOK
  <2>2. ASSUME NEW r \in Opening(t), q = [r EXCEPT !.waiters = @ \cup waiters]
        PROVE  Fits(cases, shown, q)
    <3>1. Fits(cases, shown, r) /\ r.kind = "open"
      BY <1>1 DEF Opening
    <3>2. DOMAIN q = DOMAIN r /\ q.kind = "open" /\ q.case = r.case
      BY <2>2, <3>1 DEF Fits, RequestOK
    <3>3. QED BY <3>1, <3>2 DEF Fits, RequestOK
  <2>3. QED BY <2>1, <2>2 DEF OpenCase
<1>3. \A r \in requests : Fits(cases, shown, r)
  BY <1>1, <1>2
<1>4. Becomes(t, tab[t].url, [Empty EXCEPT !.status = "launching"], requests)
  BY DEF Launch
<1> HIDE DEF requests
<1>5. tab[t].url \in DOMAIN cases \cup {NoCase}
  BY DEF ShownInv, PageOK
<1>6. QED BY <1>3, <1>4, <1>5, EmptyOK, BecomesOK

LEMMA LoseShownOK ==
  ASSUME ShownInv, NEW t \in Tab, Lose(t)
  PROVE  ShownInv'
<1>1. PICK r \in sent[t] : Becomes(t, tab[t].url, AfterLoss(t, r), sent[t] \ {r})
  BY DEF Lose
<1>2. StateOK(cases, AfterLoss(t, r))
  BY EmptyOK DEF AfterLoss, ShownInv, PageOK
<1>3. cases' = cases
  BY DEF Lose
<1>4. /\ tab[t].url \in DOMAIN cases \cup {NoCase}
      /\ \A q \in sent[t] : Fits(cases, tab[t].state.case, q)
  BY DEF ShownInv, PageOK
<1>5. QED BY <1>1, <1>2, <1>3, <1>4, BecomesOK

LEMMA LoadShownOK ==
  ASSUME ShownInv, NEW t \in Tab, NEW url \in DOMAIN cases \cup {NoCase}, Load(t, url)
  PROVE  ShownInv'
<1>1. cases' = cases
  BY DEF Load
<1>2. DOMAIN tab' = Tab /\ (\A u \in Tab : u # t => tab'[u] = tab[u]) /\ tab'[t] = Blank(url)
  BY DEF Load, ShownInv
<1>3. /\ sent' = [sent EXCEPT ![t] = sent'[t]]
      /\ \A q \in sent'[t] : url # NoCase /\ \E run : q = Attach(url, FALSE, run)
  BY DEF Load, ShownInv, RequestsInv
<1>4. PageOK(cases, tab'[t])
  BY <1>2, EmptyOK DEF PageOK, Blank
<1>5. \A run : url # NoCase => Fits(cases, tab'[t].state.case, Attach(url, FALSE, run))
  BY DEF Fits, Attach, RequestOK, ReadOK, Answered
<1>6. \A q \in sent'[t] : Fits(cases, tab'[t].state.case, q)
  BY <1>3, <1>5
<1>7. QED BY <1>1, <1>2, <1>3, <1>4, <1>6, TabStepOK

\* Work on a case adds an event, and may change everything else but its session.
Worked(k, work) ==
  /\ work = [candidates |-> work.candidates, briefed |-> work.briefed, called |-> work.called, log |-> k.log]
  /\ work.candidates \in {NoCandidates, Named}
  /\ IsFiniteSet(DOMAIN work.called) /\ DOMAIN work.called \subseteq Allowed

LEMMA LogReplaced ==
  ASSUME NEW a, NEW b, NEW c, NEW l, NEW m, NEW work,
         work = [candidates |-> a, briefed |-> b, called |-> c, log |-> l]
  PROVE  [work EXCEPT !.log = m] = [candidates |-> a, briefed |-> b, called |-> c, log |-> m]
OBVIOUS

LEMMA WorkOK ==
  ASSUME NEW k, CaseOK(k), NEW work, Worked(k, work), NEW e, e \notin SessionEvents,
         NEW q, q = [work EXCEPT !.log = Append(@, e)]
  PROVE  CaseOK(q) /\ q.log[1] = k.log[1] /\ Len(k.log) <= Len(q.log)
<1>1. PICK S : k.log \in Seq(S)
  BY DEF CaseOK
<1> DEFINE old == k.log
           log == Append(k.log, e)
<1>2. old \in Seq(S \cup {e}) /\ Len(old) \in Nat /\ Len(old) >= 1 /\ DOMAIN old = 1..Len(old)
  BY <1>1 DEF CaseOK
<1>3. /\ log \in Seq(S \cup {e}) /\ Len(log) = Len(old) + 1 /\ DOMAIN log = 1..(Len(old) + 1)
      /\ \A i \in 1..Len(old) : log[i] = old[i]
      /\ log[Len(old) + 1] = e
  BY <1>2
<1>4. \A i \in DOMAIN old : old[i] \in SessionEvents <=> i = 1
  BY DEF CaseOK
<1> HIDE DEF old, log
<1>5. \A i \in DOMAIN log : log[i] \in SessionEvents <=> i = 1
  <2> SUFFICES ASSUME NEW i \in DOMAIN log PROVE log[i] \in SessionEvents <=> i = 1
    OBVIOUS
  <2>1. i \in 1..Len(old) \/ i = Len(old) + 1
    BY <1>2, <1>3
  <2>2. QED BY <1>2, <1>3, <1>4, <2>1
<1>6. /\ q = [candidates |-> q.candidates, briefed |-> q.briefed, called |-> q.called, log |-> q.log]
      /\ q.candidates = work.candidates /\ q.called = work.called /\ q.log = log
  <2>1. Append(work.log, e) = log
    <3>1. work.log = k.log
      BY DEF Worked
    <3>2. QED BY <3>1 DEF log, old
  <2>2. q = [work EXCEPT !.log = log]
    BY <2>1, Zenon
  <2>3. work = [candidates |-> work.candidates, briefed |-> work.briefed, called |-> work.called, log |-> old]
    BY DEF Worked, old
  <2> DEFINE a == work.candidates
             b == work.briefed
             c == work.called
  <2>4. work = [candidates |-> a, briefed |-> b, called |-> c, log |-> old]
    BY <2>3
  <2> HIDE DEF a, b, c
  <2>5. [work EXCEPT !.log = log] = [candidates |-> a, briefed |-> b, called |-> c, log |-> log]
    BY <2>4, LogReplaced
  <2>6. q = [candidates |-> a, briefed |-> b, called |-> c, log |-> log]
    BY <2>2, <2>5, Zenon
  <2>7. q.candidates = a /\ q.briefed = b /\ q.called = c /\ q.log = log
    BY <2>6
  <2>8. q = [candidates |-> q.candidates, briefed |-> q.briefed, called |-> q.called, log |-> q.log]
    BY <2>6, <2>7, Zenon
  <2>9. q.candidates = work.candidates /\ q.called = work.called
    BY <2>7 DEF a, c
  <2>10. QED BY <2>7, <2>8, <2>9
<1>7. log[1] = old[1] /\ Len(old) <= Len(log) /\ Len(log) >= 1
  BY <1>2, <1>3
<1>8. QED BY <1>3, <1>5, <1>6, <1>7, SMTT(40) DEF CaseOK, Worked, old

LEMMA OneCaseGrows ==
  ASSUME NEW cs, CasesOK(cs), NEW c \in DOMAIN cs, NEW q, CaseOK(q),
         q.log[1] = cs[c].log[1], Len(cs[c].log) <= Len(q.log),
         NEW ds, ds = [cs EXCEPT ![c] = q]
  PROVE  CasesOK(ds) /\ Grows(cs, ds)
<1>1. PICK S : cs \in Seq(S)
  BY DEF CasesOK
<1>2. DOMAIN ds = DOMAIN cs /\ \A d \in DOMAIN cs : ds[d] = IF d = c THEN q ELSE cs[d]
  BY <1>1
<1>3. ds \in Seq(S \cup {q})
  BY <1>1
<1>4. \A d \in DOMAIN ds : CaseOK(ds[d])
  BY <1>2 DEF CasesOK
<1>5. \A d \in DOMAIN cs : Len(cs[d].log) <= Len(cs[d].log)
  BY CasesAreNumbers
<1>6. QED BY <1>2, <1>3, <1>4, <1>5 DEF CasesOK, Grows

LEMMA AgentShownOK ==
  ASSUME ShownInv, AgentWorks
  PROVE  ShownInv'
<1>0. CasesOK(cases) /\ RequestsInv
  BY DEF ShownInv
<1>1. PICK c \in DOMAIN cases :
        \E work \in
          {[cases[c] EXCEPT !.candidates = Named]} \cup
          {[cases[c] EXCEPT !.briefed = "done"]} \cup
          {[cases[c] EXCEPT !.called[s] = "done"] : s \in DOMAIN cases[c].called} :
          cases' = [cases EXCEPT ![c] = [work EXCEPT !.log = Append(@, "other")]]
  BY DEF AgentWorks, Opened
<1>2. PICK work :
        /\ work \in
             {[cases[c] EXCEPT !.candidates = Named]} \cup
             {[cases[c] EXCEPT !.briefed = "done"]} \cup
             {[cases[c] EXCEPT !.called[s] = "done"] : s \in DOMAIN cases[c].called}
        /\ cases' = [cases EXCEPT ![c] = [work EXCEPT !.log = Append(@, "other")]]
  BY <1>1
<1> DEFINE k == cases[c]
           q == [work EXCEPT !.log = Append(@, "other")]
<1>3. CaseOK(k)
  BY <1>0 DEF CasesOK
<1>4. /\ k = [candidates |-> k.candidates, briefed |-> k.briefed, called |-> k.called, log |-> k.log]
      /\ k.candidates \in {NoCandidates, Named}
      /\ IsFiniteSet(DOMAIN k.called) /\ DOMAIN k.called \subseteq Allowed
  BY <1>3 DEF CaseOK
<1>5. Worked(k, work)
  <2> HIDE DEF k
  <2>1. CASE work = [k EXCEPT !.candidates = Named]
    <3>1. work = [candidates |-> Named, briefed |-> k.briefed, called |-> k.called, log |-> k.log]
      BY <1>4, <2>1
    <3>2. QED BY <1>4, <3>1 DEF Worked
  <2>2. CASE work = [k EXCEPT !.briefed = "done"]
    <3>1. work = [candidates |-> k.candidates, briefed |-> "done", called |-> k.called, log |-> k.log]
      BY <1>4, <2>2
    <3>2. QED BY <1>4, <3>1 DEF Worked
  <2>3. ASSUME NEW s \in DOMAIN k.called, work = [k EXCEPT !.called[s] = "done"]
        PROVE  Worked(k, work)
    <3> DEFINE called == [k.called EXCEPT ![s] = "done"]
    <3>1. DOMAIN called = DOMAIN k.called /\ work = [k EXCEPT !.called = called]
      BY <2>3
    <3> HIDE DEF called
    <3>2. work = [candidates |-> k.candidates, briefed |-> k.briefed, called |-> called, log |-> k.log]
      BY <1>4, <3>1
    <3>3. QED BY <1>4, <3>1, <3>2 DEF Worked
  <2>4. QED BY <1>2, <2>1, <2>2, <2>3 DEF k
<1>6. cases' = [cases EXCEPT ![c] = q]
  BY <1>2
<1>7. "other" \notin SessionEvents
  BY DEF SessionEvents
<1>8. CaseOK(q) /\ q.log[1] = k.log[1] /\ Len(k.log) <= Len(q.log)
  <2> HIDE DEF k
  <2>1. QED BY <1>3, <1>5, <1>7, WorkOK
<1> HIDE DEF q
<1>9. CasesOK(cases') /\ Grows(cases, cases')
  BY <1>0, <1>6, <1>8, OneCaseGrows
<1>10. sent' = sent /\ tab' = tab
  BY DEF AgentWorks
<1>11. QED BY <1>0, <1>9, <1>10, ApiStepOK DEF RequestsInv

LEMMA SeededOK ==
  ASSUME NEW session \in SessionEvents
  PROVE  CaseOK(SeededCase(session))
<1> DEFINE k == SeededCase(session)
<1>1. /\ k = [candidates |-> k.candidates, briefed |-> k.briefed, called |-> k.called, log |-> k.log]
      /\ k.candidates = NoCandidates /\ k.called = <<>> /\ k.log = <<session>>
  BY DEF SeededCase
<1>2. DOMAIN k.called = {}
  BY <1>1
<1>3. /\ k.log \in Seq({session}) /\ Len(k.log) >= 1
      /\ \A i \in DOMAIN k.log : k.log[i] \in SessionEvents <=> i = 1
  BY <1>1
<1> HIDE DEF k
<1>4. CaseOK(k)
  BY <1>1, <1>2, <1>3, FS_EmptySet DEF CaseOK
<1>5. QED BY <1>4 DEF k

LEMMA ServeOpenShownOK ==
  ASSUME ShownInv, NEW t \in Tab, ServeOpen(t)
  PROVE  ShownInv'
<1>0. CasesOK(cases) /\ RequestsInv /\ \A q \in sent[t] : Fits(cases, tab[t].state.case, q)
  BY DEF ShownInv
<1>1. PICK r \in Opening(t), session \in SessionEvents :
        /\ cases' = Append(cases, SeededCase(session))
        /\ sent' = [sent EXCEPT ![t] = (@ \ {r}) \cup {[r EXCEPT !.case = Len(cases) + 1]}]
  BY DEF ServeOpen, SessionEvents
<1> DEFINE q == [r EXCEPT !.case = Len(cases) + 1]
           k == SeededCase(session)
<1>2. PICK S : cases \in Seq(S)
  BY <1>0 DEF CasesOK
<1>3. CaseOK(k)
  BY SeededOK
<1> HIDE DEF k
<1>4. /\ cases' \in Seq(S \cup {k}) /\ DOMAIN cases' = DOMAIN cases \cup {Len(cases) + 1}
      /\ Len(cases) + 1 \notin DOMAIN cases
      /\ cases'[Len(cases) + 1] = k /\ \A c \in DOMAIN cases : cases'[c] = cases[c]
  <2>1. cases \in Seq(S \cup {k}) /\ cases' = Append(cases, k)
    BY <1>1, <1>2 DEF k
  <2>2. /\ cases' \in Seq(S \cup {k}) /\ Len(cases') = Len(cases) + 1 /\ Len(cases) \in Nat
        /\ cases'[Len(cases) + 1] = k /\ \A c \in 1..Len(cases) : cases'[c] = cases[c]
    BY <2>1
  <2>3. DOMAIN cases' = 1..Len(cases') /\ DOMAIN cases = 1..Len(cases)
    BY <2>1, <2>2
  <2>4. QED BY <2>2, <2>3
<1>5. CasesOK(cases') /\ Grows(cases, cases')
  <2>1. \A c \in DOMAIN cases : Len(cases[c].log) <= Len(cases[c].log)
    BY <1>0, CasesAreNumbers
  <2>2. QED BY <1>0, <1>3, <1>4, <2>1 DEF CasesOK, Grows
<1>6. r \in sent[t] /\ r.kind = "open" /\ RequestOK(r)
  BY <1>0 DEF Opening, RequestsInv
<1>7. DOMAIN q = DOMAIN r /\ q.kind = "open" /\ q.case = Len(cases) + 1
  BY <1>6 DEF RequestOK
<1>8. sent'[t] = (sent[t] \ {r}) \cup {q} /\ \A u \in Tab : u # t => sent'[u] = sent[u]
  BY <1>0, <1>1 DEF RequestsInv
<1> HIDE DEF q
<1>9. Fits(cases', tab[t].state.case, q)
  BY <1>4, <1>6, <1>7 DEF Fits, RequestOK
<1>10. RequestsInv'
  <2>1. DOMAIN sent' = Tab
    BY <1>0, <1>1 DEF RequestsInv
  <2>2. QED BY <1>0, <1>8, <1>9, <2>1 DEF RequestsInv, Fits
<1>11. tab' = tab
  BY DEF ServeOpen
<1>12. QED BY <1>5, <1>8, <1>9, <1>10, <1>11, ApiStepOK

\* Whom a page may want to dial, given what the API answered it.
LEMMA PickedIsAllowed ==
  ASSUME NEW c, NEW v, ViewOK(c, v),
         NEW s \in PickLiveCallSupplier(ResolveChecklist(v.plan, v.candidates), v.candidates, HoldFor)
  PROVE  s \in Allowed
<1> DEFINE candidates == v.candidates
           plan == ResolveChecklist(v.plan, v.candidates)
<1>1. candidates.order \in Seq(Supplier) /\ candidates.passed \subseteq Named.passed
  <2>1. Named.order \in Seq(Supplier) /\ {"order", "passed"} \subseteq DOMAIN Named
    BY LiveCockpitAssumption DEF Candidates
  <2>2. NoCandidates.order = <<>> /\ NoCandidates.passed = {}
    BY <2>1 DEF NoCandidates
  <2>3. candidates \in {NoCandidates, Named}
    BY DEF ViewOK
  <2>4. CASE candidates = Named
    BY <2>1, <2>4
  <2>5. CASE candidates = NoCandidates
    <3>1. candidates.order = <<>> /\ candidates.passed = {}
      BY <2>2, <2>5
    <3> HIDE DEF candidates
    <3>2. QED BY <3>1
  <2>6. QED BY <2>3, <2>4, <2>5
<1>2. CASE HoldFor # Nobody
  BY <1>2 DEF PickLiveCallSupplier, Allowed
<1>3. CASE HoldFor = Nobody
  <2> DEFINE first == SelectInSeq(candidates.order, LAMBDA q : q \in candidates.passed)
             I == {i \in 1..Len(candidates.order) : candidates.order[i] \in candidates.passed}
  <2>1. CASE first # 0
    <3>1. s = candidates.order[first]
      BY <1>3, <2>1 DEF PickLiveCallSupplier
    <3>2. I # {} /\ first = Min(I)
      BY <2>1 DEF SelectInSeq
    <3>3. Min(I) \in I
      <4>1. I \in SUBSET Nat
        OBVIOUS
      <4> HIDE DEF I
      <4>2. \E x \in I : \A y \in I : x <= y
        BY <3>2, <4>1, LeastNatural
      <4>3. QED BY <4>2, Zenon DEF Min
    <3>4. QED BY <1>1, <3>1, <3>2, <3>3 DEF Allowed
  <2>2. CASE first = 0
    <3>1. s \in Dialling(plan)
      BY <1>3, <2>2 DEF PickLiveCallSupplier
    <3>2. s \in Supplier /\ s \in DOMAIN plan.outreach.steps
      BY <3>1 DEF Dialling
    <3>3. DOMAIN plan.outreach.steps = DOMAIN v.plan.outreach.steps \cup DOMAIN CallingRow(candidates)
      BY DEF ResolveChecklist, MergeSupplierRows
    <3>4. DOMAIN CallingRow(candidates) \subseteq candidates.passed
      BY DEF CallingRow
    <3>5. s # Brief
      BY <3>2, LiveChecklistAssumption
    <3>6. QED BY <1>1, <3>2, <3>3, <3>4, <3>5 DEF ViewOK, Allowed
  <2>3. QED BY <2>1, <2>2
<1>4. QED BY <1>2, <1>3

LEMMA PlaceShownOK ==
  ASSUME ShownInv, NEW t \in Tab, PlaceLiveCall(t)
  PROVE  ShownInv'
<1> DEFINE shown == tab[t].state.case
<1>1. PICK s \in WantsToDial(t) :
        sent' = [sent EXCEPT ![t] = @ \cup
          {[kind |-> "dial", case |-> shown, supplier |-> s, run |-> dials[t][shown], answer |-> "none"]}]
  BY DEF PlaceLiveCall
<1> DEFINE q == [kind |-> "dial", case |-> shown, supplier |-> s, run |-> dials[t][shown], answer |-> "none"]
<1>2. /\ shown # NoCase
      /\ s \in PickLiveCallSupplier(Shown(t), tab[t].state.view.candidates, HoldFor)
  BY <1>1 DEF WantsToDial
<1>3. shown \in DOMAIN cases /\ ViewOK(shown, tab[t].state.view)
  BY <1>2 DEF ShownInv, PageOK, StateOK
<1>4. s \in Allowed
  BY <1>2, <1>3, PickedIsAllowed DEF Shown
<1>5. Fits(cases, shown, q)
  BY <1>3, <1>4 DEF Fits, RequestOK
<1>6. cases' = cases /\ tab' = tab
  BY DEF PlaceLiveCall
<1> HIDE DEF q
<1>7. sent' = [sent EXCEPT ![t] = sent'[t]] /\ sent'[t] = sent[t] \cup {q}
  BY <1>1 DEF q, ShownInv, RequestsInv
<1>8. \A r \in sent'[t] : Fits(cases, shown, r)
  BY <1>5, <1>7 DEF ShownInv
<1>9. QED BY <1>6, <1>7, <1>8, TabStepOK DEF ShownInv

LEMMA DialedShownOK ==
  ASSUME ShownInv, NEW t \in Tab, Dialed(t)
  PROVE  ShownInv'
<1>1. PICK r \in sent[t] : sent' = [sent EXCEPT ![t] = @ \ {r}]
  BY DEF Dialed
<1>2. cases' = cases /\ tab' = tab
  BY DEF Dialed
<1>3. sent' = [sent EXCEPT ![t] = sent'[t]] /\ sent'[t] = sent[t] \ {r}
  BY <1>1 DEF ShownInv, RequestsInv
<1>4. \A q \in sent'[t] : Fits(cases, tab[t].state.case, q)
  BY <1>3 DEF ShownInv
<1>5. QED BY <1>2, <1>3, <1>4, TabStepOK DEF ShownInv

LEMMA ServeDialShownOK ==
  ASSUME ShownInv, NEW t \in Tab, ServeDial(t)
  PROVE  ShownInv'
<1>0. CasesOK(cases) /\ RequestsInv /\ \A r \in sent[t] : Fits(cases, tab[t].state.case, r)
  BY DEF ShownInv
<1>1. PICK r \in sent[t] :
        /\ r.kind = "dial"
        /\ sent' = [sent EXCEPT ![t] = (@ \ {r}) \cup {[r EXCEPT !.answer = "some"]}]
        /\ \/ cases' = cases
           \/ \E outcome \in {"active", "failed"} :
                cases' = [cases EXCEPT ![r.case].log = Append(@, "live"),
                                       ![r.case].called = Marked(@, r.supplier, outcome)]
  BY DEF ServeDial
<1> DEFINE q == [r EXCEPT !.answer = "some"]
           c == r.case
           k == cases[c]
<1>2. /\ RequestOK(r) /\ r.kind = "dial" /\ "supplier" \in DOMAIN r /\ r.supplier \in Allowed /\ c \in DOMAIN cases
  BY <1>0, <1>1 DEF Fits
<1>3. DOMAIN q = DOMAIN r /\ q.kind = "dial" /\ q.case = c /\ q.supplier = r.supplier
  BY <1>1, <1>2 DEF RequestOK
<1>4. CaseOK(k)
  BY <1>0, <1>2 DEF CasesOK
<1>5. CasesOK(cases') /\ Grows(cases, cases')
  <2>1. CASE cases' = cases
    BY <1>0, <2>1, CasesAreNumbers DEF Grows
  <2>2. ASSUME NEW outcome,
               cases' = [cases EXCEPT ![r.case].log = Append(@, "live"),
                                      ![r.case].called = Marked(@, r.supplier, outcome)]
        PROVE  CasesOK(cases') /\ Grows(cases, cases')
    <3> DEFINE called == Marked(k.called, r.supplier, outcome)
               log == Append(k.log, "live")
               work == [k EXCEPT !.called = called]
               new == [work EXCEPT !.log = Append(@, "live")]
    <3>1. DOMAIN called = DOMAIN k.called \cup {r.supplier}
      BY DEF Marked
    <3> HIDE DEF called
    <3>2. IsFiniteSet(DOMAIN called) /\ DOMAIN called \subseteq Allowed
      <4> HIDE DEF k
      <4>1. IsFiniteSet(DOMAIN k.called) /\ DOMAIN k.called \subseteq Allowed
        BY <1>4 DEF CaseOK
      <4>2. QED BY <1>2, <3>1, <4>1, FS_AddElement
    <3>3. /\ k = [candidates |-> k.candidates, briefed |-> k.briefed, called |-> k.called, log |-> k.log]
          /\ k.candidates \in {NoCandidates, Named}
      BY <1>4 DEF CaseOK
    <3>4. Worked(k, work) /\ work.log = k.log
      <4> HIDE DEF k
      <4>1. work = [candidates |-> k.candidates, briefed |-> k.briefed, called |-> called, log |-> k.log]
        BY <3>3
      <4>2. QED BY <3>2, <3>3, <4>1 DEF Worked
    <3>5. new = [k EXCEPT !.log = log, !.called = called]
      <4> HIDE DEF k, log
      <4>1. [[k EXCEPT !.called = called] EXCEPT !.log = log] = [k EXCEPT !.log = log, !.called = called]
        BY <3>3
      <4>2. new = [[k EXCEPT !.called = called] EXCEPT !.log = log]
        BY <3>4, Zenon DEF log
      <4>3. QED BY <4>1, <4>2, Zenon
    <3>6. cases' = [cases EXCEPT ![c] = new]
      <4>1. cases' = [cases EXCEPT ![c] = [k EXCEPT !.log = log, !.called = called]]
        BY <2>2 DEF called
      <4> HIDE DEF new
      <4>2. QED BY <3>5, <4>1
    <3>7. CaseOK(new) /\ new.log[1] = k.log[1] /\ Len(k.log) <= Len(new.log)
      <4>1. "live" \notin SessionEvents
        BY DEF SessionEvents
      <4> HIDE DEF k, work
      <4>2. QED BY <1>4, <3>4, <4>1, WorkOK
    <3> HIDE DEF new
    <3>8. QED BY <1>0, <1>2, <3>6, <3>7, OneCaseGrows
  <2>3. QED BY <1>1, <2>1, <2>2
<1>6. sent'[t] = (sent[t] \ {r}) \cup {q} /\ \A u \in Tab : u # t => sent'[u] = sent[u]
  BY <1>0, <1>1 DEF RequestsInv
<1>7. DOMAIN sent' = Tab
  BY <1>0, <1>1 DEF RequestsInv
<1> HIDE DEF q, k
<1>8. Fits(cases', tab[t].state.case, q)
  <2>1. c \in DOMAIN cases'
    BY <1>2, <1>5 DEF Grows
  <2> HIDE DEF c
  <2>2. QED BY <1>2, <1>3, <2>1 DEF Fits, RequestOK
<1>9. RequestsInv'
  BY <1>0, <1>6, <1>7, <1>8 DEF RequestsInv, Fits
<1>10. tab' = tab
  BY DEF ServeDial
<1>11. QED BY <1>5, <1>6, <1>8, <1>9, <1>10, ApiStepOK

LEMMA ShownNext == ShownInv /\ [Next]_vars => ShownInv'
<1> SUFFICES ASSUME ShownInv, [Next]_vars PROVE ShownInv'
  OBVIOUS
<1>1. CASE UNCHANGED vars
  BY <1>1 DEF vars, ShownInv, RequestsInv
<1>2. ASSUME NEW t \in Tab, AutoLaunch(t) \/ StartNewSession(t)
      PROVE  ShownInv'
  <2>1. PICK waiters : Launch(t, waiters)
    BY <1>2 DEF AutoLaunch, StartNewSession
  <2>2. cases' = cases
    BY <1>2 DEF AutoLaunch, StartNewSession
  <2>3. QED BY <2>1, <2>2, LaunchShownOK
<1>3. ASSUME NEW t \in Tab, Reload(t) \/ OpenTab(t)
      PROVE  ShownInv'
  <2>1. PICK url \in DOMAIN cases \cup {NoCase} : Load(t, url)
    BY <1>3 DEF Reload, OpenTab, Opened, ShownInv, PageOK
  <2>2. QED BY <2>1, LoadShownOK
<1>4. ASSUME NEW t \in Tab, Reads(t) \/ Tick(t)
      PROVE  ShownInv'
  BY <1>4, ServeOpenShownOK, AskOK, ShowOK DEF Reads
<1>5. ASSUME NEW t \in Tab, Dials(t)
      PROVE  ShownInv'
  BY <1>5, PlaceShownOK, ServeDialShownOK, DialedShownOK DEF Dials
<1>6. QED
  BY <1>1, <1>2, <1>3, <1>4, <1>5, AgentShownOK, LoseShownOK DEF Next

LEMMA ShownInit == Init => ShownInv
<1> SUFFICES ASSUME Init PROVE ShownInv
  OBVIOUS
<1>1. RequestsInv /\ \A t \in Tab : sent[t] = {}
  BY DEF Init, RequestsInv
<1>2. cases \in Seq({}) /\ DOMAIN cases = {}
  BY DEF Init
<1>3. CasesOK(cases)
  BY <1>2 DEF CasesOK
<1>4. \A t \in Tab : tab[t] = [Blank(NoCase) EXCEPT !.open = t = FirstTab]
  BY DEF Init
<1>5. ASSUME NEW t \in Tab PROVE PageOK(cases, tab[t])
  <2>1. /\ {"url", "open", "state"} \subseteq DOMAIN tab[t]
        /\ tab[t].url = NoCase /\ tab[t].state = Empty
    BY <1>4 DEF Blank
  <2>2. QED BY <2>1, EmptyOK DEF PageOK
<1>6. DOMAIN tab = Tab
  BY DEF Init
<1>7. QED BY <1>1, <1>3, <1>5, <1>6 DEF ShownInv

\* Nobody the screening refused is dialled, however late a page reads and however
\* old the view is that it chose from, but for the supplier that the build was told
\* to hold for (pickLiveCallSupplier, lib/live/checklist.ts).
THEOREM RefusedStayUncalled == Spec => []NobodyRefusedIsDialled
<1>1. ShownInv => NobodyRefusedIsDialled
  BY DEF ShownInv, CasesOK, CaseOK, Opened, Allowed, NobodyRefusedIsDialled
<1>2. QED BY ShownInit, ShownNext, <1>1, PTL DEF Spec

\* The checklist that is laid over a view has finitely many lines, so that the bar
\* counts some of all.
LEMMA BarCounts ==
  ASSUME NEW c, NEW v, ViewOK(c, v)
  PROVE  LET bar == PlanChecklist(ResolveChecklist(v.plan, v.candidates)) IN bar.done <= bar.total
<1> DEFINE plan == ResolveChecklist(v.plan, v.candidates)
           named == NamedIn(v.candidates)
           rows == DOMAIN v.plan.outreach.steps \cup named
           done == {l \in Lines(plan) : Finished(plan[l[1]].steps[l[2]])}
<1>1. v.candidates.order \in Seq(Supplier)
  <2>1. Named.order \in Seq(Supplier) /\ {"order", "passed"} \subseteq DOMAIN Named
    BY LiveCockpitAssumption DEF Candidates
  <2>2. NoCandidates.order = <<>>
    BY <2>1 DEF NoCandidates
  <2>3. CASE v.candidates = Named
    BY <2>1, <2>3
  <2>4. CASE v.candidates = NoCandidates
    <3> DEFINE order == v.candidates.order
    <3>1. order = <<>>
      BY <2>2, <2>4
    <3> HIDE DEF order
    <3>2. order \in Seq(Supplier)
      BY <3>1
    <3>3. QED BY <3>2 DEF order
  <2>5. QED BY <2>3, <2>4 DEF ViewOK
<1>2. IsFiniteSet(named)
  <2> DEFINE n == Len(v.candidates.order)
             f == [i \in 1..n |-> v.candidates.order[i]]
  <2>1. n \in Nat /\ DOMAIN v.candidates.order = 1..n
    BY <1>1
  <2>2. named = {f[i] : i \in 1..n}
    BY <2>1 DEF NamedIn, ToSet
  <2>3. f \in Surjection(1..n, named)
    BY <2>2 DEF Surjection
  <2>4. ExistsSurjection(1..n, named)
    BY <2>3 DEF ExistsSurjection
  <2>5. QED BY <2>1, <2>4, FS_NatSurjection
<1>3. IsFiniteSet(rows)
  BY <1>2, FS_Union DEF ViewOK
<1>4. /\ DOMAIN plan = Groups
      /\ DOMAIN plan.screening.steps = DOMAIN v.plan.screening.steps \cup named
      /\ DOMAIN plan.outreach.steps \subseteq rows
  BY DEF ResolveChecklist, MergeSupplierRows, ScreeningRow, CallingRow, Groups
<1> HIDE DEF plan, rows, named
<1>5. \A g \in Groups : DOMAIN plan[g].steps \subseteq rows
  BY <1>4 DEF Groups, ViewOK, rows
<1>6. Lines(plan) \subseteq Groups \X rows
  BY <1>5 DEF Lines
<1>7. IsFiniteSet(Groups)
  <2>1. Groups = {"screening"} \cup {"outreach"}
    BY DEF Groups
  <2>2. IsFiniteSet({"screening"})
    BY FS_Singleton
  <2>3. QED BY <2>1, <2>2, FS_AddElement
<1>8. IsFiniteSet(Lines(plan))
  BY <1>3, <1>6, <1>7, FS_Product, FS_Subset
<1>9. Cardinality(done) <= Cardinality(Lines(plan))
  BY <1>8, FS_Subset
<1>10. QED BY <1>9 DEF PlanChecklist, plan

\* What a tab shows at once is of one case, whichever answers come late: its view,
\* its events, and whether its session was stubbed; and its panel never lists a
\* refused candidate above one that passed (hooks/use-devin-case.ts,
\* lib/live/rank.ts).
THEOREM OneCaseOnScreen == Spec => []OneCaseShown
<1>1. ASSUME ShownInv, NEW t \in Tab, NEW s \in Supplier, tab[t].state.case # NoCase
      PROVE  LET state  == tab[t].state
                 screen == ChatScreen(t, s)
                 case   == screen.header.case
             IN  /\ state.view.case = case
                 /\ \A i \in DOMAIN state.events : state.events[i].case = case
                 /\ (screen.banner = "stubbed") = (cases[case].log[1] = "stub")
                 /\ screen.checklist.done <= screen.checklist.total
                 /\ \A i, j \in DOMAIN screen.panel.rows :
                      screen.panel.rows[j].passed /\ ~screen.panel.rows[i].passed => j < i
                 /\ s \notin NamedIn(state.view.candidates) => screen.panel.dialog = {}
  <2> DEFINE state == tab[t].state
             case == state.case
             candidates == state.view.candidates
             screen == ChatScreen(t, s)
             ranked == RankCandidates(Records, candidates)
  <2>1. /\ case \in DOMAIN cases /\ state.view # Nobody /\ ViewOK(case, state.view)
        /\ EventsOK(cases, case, state.events)
        /\ state.status = StatusFromSession(cases[case].log[1])
    BY <1>1 DEF ShownInv, PageOK, StateOK
  <2>2. /\ screen.header.case = case
        /\ screen.banner = SessionBanner(state.status)
        /\ screen.checklist = PlanChecklist(Shown(t))
        /\ screen.panel = LiveCandidatePanel(Records, candidates, s)
    BY <2>1 DEF ChatScreen, Header
  <2>3. \A i \in DOMAIN state.events : state.events[i].case = case
    <3> DEFINE E == [case : {case}, seq : 1..Len(cases[case].log)]
    <3>1. state.events \in Seq(E) /\ \A e \in E : e.case = case
      BY <2>1 DEF EventsOK
    <3> HIDE DEF E
    <3>2. QED BY <3>1
  <2>4. (screen.banner = "stubbed") = (cases[case].log[1] = "stub")
    BY <2>1, <2>2 DEF SessionBanner, StatusFromSession
  <2>5. screen.checklist.done <= screen.checklist.total
    BY <2>1, <2>2, BarCounts DEF Shown
  <2>6. NamingOK(candidates)
    <3>1. Named.order \in Seq(Supplier) /\ Named.passed \subseteq Supplier /\ {"order", "passed"} \subseteq DOMAIN Named
      BY LiveCockpitAssumption DEF Candidates
    <3>2. NoCandidates.order = <<>> /\ NoCandidates.passed = {}
      BY <3>1 DEF NoCandidates
    <3>3. NamingOK(Named)
      BY <3>1 DEF NamingOK
    <3>4. NamingOK(NoCandidates)
      <4> DEFINE order == NoCandidates.order
      <4> HIDE DEF order
      <4>1. order = <<>> => order \in Seq(Supplier)
        OBVIOUS
      <4>2. QED BY <3>2, <4>1 DEF NamingOK, order
    <3>5. QED BY <2>1, <3>3, <3>4 DEF ViewOK
  <2>7. /\ DOMAIN ranked = DOMAIN candidates.order
        /\ \A k \in DOMAIN candidates.order : ranked[k] \in ToSet(candidates.order)
        /\ \A k, l \in DOMAIN candidates.order :
             k < l /\ ranked[l] \in candidates.passed => ranked[k] \in candidates.passed
    BY <2>6, RankedByPolicy
  <2>8. LiveCandidatePanel(Records, candidates, s) =
          [rows   |-> [i \in DOMAIN ranked |-> PanelRow(Records, candidates, ranked[i])],
           dialog |-> {DetailDialog(Records, candidates, q) : q \in {s} \cap ToSet(ranked)}]
    BY Zenon DEF LiveCandidatePanel
  <2> HIDE DEF ranked, screen, candidates
  <2>9. /\ DOMAIN screen.panel.rows = DOMAIN candidates.order
        /\ \A i \in DOMAIN candidates.order : screen.panel.rows[i].passed = (ranked[i] \in candidates.passed)
        /\ screen.panel.dialog = {DetailDialog(Records, candidates, q) : q \in {s} \cap ToSet(ranked)}
    BY <2>2, <2>7, <2>8 DEF PanelRow
  <2>10. DOMAIN candidates.order \subseteq Nat
    BY <2>6 DEF NamingOK
  <2>11. ASSUME NEW i \in DOMAIN screen.panel.rows, NEW j \in DOMAIN screen.panel.rows,
                screen.panel.rows[j].passed, ~screen.panel.rows[i].passed
         PROVE  j < i
    <3>1. i # j /\ ~ (i < j) /\ i \in Nat /\ j \in Nat
      BY <2>7, <2>9, <2>10, <2>11
    <3>2. QED BY <3>1
  <2>12. s \notin NamedIn(candidates) => screen.panel.dialog = {}
    BY <2>7, <2>9 DEF NamedIn, ToSet
  <2>13. QED BY <2>1, <2>2, <2>3, <2>4, <2>5, <2>11, <2>12 DEF ViewOK, screen, candidates
<1>2. ShownInv => OneCaseShown
  <2>1. \A t \in Tab, s \in Supplier : ChatScreen(t, s).header.case = tab[t].state.case
    BY DEF ChatScreen, Header
  <2>2. QED BY <1>1, <2>1 DEF OneCaseShown
<1>3. QED BY ShownInit, ShownNext, <1>2, PTL DEF Spec

=============================================================================

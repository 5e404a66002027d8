------------------------- MODULE CockpitPagesProofs -------------------------
(***************************************************************************)
(* Theorems about CockpitPages, for any cases, suppliers, rounds, plans    *)
(* and bounds: the plans on the screen come with the answers they were     *)
(* priced from; the answer a card shows is the one a plan would be priced  *)
(* from; and what a page does twice, it does for two buttons.              *)
(*                                                                         *)
(* PlansShowTheirClaims is about the screen alone, and a screen shows what *)
(* a read carried, which the API read in two steps.  The invariant follows *)
(* a decision from the case directory to the screen: it is backed by the   *)
(* claims on file where it was made; claims are only ever replaced by      *)
(* later ones, so it still is when the second step reads them; from then   *)
(* on decision and claims travel together.                                 *)
(***************************************************************************)
EXTENDS CockpitPages, WellFoundedInduction, TLAPS

-----------------------------------------------------------------------------
(* Extreme numbers.                                                        *)

\* A set of natural numbers has a least element.
LEMMA LeastNatural ==
  ASSUME NEW T \in SUBSET Nat, T # {}
  PROVE  \E x \in T : \A y \in T : x <= y
<1> DEFINE R == OpToRel(<, Nat)
<1>1. IsWellFoundedOn(R, Nat)
  BY NatLessThanWellFounded
<1>2. PICK x \in T : \A y \in T : ~(<<y, x>> \in R)
  <2> HIDE DEF R
  <2>1. QED BY <1>1, WFMin
<1>3. \A y \in T : ~(y < x)
  BY <1>2 DEF OpToRel
<1>4. QED BY <1>3

\* A bounded one has a greatest: the least distance from the bound.
LEMMA GreatestBounded ==
  ASSUME NEW T \in SUBSET Nat, T # {}, NEW b \in Nat, \A x \in T : x <= b
  PROVE  \E x \in T : \A y \in T : y <= x
<1> DEFINE U == {b - x : x \in T}
<1>1. U \in SUBSET Nat /\ U # {}
  <2>1. \A x \in T : b - x \in Nat
    OBVIOUS
  <2>2. QED BY <2>1
<1>2. PICK u \in U : \A v \in U : u <= v
  <2> HIDE DEF U
  <2>1. QED BY <1>1, LeastNatural
<1>3. PICK x \in T : u = b - x
  BY <1>2
<1>4. ASSUME NEW y \in T PROVE y <= x
  BY <1>2, <1>3, <1>4
<1>5. QED BY <1>4


-----------------------------------------------------------------------------
\* Every answer decision `d` was priced from is among the claims, or a later one
\* is in its place.
Backed(d, claims) ==
  d # Nothing =>
    \A s \in Supplier :
      /\ d.priced[s] \in Nat
      /\ d.priced[s] # 0 => \E r \in Round : claims[s][r] >= d.priced[s]

\* What the screens take for granted of a snapshot.
Shaped(v) == v.claims \in Claims /\ DOMAIN v.candidates \subseteq Supplier

CaseFields == {"screened", "claims", "decision", "seq"}
SnapshotFields == {"case_id", "incumbent", "candidates", "claims", "decision", "last_event_seq"}
ReadFields == {"kind", "case", "first", "stage", "value"}
ChainFields == {"id", "key", "case", "about", "stage", "value"}
PageFields == {"on", "case", "snapshot", "replayed", "running", "busy", "error", "rows"}

\* The case directory: no claim is newer than the log, and the decision is backed.
ServerInv ==
  /\ DOMAIN server = Case
  /\ \A c \in Case :
       /\ DOMAIN server[c] = CaseFields
       /\ server[c].claims \in Claims
       /\ server[c].seq \in Nat
       /\ \A s \in Supplier, r \in Round : server[c].claims[s][r] <= server[c].seq
       /\ Backed(server[c].decision, server[c].claims)

\* A half-read snapshot is backed by what is still on file, a whole one by itself.
ReadOK(read) ==
  /\ DOMAIN read = ReadFields
  /\ read.case \in Case
  /\ DOMAIN read.value = SnapshotFields
  /\ Shaped(read.value)
  /\ read.stage = "half" => Backed(read.value.decision, server[read.case].claims)
  /\ read.stage # "half" => Backed(read.value.decision, read.value.claims)

ActOK(a) ==
  /\ DOMAIN a = ChainFields
  /\ a.case \in Case
  /\ a.stage = "half" => /\ DOMAIN a.value = SnapshotFields
                         /\ Shaped(a.value)
                         /\ Backed(a.value.decision, server[a.case].claims)

ReadsInv == \A read \in reads : ReadOK(read)
ActsInv == \A a \in acts : ActOK(a)

PageInv ==
  /\ opened \subseteq Case
  /\ DOMAIN page = PageFields
  /\ page.rows \subseteq Case
  /\ page.on = "inventory" => page.busy \in Case \cup {Nobody}
  /\ page.on # "inventory" => page.case \in Case
  /\ page.snapshot # Nothing => /\ Backed(page.snapshot.decision, page.snapshot.claims)
                                /\ Shaped(page.snapshot)

PagesInv == ServerInv /\ ReadsInv /\ ActsInv /\ PageInv

-----------------------------------------------------------------------------
(* The case directory.                                                     *)

\* The claims of every case have been kept or replaced by later ones.
Grown ==
  \A c \in Case, s \in Supplier, r \in Round : server'[c].claims[s][r] >= server[c].claims[s][r]

\* The answer a decision takes for a supplier's is one of those on file.
LEMMA NewestIsFiled ==
  ASSUME NEW filed \in [Round -> Nat]
  PROVE  /\ Newest(filed) \in Nat
         /\ Newest(filed) # 0 => \E r \in Round : filed[r] = Newest(filed)
<1>1. CASE \A r \in Round : filed[r] = 0
  BY <1>1 DEF Newest
<1>2. CASE ~ \A r \in Round : filed[r] = 0
  <2> DEFINE T == {r \in Round : filed[r] # 0}
             Top(r) == r \in Round /\ filed[r] # 0 /\ \A q \in Round : filed[q] # 0 => q <= r
  <2>1. \E x \in T : \A y \in T : y <= x
    <3>1. T # {}
      BY <1>2
    <3>2. \A x \in T : x \in Nat /\ x <= 9
      BY ViewsAssumption
    <3> HIDE DEF T
    <3>3. T \in SUBSET Nat
      BY <3>2
    <3>4. QED BY <3>1, <3>2, <3>3, GreatestBounded
  <2>2. \E r : Top(r)
    BY <2>1
  <2>3. Top(CHOOSE r : Top(r))
    BY <2>2
  <2>4. Newest(filed) = filed[CHOOSE r \in Round : filed[r] # 0 /\ \A q \in Round : filed[q] # 0 => q <= r]
    BY <1>2 DEF Newest
  <2>5. PICK r \in Round : Newest(filed) = filed[r]
    BY <2>2, <2>4
  <2>6. QED BY <2>5
<1>3. QED BY <1>1, <1>2

\* What a change of a case does to the directory: claims grow, decisions stay backed.
LEMMA BackedStays ==
  ASSUME ServerInv, Grown, NEW c \in Case, NEW d, Backed(d, server[c].claims),
         \A s \in Supplier, r \in Round : server'[c].claims[s][r] \in Nat
  PROVE  Backed(d, server'[c].claims)
<1> SUFFICES ASSUME d # Nothing, NEW s \in Supplier, d.priced[s] # 0
             PROVE  \E r \in Round : server'[c].claims[s][r] >= d.priced[s]
  BY DEF Backed
<1>1. PICK r \in Round : server[c].claims[s][r] >= d.priced[s]
  BY DEF Backed
<1>2. server[c].claims[s][r] \in Nat /\ d.priced[s] \in Nat
  BY DEF ServerInv, Claims, Backed
<1>3. QED BY <1>1, <1>2 DEF Grown

LEMMA LoggedGrows ==
  ASSUME ServerInv, NEW c \in Case, NEW f, Logged(c, f),
         DOMAIN f = CaseFields, f.seq = server[c].seq, f.claims \in Claims,
         \A s \in Supplier, r \in Round :
           f.claims[s][r] >= server[c].claims[s][r] /\ f.claims[s][r] <= server[c].seq + 1,
         Backed(f.decision, server[c].claims)
  PROVE  ServerInv' /\ Grown
<1>1. /\ DOMAIN server' = Case
      /\ \A e \in Case \ {c} : server'[e] = server[e]
      /\ server'[c] = [f EXCEPT !.seq = @ + 1]
  BY DEF Logged, ServerInv
<1>2. /\ DOMAIN server'[c] = CaseFields
      /\ server'[c].claims = f.claims
      /\ server'[c].decision = f.decision
      /\ server'[c].seq = server[c].seq + 1
  BY <1>1 DEF CaseFields
<1>3. ASSUME NEW e \in Case, NEW s \in Supplier, NEW r \in Round
      PROVE  /\ server'[e].claims[s][r] >= server[e].claims[s][r]
             /\ server'[e].claims[s][r] \in Nat
  <2>1. server[e].claims[s][r] \in Nat
    BY DEF ServerInv, Claims
  <2>2. CASE e = c
    <3>1. f.claims[s][r] \in Nat
      BY DEF Claims
    <3>2. QED BY <1>2, <2>2, <3>1
  <2>3. CASE e # c
    BY <1>1, <2>1, <2>3
  <2>4. QED BY <2>2, <2>3
<1>4. Grown
  BY <1>3 DEF Grown
<1>5. Backed(server'[c].decision, server'[c].claims)
  BY <1>2, <1>3, <1>4, BackedStays
<1>6. \A s \in Supplier, r \in Round : server'[c].claims[s][r] <= server'[c].seq
  BY <1>2
<1>7. server'[c].seq \in Nat
  BY <1>2 DEF ServerInv
<1>8. \A e \in Case \ {c} : Backed(server'[e].decision, server'[e].claims)
  BY <1>1 DEF ServerInv
<1>9. QED BY <1>1, <1>2, <1>4, <1>5, <1>6, <1>7, <1>8 DEF ServerInv

LEMMA ServerStep ==
  ASSUME ServerInv, NEW c \in Case,
         \/ Screen(c) \/ Decide(c)
         \/ \E s \in Supplier, r \in Round : FileClaim(c, s, r)
  PROVE  ServerInv' /\ Grown
<1>0. /\ DOMAIN server[c] = CaseFields /\ server[c].claims \in Claims /\ server[c].seq \in Nat
      /\ \A s \in Supplier, r \in Round : server[c].claims[s][r] <= server[c].seq /\ server[c].claims[s][r] \in Nat
      /\ Backed(server[c].decision, server[c].claims)
  BY DEF ServerInv, Claims
<1>1. CASE Screen(c)
  <2> DEFINE f == [server[c] EXCEPT !.screened = TRUE]
  <2>1. /\ DOMAIN f = CaseFields /\ f.seq = server[c].seq /\ f.claims = server[c].claims
        /\ f.decision = server[c].decision
    BY <1>0 DEF CaseFields
  <2>2. Logged(c, f)
    BY <1>1 DEF Screen
  <2> HIDE DEF f
  <2>3. QED BY <1>0, <2>1, <2>2, LoggedGrows
<1>2. CASE Decide(c)
  <2> DEFINE f == [server[c] EXCEPT !.decision = Priced(c)]
  <2>1. /\ DOMAIN f = CaseFields /\ f.seq = server[c].seq /\ f.claims = server[c].claims
        /\ f.decision = Priced(c)
    BY <1>0 DEF CaseFields
  <2>2. Logged(c, f)
    BY <1>2 DEF Decide
  <2>3. Priced(c).priced = [s \in Supplier |-> Newest(server[c].claims[s])]
    BY DEF Priced
  <2>4. Backed(Priced(c), server[c].claims)
    <3>1. ASSUME NEW s \in Supplier
          PROVE  /\ Priced(c).priced[s] \in Nat
                 /\ Priced(c).priced[s] # 0 =>
                      \E r \in Round : server[c].claims[s][r] >= Priced(c).priced[s]
      <4>1. server[c].claims[s] \in [Round -> Nat]
        BY <1>0 DEF Claims
      <4>2. Priced(c).priced[s] = Newest(server[c].claims[s])
        BY <2>3
      <4>3. QED BY <4>1, <4>2, NewestIsFiled
    <3>2. QED BY <3>1 DEF Backed
  <2> HIDE DEF f
  <2>5. QED BY <1>0, <2>1, <2>2, <2>4, LoggedGrows
<1>3. ASSUME NEW s \in Supplier, NEW r \in Round, FileClaim(c, s, r)
      PROVE  ServerInv' /\ Grown
  <2> DEFINE f == [server[c] EXCEPT !.claims[s][r] = server[c].seq + 1]
  <2>1. /\ DOMAIN f = CaseFields /\ f.seq = server[c].seq /\ f.decision = server[c].decision
        /\ f.claims = [server[c].claims EXCEPT ![s][r] = server[c].seq + 1]
    BY <1>0 DEF CaseFields
  <2>2. Logged(c, f)
    BY <1>3 DEF FileClaim
  <2> HIDE DEF f
  <2>3. f.claims \in Claims
    BY <1>0, <2>1 DEF Claims
  <2>4. \A t \in Supplier, q \in Round :
          f.claims[t][q] >= server[c].claims[t][q] /\ f.claims[t][q] <= server[c].seq + 1
    BY <1>0, <2>1 DEF Claims
  <2>5. QED BY <1>0, <2>1, <2>2, <2>3, <2>4, LoggedGrows
<1>4. QED BY <1>1, <1>2, <1>3

-----------------------------------------------------------------------------
(* What is under way while the directory changes, or does not.             *)

LEMMA NothingGrows ==
  ASSUME ServerInv, UNCHANGED server
  PROVE  ServerInv' /\ Grown
<1>1. ServerInv'
  BY DEF ServerInv
<1>2. \A c \in Case, s \in Supplier, r \in Round : server[c].claims[s][r] \in Nat
  BY DEF ServerInv, Claims
<1>3. QED BY <1>1, <1>2 DEF Grown

LEMMA BackedOn ==
  ASSUME ServerInv, ServerInv', Grown, NEW c \in Case, NEW d, Backed(d, server[c].claims)
  PROVE  Backed(d, server'[c].claims)
<1>1. \A s \in Supplier, r \in Round : server'[c].claims[s][r] \in Nat
  BY DEF ServerInv, Claims
<1>2. QED BY <1>1, BackedStays

LEMMA ReadsCarry ==
  ASSUME ServerInv, ServerInv', Grown, NEW read, ReadOK(read)
  PROVE  ReadOK(read)'
<1>1. read.stage = "half" => Backed(read.value.decision, server'[read.case].claims)
  BY BackedOn DEF ReadOK
<1>2. QED BY <1>1 DEF ReadOK

LEMMA ActsCarry ==
  ASSUME ServerInv, ServerInv', Grown, NEW a, ActOK(a)
  PROVE  ActOK(a)'
<1>1. a.stage = "half" => Backed(a.value.decision, server'[a.case].claims)
  BY BackedOn DEF ActOK
<1>2. QED BY <1>1 DEF ActOK

\* A snapshot that is read now is backed, half or whole.
LEMMA HalfBacked ==
  ASSUME ServerInv, NEW c \in Case
  PROVE  /\ DOMAIN Half(c) = SnapshotFields
         /\ Backed(Half(c).decision, server[c].claims)
         /\ Backed(Whole(c).decision, Whole(c).claims)
         /\ Shaped(Half(c)) /\ Shaped(Whole(c))
<1>1. /\ DOMAIN Half(c) = SnapshotFields /\ Half(c).decision = server[c].decision
      /\ Half(c).claims = NoClaims /\ Half(c).candidates = Candidates(c)
  BY DEF Half, SnapshotFields
<1>2. /\ Whole(c).decision = server[c].decision /\ Whole(c).claims = server[c].claims
      /\ Whole(c).candidates = Candidates(c)
  BY <1>1 DEF Whole, SnapshotFields
<1>3. NoClaims \in Claims /\ DOMAIN Candidates(c) \subseteq Supplier
  BY DEF NoClaims, Claims, Candidates
<1>4. QED BY <1>1, <1>2, <1>3 DEF ServerInv, Shaped

\* The reads of a page are about its case.
LEMMA FirstReadsOK ==
  ASSUME ServerInv, NEW on, NEW c, on # "inventory" => c \in Case, on \in {"inventory", "cockpit", "case"}
  PROVE  \A read \in FirstReads(on, c) : ReadOK(read)
<1>1. ASSUME NEW kind, c \in Case PROVE ReadOK(Read(kind, c, TRUE))
  <2>1. /\ DOMAIN Read(kind, c, TRUE) = ReadFields
        /\ Read(kind, c, TRUE).case = c
        /\ Read(kind, c, TRUE).stage = "half"
        /\ Read(kind, c, TRUE).value = Half(c)
    BY DEF Read, ReadFields
  <2>2. QED BY <1>1, <2>1, HalfBacked DEF ReadOK
<1>2. CASE on = "inventory"
  BY <1>2 DEF FirstReads
<1>3. CASE on = "cockpit"
  BY <1>1, <1>3 DEF FirstReads
<1>4. CASE on = "case"
  BY <1>1, <1>4 DEF FirstReads
<1>5. QED BY <1>2, <1>3, <1>4

-----------------------------------------------------------------------------
(* The steps.                                                              *)

\* What a step leaves alone stays in order, whatever it does to the directory.
LEMMA Carry ==
  ASSUME PagesInv, ServerInv', Grown
  PROVE  /\ \A read \in reads : ReadOK(read)'
         /\ \A a \in acts : ActOK(a)'
         /\ UNCHANGED reads => ReadsInv'
         /\ UNCHANGED acts => ActsInv'
         /\ UNCHANGED <<page, opened>> => PageInv'
<1>1. \A read \in reads : ReadOK(read)'
  BY ReadsCarry DEF PagesInv, ReadsInv
<1>2. \A a \in acts : ActOK(a)'
  BY ActsCarry DEF PagesInv, ActsInv
<1>3. UNCHANGED <<page, opened>> => PageInv'
  BY DEF PagesInv, PageInv, Backed
<1>4. QED BY <1>1, <1>2, <1>3 DEF ReadsInv, ActsInv

\* A page that is opened on a case shows nothing, or the case as it is.
LEMMA BlankOK ==
  ASSUME PagesInv, NEW on, NEW c, on # "inventory" => c \in Case
  PROVE  /\ DOMAIN Blank(on, c) = PageFields
         /\ Blank(on, c).on = on /\ Blank(on, c).case = c
         /\ Blank(on, c).busy = Nobody /\ Blank(on, c).rows \subseteq Case
         /\ Blank(on, c).snapshot # Nothing =>
              /\ Backed(Blank(on, c).snapshot.decision, Blank(on, c).snapshot.claims)
              /\ Shaped(Blank(on, c).snapshot)
<1>1. /\ DOMAIN Blank(on, c) = PageFields
      /\ Blank(on, c).on = on /\ Blank(on, c).case = c
      /\ Blank(on, c).busy = Nobody /\ Blank(on, c).rows = opened
      /\ Blank(on, c).snapshot = IF on = "cockpit" /\ source = "fixtures" THEN Whole(c) ELSE Nothing
  BY DEF Blank, PageFields
<1>2. CASE on = "cockpit" /\ source = "fixtures"
  <2>1. c \in Case /\ Blank(on, c).snapshot = Whole(c)
    BY <1>1, <1>2
  <2>2. Backed(Whole(c).decision, Whole(c).claims) /\ Shaped(Whole(c))
    BY <2>1, HalfBacked DEF PagesInv
  <2>3. QED BY <1>1, <2>1, <2>2 DEF PagesInv, PageInv
<1>3. CASE ~(on = "cockpit" /\ source = "fixtures")
  BY <1>1, <1>3 DEF PagesInv, PageInv
<1>4. QED BY <1>2, <1>3

LEMMA GoOK ==
  ASSUME PagesInv, NEW on \in {"inventory", "cockpit", "case"}, NEW c,
         on # "inventory" => c \in Case, Go(on, c), UNCHANGED server, opened' \subseteq Case
  PROVE  PagesInv'
<1>1. ServerInv' /\ Grown
  BY NothingGrows DEF PagesInv
<1>2. ReadsInv'
  <2>1. \A read \in reads' : read \in FirstReads(on, c)
    BY DEF Go
  <2>2. \A read \in FirstReads(on, c) : ReadOK(read)
    BY FirstReadsOK DEF PagesInv
  <2>3. QED BY <2>1, <2>2 DEF ReadsInv, ReadOK
<1>3. ActsInv'
  BY DEF Go, ActsInv
<1>4. PageInv'
  BY BlankOK DEF Go, PageInv
<1>5. QED BY <1>1, <1>2, <1>3, <1>4 DEF PagesInv

\* A chain that moves on with nothing read.
LEMMA MovedOK ==
  ASSUME ActsInv, NEW a \in acts, NEW stage, stage # "half", Moved(a, stage)
  PROVE  \A b \in acts' : b \in acts \/ (ActOK(b) /\ ActOK(b)')
<1> DEFINE b == [a EXCEPT !.stage = stage, !.value = Nothing]
<1>1. DOMAIN b = ChainFields /\ b.case = a.case /\ b.stage = stage /\ a.case \in Case
  BY DEF ActsInv, ActOK, ChainFields
<1>2. ActOK(b) /\ ActOK(b)'
  BY <1>1 DEF ActOK
<1> HIDE DEF b
<1>3. acts' = (acts \ {a}) \cup {b}
  BY DEF Moved, b
<1>4. QED BY <1>2, <1>3

LEMMA PagesNext == PagesInv /\ [Next]_vars => PagesInv'
<1> SUFFICES ASSUME PagesInv, [Next]_vars PROVE PagesInv'
  OBVIOUS
<1>0. ServerInv /\ ReadsInv /\ ActsInv /\ PageInv /\ DOMAIN page = PageFields
  BY DEF PagesInv, PageInv
<1>1. CASE OthersWork
  <2>1. UNCHANGED <<opened, page, reads, acts>>
    BY <1>1 DEF OthersWork
  <2>2. PICK c \in opened : Screen(c) \/ Decide(c) \/ \E s \in Supplier, r \in Round : FileClaim(c, s, r)
    BY <1>1 DEF OthersWork
  <2>3. c \in Case
    BY <1>0 DEF PageInv
  <2>4. ServerInv' /\ Grown
    BY <1>0, <2>2, <2>3, ServerStep
  <2>5. QED BY <2>1, <2>4, Carry DEF PagesInv
<1>2. ASSUME UNCHANGED server PROVE ServerInv' /\ Grown
  BY <1>0, <1>2, NothingGrows
<1>3. CASE Visit
  <2>1. UNCHANGED <<server, opened>> /\ opened' \subseteq Case /\ FirstCase \in Case /\ page.rows \subseteq Case
    BY <1>0, <1>3, PagesAssumption DEF Visit, PageInv
  <2>2. CASE Go("inventory", Nobody)
    BY <2>1, <2>2, GoOK
  <2>3. CASE Go("cockpit", FirstCase)
    BY <2>1, <2>3, GoOK
  <2>4. ASSUME NEW c \in page.rows, Go("case", c) PROVE PagesInv'
    BY <2>1, <2>4, GoOK
  <2>5. QED BY <1>3, <2>2, <2>3, <2>4 DEF Visit
<1>4. CASE Trigger
  <2>1. UNCHANGED <<server, opened, reads, acts>>
    BY <1>4 DEF Trigger
  <2>2. PICK c \in Case : page' = [page EXCEPT !.busy = c, !.error = FALSE]
    BY <1>4 DEF Trigger
  <2>3. PageInv'
    BY <1>0, <2>1, <2>2 DEF PageInv, PageFields
  <2>4. QED BY <1>2, <2>1, <2>3, Carry DEF PagesInv
<1>5. CASE Triggered
  <2>1. page.on = "inventory" /\ page.busy \in Case /\ UNCHANGED server
    BY <1>0, <1>5 DEF Triggered, PageInv
  <2>2. CASE opened' = opened \cup {page.busy} /\ Go("case", page.busy)
    <3>1. opened' \subseteq Case
      BY <1>0, <2>1, <2>2 DEF PageInv
    <3>2. QED BY <2>1, <2>2, <3>1, GoOK
  <2>3. CASE page' = [page EXCEPT !.error = TRUE, !.busy = Nobody] /\ UNCHANGED <<opened, reads, acts>>
    <3>1. PageInv'
      BY <1>0, <2>1, <2>3 DEF PageInv, PageFields
    <3>2. QED BY <1>2, <2>1, <2>3, <3>1, Carry DEF PagesInv
  <2>4. QED BY <1>5, <2>2, <2>3 DEF Triggered
<1>6. CASE SelectCase
  <2>1. UNCHANGED <<server, opened, acts>> /\ page.on = "cockpit"
    BY <1>6 DEF SelectCase
  <2>2. PICK c \in page.rows :
          /\ page' = IF source = "fixtures" THEN Blank("cockpit", c)
                     ELSE [page EXCEPT !.case = c, !.running = FALSE]
          /\ reads' = IF source = "live" THEN reads \cup FirstReads("cockpit", c) ELSE reads
    BY <1>6 DEF SelectCase
  <2>3. c \in Case
    BY <1>0 DEF PageInv
  <2>4. PageInv'
    <3>1. CASE source = "fixtures"
      BY <1>0, <2>1, <2>2, <2>3, <3>1, BlankOK DEF PageInv
    <3>2. CASE source # "fixtures"
      <4>1. page' = [page EXCEPT !.case = c, !.running = FALSE]
        BY <2>2, <3>2
      <4>2. QED BY <1>0, <2>1, <2>3, <4>1 DEF PageInv, PageFields
    <3>3. QED BY <3>1, <3>2
  <2>5. ReadsInv'
    <3>1. \A read \in FirstReads("cockpit", c) : ReadOK(read)
      BY <1>0, <2>3, FirstReadsOK
    <3>2. \A read \in reads' : ReadOK(read)
      BY <1>0, <2>2, <3>1 DEF ReadsInv
    <3>3. QED BY <2>1, <3>2 DEF ReadsInv, ReadOK
  <2>6. QED BY <1>2, <2>1, <2>4, <2>5, Carry DEF PagesInv
<1>7. CASE Poll
  <2>1. /\ UNCHANGED <<server, opened, page, acts>> /\ page.on \in {"cockpit", "case"}
        /\ reads' = reads \cup {[read EXCEPT !.first = FALSE] : read \in FirstReads(page.on, page.case)}
    BY <1>7 DEF Poll
  <2>2. \A read \in FirstReads(page.on, page.case) : ReadOK(read)
    BY <1>0, <2>1, FirstReadsOK DEF PageInv
  <2>3. \A read : ReadOK(read) => ReadOK([read EXCEPT !.first = FALSE])
    BY DEF ReadOK, ReadFields
  <2>4. \A read \in reads' : ReadOK(read)
    BY <1>0, <2>1, <2>2, <2>3 DEF ReadsInv
  <2>5. ReadsInv'
    BY <2>1, <2>4 DEF ReadsInv, ReadOK
  <2>6. QED BY <1>2, <2>1, <2>5, Carry DEF PagesInv
<1>8. CASE Fail
  <2>1. UNCHANGED <<server, opened, acts>>
    BY <1>8 DEF Fail
  <2>2. PICK read \in reads : reads' = reads \ {read} /\ page' = Lost(read)
    BY <1>8 DEF Fail
  <2>3. ReadsInv'
    BY <1>2, <2>1, <2>2, Carry DEF ReadsInv
  <2>4. \/ Lost(read) = [page EXCEPT !.snapshot = Nothing]
        \/ Lost(read) = [page EXCEPT !.error = TRUE]
        \/ Lost(read) = page
    BY DEF Lost
  <2>5. PageInv'
    BY <1>0, <2>1, <2>2, <2>4 DEF PageInv, PageFields
  <2>6. QED BY <1>2, <2>1, <2>3, <2>5, Carry DEF PagesInv
<1>9. CASE ServeRead
  <2>1. UNCHANGED <<server, opened, page, acts>>
    BY <1>9 DEF ServeRead
  <2>2. PICK read \in reads : read.stage = "half" /\ reads' = (reads \ {read}) \cup {Rest(read)}
    BY <1>9 DEF ServeRead
  <2>3. ReadOK(read)
    BY <1>0 DEF ReadsInv
  <2>4. /\ DOMAIN Rest(read) = ReadFields
        /\ Rest(read).case = read.case
        /\ Rest(read).stage = "served"
        /\ Rest(read).value = [read.value EXCEPT !.claims = server[read.case].claims]
    BY <2>3 DEF Rest, ReadOK, ReadFields
  <2>5. /\ DOMAIN Rest(read).value = SnapshotFields
        /\ Rest(read).value.decision = read.value.decision
        /\ Rest(read).value.claims = server[read.case].claims
        /\ Shaped(Rest(read).value)
    BY <1>0, <2>3, <2>4 DEF ReadOK, SnapshotFields, ServerInv, Shaped
  <2>6. ReadOK(Rest(read))
    BY <2>2, <2>3, <2>4, <2>5 DEF ReadOK
  <2>7. \A other \in reads' : ReadOK(other)
    BY <1>0, <2>2, <2>6 DEF ReadsInv
  <2>8. ReadsInv'
    BY <2>1, <2>7 DEF ReadsInv, ReadOK
  <2>9. QED BY <1>2, <2>1, <2>8, Carry DEF PagesInv
<1>10. ASSUME NEW kind \in Kinds, Arrive(kind) PROVE PagesInv'
  <2>1. UNCHANGED <<server, opened, acts>>
    BY <1>10 DEF Arrive
  <2>2. PICK read \in reads : read.stage = "served" /\ reads' = reads \ {read} /\ page' = Show(read)
    BY <1>10 DEF Arrive
  <2>3. ReadsInv'
    BY <1>2, <2>1, <2>2, Carry DEF ReadsInv
  <2>4. Backed(read.value.decision, read.value.claims) /\ Shaped(read.value)
    BY <1>0, <2>2 DEF ReadsInv, ReadOK
  <2>5. \/ Show(read) = [page EXCEPT !.snapshot = read.value]
        \/ Show(read) = [page EXCEPT !.snapshot = read.value, !.error = FALSE]
    BY DEF Show
  <2>6. PageInv'
    BY <1>0, <2>1, <2>2, <2>4, <2>5 DEF PageInv, PageFields
  <2>7. QED BY <1>2, <2>1, <2>3, <2>6, Carry DEF PagesInv
<1>11. CASE LaunchReplay
  <2>1. UNCHANGED <<server, opened, reads, acts>> /\ page' = [page EXCEPT !.running = TRUE]
    BY <1>11 DEF LaunchReplay
  <2>2. PageInv'
    BY <1>0, <2>1 DEF PageInv, PageFields
  <2>3. QED BY <1>2, <2>1, <2>2, Carry DEF PagesInv
<1>12. CASE ReplayEvent
  <2>1. UNCHANGED <<server, opened, reads, acts>> /\ page' = [page EXCEPT !.replayed = @ + 1]
    BY <1>12 DEF ReplayEvent
  <2>2. PageInv'
    BY <1>0, <2>1 DEF PageInv, PageFields
  <2>3. QED BY <1>2, <2>1, <2>2, Carry DEF PagesInv
<1>13. CASE Press
  <2>1. UNCHANGED <<server, opened, reads>> /\ page.on = "cockpit" /\ page.case \in Case
    BY <1>0, <1>13 DEF Press, PageInv
  <2>2. PICK key \in Buttons :
          /\ acts' = acts \cup {Chain(key, page.case, IF key = "run" THEN page.snapshot.incumbent ELSE key)}
          /\ page' = [page EXCEPT !.busy = key, !.error = FALSE, !.running = @ \/ key = "run"]
    BY <1>13 DEF Press
  <2>3. \A about : ActOK(Chain(key, page.case, about))
    BY <2>1 DEF Chain, ActOK, ChainFields
  <2>4. \A a \in acts' : ActOK(a)
    BY <1>0, <2>2, <2>3 DEF ActsInv
  <2>5. ActsInv'
    BY <2>1, <2>4 DEF ActsInv, ActOK
  <2>6. PageInv'
    BY <1>0, <2>1, <2>2 DEF PageInv, PageFields
  <2>7. QED BY <1>2, <2>1, <2>5, <2>6, Carry DEF PagesInv
<1>14. CASE ServeAct
  <2>1. UNCHANGED <<opened, reads>>
    BY <1>14 DEF ServeAct
  <2>0. \A a \in acts : a.case \in Case /\ Passing[a.case] \subseteq Supplier
    BY <1>0, PagesAssumption DEF ActsInv, ActOK
  <2>2. PICK a \in acts :
          \/ Screen(a.case) /\ Moved(a, "asking") /\ UNCHANGED page
          \/ (\E s \in Supplier : FileClaim(a.case, s, 1)) /\ UNCHANGED <<acts, page>>
          \/ Decide(a.case) /\ Moved(a, "served") /\ UNCHANGED page
          \/ Moved(a, "served") /\ UNCHANGED <<server, page>>
          \/ (\E s \in Supplier : FileClaim(a.case, s, 1)) /\ Moved(a, "pricing") /\ UNCHANGED page
          \/ acts' = acts \ {a} /\ page' = [page EXCEPT !.error = TRUE, !.busy = Nobody] /\ UNCHANGED server
    BY <1>14, <2>0 DEF ServeAct
  <2>3. a.case \in Case
    BY <1>0 DEF ActsInv, ActOK
  <2>4. ServerInv' /\ Grown
    <3>1. ASSUME NEW s \in Supplier, FileClaim(a.case, s, 1) PROVE ServerInv' /\ Grown
      BY <1>0, <2>3, <3>1, ViewsAssumption, ServerStep
    <3>2. CASE Screen(a.case) \/ Decide(a.case)
      BY <1>0, <2>3, <3>2, ServerStep
    <3>3. QED BY <1>2, <2>2, <3>1, <3>2
  <2>5. ActsInv'
    <3>1. \A b \in acts' : b \in acts \/ ActOK(b)'
      BY <1>0, <2>2, MovedOK
    <3>2. \A b \in acts : ActOK(b)'
      BY <2>4, Carry
    <3>3. QED BY <3>1, <3>2 DEF ActsInv
  <2>6. PageInv'
    BY <1>0, <2>1, <2>2 DEF PageInv, PageFields
  <2>7. QED BY <2>1, <2>4, <2>5, <2>6, Carry DEF PagesInv
<1>15. CASE ReadBack
  <2>1. UNCHANGED <<server, opened, reads>>
    BY <1>15 DEF ReadBack
  <2>2. PICK a \in acts :
          \/ /\ UNCHANGED page
             /\ acts' = (acts \ {a}) \cup {[a EXCEPT !.stage = "half", !.value = Half(a.case)]}
          \/ /\ a.stage = "half" /\ Moved(a, "shown")
             /\ page' = [page EXCEPT !.snapshot = [a.value EXCEPT !.claims = server[a.case].claims]]
    BY <1>15 DEF ReadBack
  <2>3. ActOK(a) /\ a.case \in Case
    BY <1>0 DEF ActsInv, ActOK
  <2>4. \A b \in acts : ActOK(b)'
    BY <1>2, <2>1, Carry
  <2>5. CASE /\ UNCHANGED page
             /\ acts' = (acts \ {a}) \cup {[a EXCEPT !.stage = "half", !.value = Half(a.case)]}
    <3>0. PICK b : b = [a EXCEPT !.stage = "half", !.value = Half(a.case)]
      OBVIOUS
    <3>1. DOMAIN b = ChainFields /\ b.case = a.case /\ b.value = Half(a.case)
      BY <2>3, <3>0 DEF ActOK, ChainFields
    <3>2. ActOK(b)'
      BY <1>0, <2>1, <2>3, <3>1, HalfBacked DEF ActOK
    <3>3. acts' = (acts \ {a}) \cup {b}
      BY <2>5, <3>0
    <3>4. ActsInv'
      BY <2>4, <3>2, <3>3 DEF ActsInv
    <3>5. QED BY <1>2, <2>1, <2>5, <3>4, Carry DEF PagesInv
  <2>6. CASE /\ a.stage = "half" /\ Moved(a, "shown")
             /\ page' = [page EXCEPT !.snapshot = [a.value EXCEPT !.claims = server[a.case].claims]]
    <3>1. \A b \in acts' : b \in acts \/ ActOK(b)'
      BY <1>0, <2>6, MovedOK
    <3>2. ActsInv'
      BY <2>4, <3>1 DEF ActsInv
    <3> DEFINE v == [a.value EXCEPT !.claims = server[a.case].claims]
    <3>3. v.decision = a.value.decision /\ v.claims = server[a.case].claims
      BY <2>3, <2>6 DEF ActOK, SnapshotFields
    <3>4. Backed(v.decision, v.claims) /\ Shaped(v)
      <4>1. v.candidates = a.value.candidates
        BY <2>3, <2>6 DEF ActOK, SnapshotFields
      <4>2. QED BY <1>0, <2>3, <2>6, <3>3, <4>1 DEF ActOK, ServerInv, Shaped
    <3> HIDE DEF v
    <3>5. page' = [page EXCEPT !.snapshot = v]
      BY <2>6 DEF v
    <3>6. PageInv'
      BY <1>0, <2>1, <3>4, <3>5 DEF PageInv, PageFields
    <3>7. QED BY <1>2, <2>1, <3>2, <3>6, Carry DEF PagesInv
  <2>7. QED BY <2>2, <2>5, <2>6
<1>16. CASE Finish
  <2>1. UNCHANGED <<server, opened, reads>>
    BY <1>16 DEF Finish
  <2>2. PICK a \in acts :
          /\ acts' = acts \ {a}
          /\ \/ page' = [page EXCEPT !.busy = Nobody]
             \/ page' = [page EXCEPT !.error = TRUE, !.busy = Nobody]
    BY <1>16 DEF Finish
  <2>3. ActsInv'
    BY <1>2, <2>1, <2>2, Carry DEF ActsInv
  <2>4. PageInv'
    BY <1>0, <2>1, <2>2 DEF PageInv, PageFields
  <2>5. QED BY <1>2, <2>1, <2>3, <2>4, Carry DEF PagesInv
<1>17. CASE UNCHANGED vars
  BY <1>2, <1>17, Carry DEF vars, PagesInv
<1>18. QED BY <1>1, <1>3, <1>4, <1>5, <1>6, <1>7, <1>8, <1>9, <1>10, <1>11, <1>12, <1>13, <1>14,
              <1>15, <1>16, <1>17 DEF Next

-----------------------------------------------------------------------------
(* The beginning, and the theorem.                                         *)

LEMMA PagesInit == Init => PagesInv
<1> SUFFICES ASSUME Init PROVE PagesInv
  OBVIOUS
<1>1. ServerInv
  <2> DEFINE new == [NewCase EXCEPT !.screened = source = "fixtures"]
  <2>1. /\ DOMAIN new = CaseFields
        /\ new.claims = NoClaims /\ new.decision = Nothing /\ new.seq = 0
    BY DEF NewCase, CaseFields
  <2>2. server = [c \in Case |-> new]
    BY DEF Init
  <2> HIDE DEF new
  <2>3. NoClaims \in Claims /\ \A s \in Supplier, r \in Round : NoClaims[s][r] = 0
    BY DEF NoClaims, Claims
  <2>4. Backed(Nothing, NoClaims)
    BY DEF Backed
  <2>5. QED BY <2>1, <2>2, <2>3, <2>4 DEF ServerInv
<1>2. ReadsInv /\ ActsInv
  BY DEF Init, ReadsInv, ActsInv
<1>3. PageInv
  <2>1. opened \subseteq Case
    BY PagesAssumption DEF Init
  <2>2. /\ DOMAIN page = PageFields /\ page.on = "inventory" /\ page.busy = Nobody
        /\ page.rows = opened /\ page.snapshot = Nothing
    BY DEF Init, Blank, PageFields
  <2>3. QED BY <2>1, <2>2 DEF PageInv
<1>4. QED BY <1>1, <1>2, <1>3 DEF PagesInv

\* Whatever order answers come in, whoever works on the case and whichever of the
\* requests fail, the plans on the screen come with the answers they were priced
\* from, or later ones (load and act, ui/app/cockpit/page.tsx; get_case,
\* backend/api/routers/cases.py).
THEOREM PlansComeWithTheirClaims == Spec => []PlansShowTheirClaims
<1>1. PagesInv => PlansShowTheirClaims
  BY DEF PagesInv, PageInv, PlansShowTheirClaims, Joined, Backed
<1>2. QED BY <1>1, PagesInit, PagesNext, PTL DEF Spec

-----------------------------------------------------------------------------
(***************************************************************************)
(* The card of a supplier.                                                 *)
(*                                                                         *)
(* Latest reads the rounds in order and holds on to one of them.  That it  *)
(* ends on the highest is an induction over the rounds read: of those      *)
(* after which it does not, the first follows one after which it does.     *)
(***************************************************************************)

\* What is held after the rounds up to r.
Holding(h, filed, r) ==
  IF r = 0 THEN 0
  ELSE IF r \in Round /\ filed[r] # 0 /\ Supersedes(filed, r, h[r - 1]) THEN r ELSE h[r - 1]

Reading(h, filed, m) == h = [r \in 0..m |-> Holding(h, filed, r)]

LEMMA ReadingExists ==
  ASSUME NEW filed, NEW m \in Nat
  PROVE  \E h : Reading(h, filed, m)
<1> DEFINE Without == {k \in Nat : ~ \E h : Reading(h, filed, k)}
<1>1. SUFFICES ASSUME Without # {} PROVE FALSE
  OBVIOUS
<1>2. PICK k \in Without : \A j \in Without : k <= j
  BY <1>1, LeastNatural
<1>3. k # 0
  <2>1. Reading([r \in 0..0 |-> 0], filed, 0)
    BY DEF Reading, Holding
  <2>2. QED BY <2>1
<1>4. PICK h : Reading(h, filed, k - 1)
  BY <1>2, <1>3
<1> DEFINE g == [r \in 0..k |-> IF r < k THEN h[r] ELSE Holding(h, filed, k)]
<1>5. ASSUME NEW r \in 0..k PROVE g[r] = Holding(g, filed, r)
  <2>1. CASE r < k
    <3>1. g[r] = Holding(h, filed, r)
      BY <1>3, <1>4, <2>1 DEF Reading
    <3>2. r # 0 => g[r - 1] = h[r - 1]
      BY <2>1
    <3> HIDE DEF g
    <3>3. QED BY <3>1, <3>2 DEF Holding
  <2>2. CASE r = k
    <3>1. g[r] = Holding(h, filed, k) /\ g[k - 1] = h[k - 1]
      BY <1>3, <2>2
    <3> HIDE DEF g
    <3>2. QED BY <1>3, <2>2, <3>1 DEF Holding
  <2>3. QED BY <2>1, <2>2
<1>6. g = [r \in 0..k |-> Holding(g, filed, r)]
  <2>1. g = [r \in 0..k |-> g[r]]
    OBVIOUS
  <2> HIDE DEF g
  <2>2. QED BY <1>5, <2>1
<1>7. QED BY <1>2, <1>6 DEF Reading

\* Of the rounds up to r that were filed, `held` is the highest, 0 if there is none.
HighestUpTo(held, filed, r) ==
  /\ held \in 0..r
  /\ held # 0 => held \in Round /\ filed[held] # 0
  /\ \A q \in Round : q <= r /\ filed[q] # 0 => q <= held

LEMMA LatestIsHighest ==
  ASSUME NEW filed \in [Round -> Nat]
  PROVE  HighestUpTo(Latest(filed), filed, 9)
<1> DEFINE H == CHOOSE h : Reading(h, filed, 9)
<1>1. Latest(filed) = H[9]
  BY DEF Latest, Reading, Holding
<1>2. Reading(H, filed, 9)
  BY ReadingExists
<1> HIDE DEF H
<1> DEFINE Bad == {r \in 0..9 : ~HighestUpTo(H[r], filed, r)}
<1>3. SUFFICES ASSUME Bad # {} PROVE FALSE
  BY <1>1
<1>4. PICK r \in Bad : \A j \in Bad : r <= j
  <2>1. Bad \in SUBSET Nat
    OBVIOUS
  <2> HIDE DEF Bad
  <2>2. QED BY <1>3, <2>1, LeastNatural
<1>5. H[r] = Holding(H, filed, r) /\ r \in Nat /\ Round \subseteq 1..9
  BY <1>2, <1>4, ViewsAssumption DEF Reading
<1>6. CASE r = 0
  <2>1. HighestUpTo(0, filed, 0)
    BY <1>5 DEF HighestUpTo
  <2>2. H[r] = 0
    BY <1>5, <1>6 DEF Holding
  <2>3. QED BY <1>4, <1>6, <2>1, <2>2
<1>7. CASE r # 0
  <2>1. HighestUpTo(H[r - 1], filed, r - 1)
    <3>1. r - 1 \in 0..9 /\ r - 1 \notin Bad
      BY <1>4, <1>7
    <3>2. QED BY <3>1
  <2>2. CASE r \in Round /\ filed[r] # 0
    <3>1. Supersedes(filed, r, H[r - 1])
      BY <1>5, <1>7, <2>1 DEF Supersedes, HighestUpTo
    <3>2. H[r] = r
      BY <1>5, <1>7, <2>2, <3>1 DEF Holding
    <3>3. HighestUpTo(r, filed, r)
      BY <1>5, <1>7, <2>2 DEF HighestUpTo
    <3>4. QED BY <1>4, <3>2, <3>3
  <2>3. CASE ~(r \in Round /\ filed[r] # 0)
    <3>1. H[r] = H[r - 1]
      BY <1>5, <1>7, <2>3 DEF Holding
    <3>2. HighestUpTo(H[r - 1], filed, r)
      BY <1>5, <1>7, <2>1, <2>3 DEF HighestUpTo
    <3>3. QED BY <1>4, <3>1, <3>2
  <2>4. QED BY <2>2, <2>3
<1>8. QED BY <1>6, <1>7

\* The card and the pricing take the same answer.
LEMMA LatestIsNewest ==
  ASSUME NEW filed \in [Round -> Nat], Latest(filed) # 0
  PROVE  filed[Latest(filed)] = Newest(filed)
<1> DEFINE Top(r) == r \in Round /\ filed[r] # 0 /\ \A q \in Round : filed[q] # 0 => q <= r
<1>1. Round \subseteq 1..9
  BY ViewsAssumption
<1>2. Top(Latest(filed))
  BY <1>1, LatestIsHighest DEF HighestUpTo
<1>3. \A r, q : Top(r) /\ Top(q) => r = q
  BY <1>1
<1>4. Latest(filed) = CHOOSE r \in Round : filed[r] # 0 /\ \A q \in Round : filed[q] # 0 => q <= r
  <2>1. Top(CHOOSE r : Top(r))
    BY <1>2
  <2>2. Latest(filed) = CHOOSE r : Top(r)
    BY <1>2, <1>3, <2>1
  <2>3. QED BY <2>2
<1>5. ~ \A r \in Round : filed[r] = 0
  BY <1>2
<1>6. QED BY <1>4, <1>5 DEF Newest

\* The answer on the screen of a supplier is the one the backend would price,
\* in whatever order its rounds were filed and filed again (claim-cards.tsx;
\* _latest_claims of backend/decide/run.py).
THEOREM CardsAndPricesAgree == Spec => []CardsShowTheRoundPriced
<1>1. PagesInv => CardsShowTheRoundPriced
  <2> SUFFICES ASSUME PagesInv, page.snapshot # Nothing PROVE CardsShowTheRoundPriced
    BY DEF CardsShowTheRoundPriced
  <2> DEFINE claims == page.snapshot.claims
  <2>1. claims \in Claims /\ DOMAIN page.snapshot.candidates \subseteq Supplier
    BY DEF PagesInv, PageInv, Shaped
  <2>2. ASSUME NEW s \in Supplier, Latest(claims[s]) # 0
        PROVE  claims[s][Latest(claims[s])] = Newest(claims[s])
    BY <2>1, <2>2, LatestIsNewest DEF Claims
  <2>3. CockpitScreen.calls.cards = [s \in Answered(claims) |-> Latest(claims[s])]
    BY DEF CockpitScreen, ClaimCards
  <2>4. CaseScreen.calls = [s \in DOMAIN page.snapshot.candidates |-> Latest(claims[s])]
    BY DEF CaseScreen
  <2>5. Answered(claims) \subseteq Supplier
    BY DEF Answered
  <2> DEFINE shown == IF page.on = "cockpit" THEN CockpitScreen.calls.cards ELSE CaseScreen.calls
  <2>6. ASSUME NEW s \in DOMAIN shown PROVE s \in Supplier /\ shown[s] = Latest(claims[s])
    BY <2>1, <2>3, <2>4, <2>5
  <2> HIDE DEF shown
  <2>7. \A s \in DOMAIN shown : shown[s] # 0 => claims[s][shown[s]] = Newest(claims[s])
    BY <2>2, <2>6
  <2>8. QED BY <2>7 DEF CardsShowTheRoundPriced, shown
<1>2. QED BY <1>1, PagesInit, PagesNext, PTL DEF Spec

-----------------------------------------------------------------------------
(***************************************************************************)
(* The buttons.                                                            *)
(*                                                                         *)
(* As long as no chain was begun across another, there is at most one, and *)
(* the button that is dead is its own: so pressing another one would be    *)
(* beginning a chain across it.                                            *)
(***************************************************************************)

ChainsInv ==
  /\ source # "live" => acts = {}
  /\ page.on = "inventory" => acts = {}
  /\ ~across => /\ \A a \in acts : page.busy = a.key
                /\ \A a, b \in acts : a = b

LEMMA ChainsNext == PagesInv /\ ChainsInv /\ [Next]_vars => ChainsInv'
<1> SUFFICES ASSUME PagesInv, ChainsInv, [Next]_vars PROVE ChainsInv'
  OBVIOUS
<1>0. DOMAIN page = PageFields /\ \A a \in acts : DOMAIN a = ChainFields
  BY DEF PagesInv, PageInv, ActsInv, ActOK
<1>1. ASSUME UNCHANGED <<source, across>>, acts' \subseteq acts, page'.on = page.on,
             page'.busy = page.busy \/ acts' = {}
      PROVE  ChainsInv'
  BY <1>1 DEF ChainsInv
<1>2. ASSUME NEW on, NEW c, Go(on, c), UNCHANGED <<source, across>> PROVE ChainsInv'
  BY <1>2 DEF Go, ChainsInv
<1>3. CASE OthersWork \/ Poll \/ ServeRead
  BY <1>1, <1>3 DEF OthersWork, Poll, ServeRead
<1>4. CASE Visit
  BY <1>2, <1>4 DEF Visit
<1>5. CASE Trigger
  <2>1. page.on = "inventory" /\ UNCHANGED <<source, across, acts>>
        /\ \E c : page' = [page EXCEPT !.busy = c, !.error = FALSE]
    BY <1>5 DEF Trigger
  <2>2. page'.on = page.on /\ acts = {}
    BY <1>0, <2>1 DEF PageFields, ChainsInv
  <2>3. QED BY <1>1, <2>1, <2>2
<1>6. CASE Triggered
  <2>1. page.on = "inventory" /\ acts = {} /\ UNCHANGED <<source, across>>
    BY <1>6 DEF Triggered, ChainsInv
  <2>2. CASE Go("case", page.busy)
    BY <1>2, <2>1, <2>2
  <2>3. CASE page' = [page EXCEPT !.error = TRUE, !.busy = Nobody] /\ UNCHANGED acts
    BY <1>0, <1>1, <2>1, <2>3 DEF PageFields
  <2>4. QED BY <1>6, <2>2, <2>3 DEF Triggered
<1>7. CASE SelectCase
  <2>1. page.on = "cockpit" /\ UNCHANGED <<source, across, acts>>
    BY <1>7 DEF SelectCase
  <2>2. CASE source = "fixtures"
    <3>1. PICK c : page' = Blank("cockpit", c)
      BY <1>7, <2>2 DEF SelectCase
    <3>2. page'.on = "cockpit"
      BY <3>1 DEF Blank
    <3>3. QED BY <1>1, <2>1, <2>2, <3>2 DEF ChainsInv
  <2>3. CASE source # "fixtures"
    <3>1. PICK c : page' = [page EXCEPT !.case = c, !.running = FALSE]
      BY <1>7, <2>3 DEF SelectCase
    <3>2. page'.on = page.on /\ page'.busy = page.busy
      BY <1>0, <3>1 DEF PageFields
    <3>3. QED BY <1>1, <2>1, <3>2
  <2>4. QED BY <2>2, <2>3
<1>8. CASE Fail
  <2>1. PICK read \in reads : page' = Lost(read)
    BY <1>8 DEF Fail
  <2>2. page'.on = page.on /\ page'.busy = page.busy
    BY <1>0, <2>1 DEF Lost, PageFields
  <2>3. QED BY <1>1, <1>8, <2>2 DEF Fail
<1>9. ASSUME NEW kind \in Kinds, Arrive(kind) PROVE ChainsInv'
  <2>1. PICK read \in reads : page' = Show(read)
    BY <1>9 DEF Arrive
  <2>2. page'.on = page.on /\ page'.busy = page.busy
    BY <1>0, <2>1 DEF Show, PageFields
  <2>3. QED BY <1>1, <1>9, <2>2 DEF Arrive
<1>10. CASE LaunchReplay \/ ReplayEvent
  <2>1. page'.on = page.on /\ page'.busy = page.busy
    BY <1>0, <1>10 DEF LaunchReplay, ReplayEvent, PageFields
  <2>2. QED BY <1>1, <1>10, <2>1 DEF LaunchReplay, ReplayEvent
<1>11. CASE Press
  <2>1. page.on = "cockpit" /\ source = "live" /\ source' = source
    BY <1>11 DEF Press
  <2>2. PICK key \in Buttons :
          /\ acts' = acts \cup {Chain(key, page.case, IF key = "run" THEN page.snapshot.incumbent ELSE key)}
          /\ page' = [page EXCEPT !.busy = key, !.error = FALSE, !.running = @ \/ key = "run"]
          /\ across' = (across \/ \E a \in acts : a.key # key \/ a.case # page.case)
    BY <1>11 DEF Press
  <2>3. page'.on = "cockpit" /\ page'.busy = key /\ key # page.busy
    BY <1>0, <2>1, <2>2 DEF PageFields, Buttons
  <2>4. ~across' => acts = {}
    BY <2>2, <2>3 DEF ChainsInv
  <2>5. PICK b : b = Chain(key, page.case, IF key = "run" THEN page.snapshot.incumbent ELSE key)
    OBVIOUS
  <2>6. b.key = key /\ acts' = acts \cup {b}
    BY <2>2, <2>5 DEF Chain
  <2>7. QED BY <2>1, <2>3, <2>4, <2>6 DEF ChainsInv
<1>12. ASSUME NEW a \in acts, NEW b, b.key = a.key, acts' = (acts \ {a}) \cup {b},
              page'.on = page.on, page'.busy = page.busy, UNCHANGED <<source, across>>
       PROVE  ChainsInv'
  BY <1>12 DEF ChainsInv
<1>13. ASSUME NEW a \in acts, NEW stage, Moved(a, stage), page'.on = page.on,
              page'.busy = page.busy, UNCHANGED <<source, across>>
       PROVE  ChainsInv'
  <2>1. PICK b : b = [a EXCEPT !.stage = stage, !.value = Nothing]
    OBVIOUS
  <2>2. b.key = a.key /\ acts' = (acts \ {a}) \cup {b}
    BY <1>0, <1>13, <2>1 DEF Moved, ChainFields
  <2>3. QED BY <1>12, <1>13, <2>2
<1>14. ASSUME NEW a \in acts, acts' = acts \ {a}, page'.on = page.on, UNCHANGED <<source, across>>
       PROVE  ChainsInv'
  BY <1>14 DEF ChainsInv
<1>15. CASE ServeAct
  <2>1. UNCHANGED <<source, across>>
    BY <1>15 DEF ServeAct
  <2>2. PICK a \in acts :
          \/ (\E stage : Moved(a, stage)) /\ UNCHANGED page
          \/ UNCHANGED <<acts, page>>
          \/ acts' = acts \ {a} /\ page' = [page EXCEPT !.error = TRUE, !.busy = Nobody]
    BY <1>15 DEF ServeAct
  <2>3. CASE acts' = acts \ {a} /\ page' = [page EXCEPT !.error = TRUE, !.busy = Nobody]
    BY <1>0, <1>14, <2>1, <2>3 DEF PageFields
  <2>4. QED BY <1>1, <1>13, <2>1, <2>2, <2>3
<1>16. CASE ReadBack
  <2>1. UNCHANGED <<source, across>>
    BY <1>16 DEF ReadBack
  <2>2. PICK a \in acts :
          \/ /\ UNCHANGED page
             /\ acts' = (acts \ {a}) \cup {[a EXCEPT !.stage = "half", !.value = Half(a.case)]}
          \/ /\ Moved(a, "shown")
             /\ page' = [page EXCEPT !.snapshot = [a.value EXCEPT !.claims = server[a.case].claims]]
    BY <1>16 DEF ReadBack
  <2>3. CASE /\ UNCHANGED page
             /\ acts' = (acts \ {a}) \cup {[a EXCEPT !.stage = "half", !.value = Half(a.case)]}
    <3>1. PICK b : b = [a EXCEPT !.stage = "half", !.value = Half(a.case)]
      OBVIOUS
    <3>2. b.key = a.key
      BY <1>0, <3>1 DEF ChainFields
    <3>3. QED BY <1>12, <2>1, <2>3, <3>1, <3>2
  <2>4. CASE /\ Moved(a, "shown")
             /\ page' = [page EXCEPT !.snapshot = [a.value EXCEPT !.claims = server[a.case].claims]]
    <3>1. page'.on = page.on /\ page'.busy = page.busy
      BY <1>0, <2>4 DEF PageFields
    <3>2. QED BY <1>13, <2>1, <2>4, <3>1
  <2>5. QED BY <2>2, <2>3, <2>4
<1>17. CASE Finish
  <2>1. PICK a \in acts :
          /\ acts' = acts \ {a}
          /\ \/ page' = [page EXCEPT !.busy = Nobody]
             \/ page' = [page EXCEPT !.error = TRUE, !.busy = Nobody]
    BY <1>17 DEF Finish
  <2>2. page'.on = page.on
    BY <1>0, <2>1 DEF PageFields
  <2>3. QED BY <1>14, <1>17, <2>1, <2>2 DEF Finish
<1>18. CASE UNCHANGED vars
  BY <1>1, <1>18 DEF vars
<1>19. QED BY <1>3, <1>4, <1>5, <1>6, <1>7, <1>8, <1>9, <1>10, <1>11, <1>15, <1>16, <1>17, <1>18 DEF Next

\* A button never runs twice for the same case at the same time, unless another
\* button, or a button for another case, was pressed meanwhile (act,
\* ui/app/cockpit/page.tsx).
THEOREM TwiceTakesAnotherButton == Spec => []TwiceOnlyAcross
<1>1. Init => ChainsInv
  BY DEF Init, ChainsInv
<1>2. ChainsInv => TwiceOnlyAcross
  BY DEF ChainsInv, TwiceOnlyAcross
<1>3. QED BY <1>1, <1>2, PagesInit, PagesNext, ChainsNext, PTL DEF Spec

=============================================================================

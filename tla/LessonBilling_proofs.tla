------------------------- MODULE LessonBilling_proofs -------------------------
(***************************************************************************)
(* LessonBilling for any lessons, payments, prices and requests.           *)
(*                                                                         *)
(* The first part says what a sum over a finite set is.  The provers have  *)
(* no induction over sets; its place is taken by a smallest counterexample:*)
(* if a claim fails for some part of a finite set, it fails for one all of *)
(* whose proper parts satisfy it.  The parts after it are one inductive    *)
(* invariant, BillingInv, built up from the types, the live entries of a   *)
(* lesson and the money a record shows, and what follows from it: that a   *)
(* lesson is settled once, that a settlement is real, that money stays on  *)
(* its lesson and that the units of the package add up.                    *)
(***************************************************************************)
EXTENDS LessonBilling, FiniteSetTheorems, WellFoundedInduction, TLAPS

-----------------------------------------------------------------------------
(* Sums over finite sets.                                                  *)

\* Of subsets of a finite set, one has no other of them inside it.
LEMMA SmallestSubset ==
    ASSUME NEW S, IsFiniteSet(S), NEW Bad \in SUBSET (SUBSET S), Bad # {}
    PROVE  \E T \in Bad : \A U \in SUBSET T : U # T => U \notin Bad
<1>1. IsWellFoundedOn(StrictSubsetOrdering(S), FiniteSubsetsOf(S))
  BY FS_StrictSubsetOrderingWellFounded
<1>2. Bad \subseteq FiniteSubsetsOf(S)
  BY FS_Subset DEF FiniteSubsetsOf
<1>3. PICK T \in Bad : \A U \in Bad : ~(<<U, T>> \in StrictSubsetOrdering(S))
  BY <1>1, <1>2, WFMin
<1> QED
  BY <1>3 DEF StrictSubsetOrdering

Chosen(s) == CHOOSE x \in s : TRUE

\* g[s] is the sum over s, for every part s of S.
Sums(f, S, g) ==
    g = [s \in SUBSET S |-> IF s = {} THEN 0 ELSE f[Chosen(s)] + g[s \ {Chosen(s)}]]

LEMMA SumIsChosen ==
    ASSUME NEW f, NEW S
    PROVE  SumFunctionOnSet(f, S) = (CHOOSE g : Sums(f, S, g))[S]
BY DEF SumFunctionOnSet, FoldFunctionOnSet, MapThenFoldSet, Sums, Chosen

LEMMA ChosenIsIn == ASSUME NEW s, s # {} PROVE Chosen(s) \in s
BY DEF Chosen

LEMMA SumsAt ==
    ASSUME NEW f, NEW S, NEW g, Sums(f, S, g), NEW s \in SUBSET S
    PROVE  g[s] = IF s = {} THEN 0 ELSE f[Chosen(s)] + g[s \ {Chosen(s)}]
<1> DEFINE h == [t \in SUBSET S |-> IF t = {} THEN 0 ELSE f[Chosen(t)] + g[t \ {Chosen(t)}]]
<1>1. g = h
  BY DEF Sums
<1>2. h[s] = IF s = {} THEN 0 ELSE f[Chosen(s)] + g[s \ {Chosen(s)}]
  OBVIOUS
<1> QED
  BY <1>1, <1>2

LEMMA SumsAgree ==
    ASSUME NEW f, NEW S, NEW T, NEW g, NEW h, Sums(f, S, g), Sums(f, T, h),
           NEW R, IsFiniteSet(R), R \subseteq S, R \subseteq T
    PROVE  g[R] = h[R]
<1> DEFINE Bad == {s \in SUBSET R : g[s] # h[s]}
<1> SUFFICES ASSUME Bad # {} PROVE FALSE
  OBVIOUS
<1>1. PICK s \in Bad : \A u \in SUBSET s : u # s => u \notin Bad
  <2> HIDE DEF Bad
  <2>1. Bad \in SUBSET (SUBSET R)
    BY DEF Bad
  <2> QED
    BY <2>1, SmallestSubset
<1>2. /\ s \in SUBSET S /\ s \in SUBSET T /\ s \in SUBSET R
      /\ g[s] # h[s]
  OBVIOUS
<1>3. /\ g[s] = IF s = {} THEN 0 ELSE f[Chosen(s)] + g[s \ {Chosen(s)}]
      /\ h[s] = IF s = {} THEN 0 ELSE f[Chosen(s)] + h[s \ {Chosen(s)}]
  BY <1>2, SumsAt
<1>4. s # {}
  BY <1>2, <1>3
<1>5. s \ {Chosen(s)} \in SUBSET s /\ s \ {Chosen(s)} # s
  BY <1>4, ChosenIsIn
<1>6. g[s \ {Chosen(s)}] = h[s \ {Chosen(s)}]
  BY <1>1, <1>2, <1>5
<1> QED
  BY <1>2, <1>3, <1>4, <1>6

LEMMA SumsExist ==
    ASSUME NEW f, NEW S, IsFiniteSet(S)
    PROVE  \E g : Sums(f, S, g)
<1> DEFINE Bad == {s \in SUBSET S : ~\E g : Sums(f, s, g)}
<1> SUFFICES ASSUME Bad # {} PROVE FALSE
  OBVIOUS
<1>1. PICK T \in Bad : \A u \in SUBSET T : u # T => u \notin Bad
  <2> HIDE DEF Bad
  <2>1. Bad \in SUBSET (SUBSET S)
    BY DEF Bad
  <2> QED
    BY <2>1, SmallestSubset
<1>2. T \in SUBSET S /\ ~\E g : Sums(f, T, g)
  OBVIOUS
<1>3. \A u \in SUBSET T : u # T => Sums(f, u, CHOOSE g : Sums(f, u, g))
  BY <1>1, <1>2
<1> HIDE DEF Bad
<1> DEFINE part(u) == SumFunctionOnSet(f, u)
           g == [s \in SUBSET T |-> IF s = {} THEN 0
                                    ELSE f[Chosen(s)] + part(s \ {Chosen(s)})]
<1>4. \A u \in SUBSET T : u # T => part(u) = g[u]
  <2> SUFFICES ASSUME NEW u \in SUBSET T, u # T PROVE part(u) = g[u]
    OBVIOUS
  <2> DEFINE h == CHOOSE k : Sums(f, u, k)
             v == u \ {Chosen(u)}
             k == CHOOSE k : Sums(f, v, k)
  <2>1. part(u) = h[u] /\ part(v) = k[v]
    BY SumIsChosen
  <2>2. v \in SUBSET T /\ v # T
    OBVIOUS
  <2>3. Sums(f, u, h) /\ Sums(f, v, k)
    BY <1>3, <2>2
  <2>4. g[u] = IF u = {} THEN 0 ELSE f[Chosen(u)] + part(v)
    OBVIOUS
  <2> HIDE DEF h, k, part, g
  <2>5. h[u] = IF u = {} THEN 0 ELSE f[Chosen(u)] + h[v]
    BY <2>3, SumsAt
  <2>6. IsFiniteSet(v) /\ v \subseteq u
    BY <1>2, FS_Subset
  <2>7. h[v] = k[v]
    BY <2>3, <2>6, SumsAgree
  <2> QED
    BY <2>1, <2>4, <2>5, <2>7
<1>5. Sums(f, T, g)
  <2>1. \A s \in SUBSET T : s # {} => part(s \ {Chosen(s)}) = g[s \ {Chosen(s)}]
    <3> SUFFICES ASSUME NEW s \in SUBSET T, s # {}
                 PROVE  part(s \ {Chosen(s)}) = g[s \ {Chosen(s)}]
      OBVIOUS
    <3>1. s \ {Chosen(s)} \in SUBSET T /\ s \ {Chosen(s)} # T
      BY ChosenIsIn
    <3> HIDE DEF part, g
    <3> QED
      BY <1>4, <3>1
  <2>2. g = [s \in SUBSET T |-> IF s = {} THEN 0 ELSE f[Chosen(s)] + g[s \ {Chosen(s)}]]
    BY <2>1
  <2> QED
    BY <2>2 DEF Sums
<1> QED
  BY <1>2, <1>5

LEMMA SumStep ==
    ASSUME NEW f, NEW S, IsFiniteSet(S)
    PROVE  SumFunctionOnSet(f, S) = IF S = {} THEN 0 ELSE f[Chosen(S)] + SumFunctionOnSet(f, S \ {Chosen(S)})
<1> DEFINE g == CHOOSE k : Sums(f, S, k)
           R == S \ {Chosen(S)}
           h == CHOOSE k : Sums(f, R, k)
<1>1. IsFiniteSet(R) /\ R \subseteq S
  BY FS_Subset
<1>2. Sums(f, S, g) /\ Sums(f, R, h)
  BY <1>1, SumsExist
<1>3. SumFunctionOnSet(f, S) = g[S] /\ SumFunctionOnSet(f, R) = h[R]
  BY SumIsChosen
<1> HIDE DEF g, h
<1>4. g[S] = IF S = {} THEN 0 ELSE f[Chosen(S)] + g[R]
  BY <1>2, SumsAt
<1>5. g[R] = h[R]
  BY <1>1, <1>2, SumsAgree
<1> QED
  BY <1>3, <1>4, <1>5

LEMMA SumIsNat ==
    ASSUME NEW S, IsFiniteSet(S), NEW f, \A x \in S : f[x] \in Nat
    PROVE  SumFunctionOnSet(f, S) \in Nat
<1> DEFINE Bad == {s \in SUBSET S : SumFunctionOnSet(f, s) \notin Nat}
<1> SUFFICES ASSUME Bad # {} PROVE FALSE
  OBVIOUS
<1>1. Bad \in SUBSET (SUBSET S)
  OBVIOUS
<1>2. PICK s \in Bad : \A u \in SUBSET s : u # s => u \notin Bad
  <2> HIDE DEF Bad
  <2> QED
    BY <1>1, SmallestSubset
<1>3. s \in SUBSET S /\ SumFunctionOnSet(f, s) \notin Nat /\ IsFiniteSet(s)
  BY FS_Subset
<1>4. SumFunctionOnSet(f, s) = IF s = {} THEN 0 ELSE f[Chosen(s)] + SumFunctionOnSet(f, s \ {Chosen(s)})
  BY <1>3, SumStep
<1>5. s # {} /\ Chosen(s) \in s
  BY <1>3, <1>4, ChosenIsIn
<1>6. SumFunctionOnSet(f, s \ {Chosen(s)}) \in Nat
  BY <1>2, <1>3, <1>5
<1> QED
  BY <1>3, <1>4, <1>5, <1>6

\* Any element may be taken out first.
LEMMA SumRemove ==
    ASSUME NEW S, IsFiniteSet(S), NEW f, \A x \in S : f[x] \in Nat, NEW y \in S
    PROVE  SumFunctionOnSet(f, S) = f[y] + SumFunctionOnSet(f, S \ {y})
<1> DEFINE Odd(s) == \E z \in s : SumFunctionOnSet(f, s) # f[z] + SumFunctionOnSet(f, s \ {z})
           Bad == {s \in SUBSET S : Odd(s)}
<1> SUFFICES ASSUME Bad # {} PROVE FALSE
  OBVIOUS
<1>1. Bad \in SUBSET (SUBSET S)
  OBVIOUS
<1>2. PICK s \in Bad : \A u \in SUBSET s : u # s => u \notin Bad
  <2> HIDE DEF Bad
  <2> QED
    BY <1>1, SmallestSubset
<1>3. s \in SUBSET S /\ IsFiniteSet(s)
  BY FS_Subset
<1>4. PICK z \in s : SumFunctionOnSet(f, s) # f[z] + SumFunctionOnSet(f, s \ {z})
  OBVIOUS
<1> DEFINE c == Chosen(s)
<1>5. c \in s /\ SumFunctionOnSet(f, s) = f[c] + SumFunctionOnSet(f, s \ {c})
  BY <1>3, <1>4, SumStep, ChosenIsIn
<1> HIDE DEF c
<1>6. \A u \in SUBSET s : u # s => \A x \in u : SumFunctionOnSet(f, u) = f[x] + SumFunctionOnSet(f, u \ {x})
  BY <1>2, <1>3
<1> HIDE DEF Bad, Odd
<1>7. c # z
  BY <1>4, <1>5
<1>8. PICK r \in SUBSET S : r = (s \ {c}) \ {z} /\ r = (s \ {z}) \ {c}
  BY <1>3
<1>9. SumFunctionOnSet(f, s \ {c}) = f[z] + SumFunctionOnSet(f, r) /\ SumFunctionOnSet(f, s \ {z}) = f[c] + SumFunctionOnSet(f, r)
  <2>1. s \ {c} \in SUBSET s /\ s \ {c} # s /\ z \in s \ {c}
    BY <1>5, <1>7
  <2>2. s \ {z} \in SUBSET s /\ s \ {z} # s /\ c \in s \ {z}
    BY <1>5, <1>7
  <2> QED
    BY <1>6, <1>8, <2>1, <2>2
<1>10. f[c] \in Nat /\ f[z] \in Nat /\ SumFunctionOnSet(f, r) \in Nat
  BY <1>3, <1>5, FS_Subset, SumIsNat
<1>11. \A i, j, k \in Nat : i + (j + k) = j + (i + k)
  OBVIOUS
<1>12. SumFunctionOnSet(f, s) = f[c] + (f[z] + SumFunctionOnSet(f, r))
  BY <1>5, <1>9
<1>13. SumFunctionOnSet(f, s) # f[z] + (f[c] + SumFunctionOnSet(f, r))
  BY <1>4, <1>9
<1> QED
  BY <1>10, <1>11, <1>12, <1>13

\* Sums of two functions that agree.
LEMMA SumSame ==
    ASSUME NEW S, IsFiniteSet(S), NEW f, NEW g, \A x \in S : f[x] = g[x]
    PROVE  SumFunctionOnSet(f, S) = SumFunctionOnSet(g, S)
<1> DEFINE Bad == {s \in SUBSET S : SumFunctionOnSet(f, s) # SumFunctionOnSet(g, s)}
<1> SUFFICES ASSUME Bad # {} PROVE FALSE
  OBVIOUS
<1>1. Bad \in SUBSET (SUBSET S)
  OBVIOUS
<1>2. PICK s \in Bad : \A u \in SUBSET s : u # s => u \notin Bad
  <2> HIDE DEF Bad
  <2> QED
    BY <1>1, SmallestSubset
<1>3. s \in SUBSET S /\ SumFunctionOnSet(f, s) # SumFunctionOnSet(g, s) /\ IsFiniteSet(s)
  BY FS_Subset
<1>4. /\ SumFunctionOnSet(f, s) = IF s = {} THEN 0 ELSE f[Chosen(s)] + SumFunctionOnSet(f, s \ {Chosen(s)})
      /\ SumFunctionOnSet(g, s) = IF s = {} THEN 0 ELSE g[Chosen(s)] + SumFunctionOnSet(g, s \ {Chosen(s)})
  BY <1>3, SumStep
<1>5. s # {} /\ Chosen(s) \in s
  BY <1>3, <1>4, ChosenIsIn
<1>6. SumFunctionOnSet(f, s \ {Chosen(s)}) = SumFunctionOnSet(g, s \ {Chosen(s)})
  BY <1>2, <1>3, <1>5
<1> QED
  BY <1>3, <1>4, <1>5, <1>6

\* The sum of two functions, one point at a time.
LEMMA SumAdds ==
    ASSUME NEW S, IsFiniteSet(S), NEW f, NEW g, NEW h,
           \A x \in S : f[x] \in Nat /\ g[x] \in Nat /\ h[x] = f[x] + g[x]
    PROVE  SumFunctionOnSet(h, S) = SumFunctionOnSet(f, S) + SumFunctionOnSet(g, S)
<1> DEFINE Bad == {s \in SUBSET S : SumFunctionOnSet(h, s) # SumFunctionOnSet(f, s) + SumFunctionOnSet(g, s)}
<1> SUFFICES ASSUME Bad # {} PROVE FALSE
  OBVIOUS
<1>1. Bad \in SUBSET (SUBSET S)
  OBVIOUS
<1>2. PICK s \in Bad : \A u \in SUBSET s : u # s => u \notin Bad
  <2> HIDE DEF Bad
  <2> QED
    BY <1>1, SmallestSubset
<1>3. s \in SUBSET S /\ SumFunctionOnSet(h, s) # SumFunctionOnSet(f, s) + SumFunctionOnSet(g, s) /\ IsFiniteSet(s)
  BY FS_Subset
<1> DEFINE c == Chosen(s)
           r == s \ {c}
<1>4. /\ SumFunctionOnSet(f, s) = IF s = {} THEN 0 ELSE f[c] + SumFunctionOnSet(f, r)
      /\ SumFunctionOnSet(g, s) = IF s = {} THEN 0 ELSE g[c] + SumFunctionOnSet(g, r)
      /\ SumFunctionOnSet(h, s) = IF s = {} THEN 0 ELSE h[c] + SumFunctionOnSet(h, r)
  BY <1>3, SumStep
<1>5. s # {} /\ c \in s
  BY <1>3, <1>4, ChosenIsIn
<1>6. r \in SUBSET s /\ r # s /\ IsFiniteSet(r) /\ r \subseteq S
  BY <1>3, <1>5, FS_Subset
<1>7. SumFunctionOnSet(h, r) = SumFunctionOnSet(f, r) + SumFunctionOnSet(g, r)
  BY <1>2, <1>3, <1>6
<1>8. SumFunctionOnSet(f, r) \in Nat /\ SumFunctionOnSet(g, r) \in Nat
  BY <1>6, SumIsNat
<1> HIDE DEF c, r, Bad
<1>9. f[c] \in Nat /\ g[c] \in Nat /\ h[c] = f[c] + g[c]
  BY <1>3, <1>5
<1> QED
  BY <1>3, <1>4, <1>5, <1>7, <1>8, <1>9

\* One value is replaced.
LEMMA SumReplaces ==
    ASSUME NEW S, IsFiniteSet(S), NEW f, NEW g, NEW y \in S,
           \A x \in S : f[x] \in Nat /\ g[x] \in Nat,
           \A x \in S \ {y} : g[x] = f[x], f[y] = 0
    PROVE  SumFunctionOnSet(g, S) = SumFunctionOnSet(f, S) + g[y]
<1>1. IsFiniteSet(S \ {y})
  BY FS_Subset
<1>2. SumFunctionOnSet(f, S) = f[y] + SumFunctionOnSet(f, S \ {y}) /\ SumFunctionOnSet(g, S) = g[y] + SumFunctionOnSet(g, S \ {y})
  BY SumRemove
<1>3. SumFunctionOnSet(f, S \ {y}) = SumFunctionOnSet(g, S \ {y})
  BY <1>1, SumSame
<1>4. SumFunctionOnSet(f, S \ {y}) \in Nat
  BY <1>1, SumIsNat
<1> QED
  BY <1>2, <1>3, <1>4

\* A sum of zero has no other addends.
LEMMA SumZero ==
    ASSUME NEW S, IsFiniteSet(S), NEW f, \A x \in S : f[x] \in Nat
    PROVE  SumFunctionOnSet(f, S) = 0 <=> \A x \in S : f[x] = 0
<1>1. ASSUME SumFunctionOnSet(f, S) = 0, NEW x \in S PROVE f[x] = 0
  <2>1. SumFunctionOnSet(f, S) = f[x] + SumFunctionOnSet(f, S \ {x})
    BY SumRemove
  <2>2. SumFunctionOnSet(f, S \ {x}) \in Nat
    BY FS_Subset, SumIsNat
  <2> QED
    BY <1>1, <2>1, <2>2
<1>2. ASSUME \A x \in S : f[x] = 0 PROVE SumFunctionOnSet(f, S) = 0
  <2>1. SumFunctionOnSet(f, S) = SumFunctionOnSet(f, S) + SumFunctionOnSet(f, S)
    BY <1>2, SumAdds
  <2>2. SumFunctionOnSet(f, S) \in Nat
    BY SumIsNat
  <2>3. \A n \in Nat : n = n + n => n = 0
    OBVIOUS
  <2> QED
    BY <2>1, <2>2, <2>3
<1> QED
  BY <1>1, <1>2

-----------------------------------------------------------------------------
(* Types.                                                                  *)

\* A cancellation has listed entries of its lesson.
Listed ==
    \A q \in Requests :
        request[q].step = "undoing" => request[q].entries \subseteq EntriesOf(request[q].lesson)

TypeInv == TypeOK /\ Listed

LEMMA LedgerFacts ==
    ASSUME TypeOK
    PROVE  /\ ledger \in Seq(Entries) /\ Len(ledger) \in Nat
           /\ DOMAIN ledger = 1 .. Len(ledger)
           /\ \A i \in DOMAIN ledger :
                 /\ ledger[i] \in Entries
                 /\ ledger[i].lesson \in Lessons /\ ledger[i].kind \in {"charge", "unit"}
                 /\ ledger[i].auto \in BOOLEAN
                 /\ ledger[i].cleared \in Nat /\ ledger[i].undone \in Nat
           /\ IsFiniteSet(DOMAIN ledger)
<1>1. ledger \in Seq(Entries) /\ Len(ledger) \in Nat /\ DOMAIN ledger = 1 .. Len(ledger)
  BY DEF TypeOK
<1>2. \A i \in DOMAIN ledger : ledger[i] \in Entries
  BY <1>1
<1>3. IsFiniteSet(1 .. Len(ledger))
  BY <1>1, FS_Interval
<1> QED
  BY <1>1, <1>2, <1>3 DEF Entries

LEMMA RequestFacts ==
    ASSUME TypeOK, NEW q \in Requests
    PROVE  /\ request[q].step \in {"idle", "billing", "settling", "cancelling", "undoing"}
           /\ request[q].step # "idle" => request[q].lesson \in Lessons
           /\ request[q].step \in {"billing", "settling"} =>
                 /\ request[q].auto \in BOOLEAN
                 /\ request[q].event \in {"planned", "completed", "cancelled"}
           /\ request[q].step = "settling" =>
                 /\ request[q].unit \in BOOLEAN
                 /\ request[q].free \in Money
           /\ request[q].step \in {"cancelling", "undoing"} => request[q].copy \in Records
           /\ request[q].step = "undoing" =>
                 request[q].paid \in BOOLEAN /\ request[q].entries \in SUBSET Nat
<1>1. request[q] \in Working \cup {Idle}
  BY DEF TypeOK
<1> QED
  BY <1>1 DEF Working, Idle

\* The ledger after a reversal: the same entries, some of them reversed once more.
LEMMA UndoneFacts ==
    ASSUME TypeOK, NEW entries
    PROVE  /\ Undone(entries) \in Seq(Entries)
           /\ Len(Undone(entries)) = Len(ledger)
           /\ DOMAIN Undone(entries) = DOMAIN ledger
           /\ \A i \in DOMAIN ledger :
                 /\ Undone(entries)[i].lesson = ledger[i].lesson
                 /\ Undone(entries)[i].kind = ledger[i].kind
                 /\ Undone(entries)[i].undone = 0 <=> ledger[i].undone = 0 /\ i \notin entries
<1>1. /\ DOMAIN ledger = 1 .. Len(ledger) /\ Len(ledger) \in Nat
      /\ \A i \in DOMAIN ledger : ledger[i] \in Entries /\ ledger[i].undone \in Nat
  BY LedgerFacts
<1>2. \A i \in DOMAIN ledger : [ledger[i] EXCEPT !.undone = @ + 1] \in Entries
  BY <1>1 DEF Entries
<1>3. Undone(entries) \in [1 .. Len(ledger) -> Entries]
  BY <1>1, <1>2 DEF Undone
<1>4. Undone(entries) \in Seq(Entries) /\ Len(Undone(entries)) = Len(ledger)
  BY <1>1, <1>3
<1>5. ASSUME NEW i \in DOMAIN ledger
      PROVE  /\ Undone(entries)[i].lesson = ledger[i].lesson
             /\ Undone(entries)[i].kind = ledger[i].kind
             /\ Undone(entries)[i].undone = 0 <=> ledger[i].undone = 0 /\ i \notin entries
  <2>1. Undone(entries)[i] = IF i \in entries THEN [ledger[i] EXCEPT !.undone = @ + 1]
                                              ELSE ledger[i]
    BY DEF Undone
  <2> QED
    BY <1>1, <2>1 DEF Entries
<1> QED
  BY <1>1, <1>3, <1>4, <1>5

LEMMA EntryFacts ==
    ASSUME NEW l \in Lessons, NEW kind \in {"charge", "unit"}, NEW auto \in BOOLEAN,
           NEW cleared \in Nat
    PROVE  /\ Entry(l, kind, auto, cleared) \in Entries
           /\ Entry(l, kind, auto, cleared).lesson = l
           /\ Entry(l, kind, auto, cleared).kind = kind
           /\ Entry(l, kind, auto, cleared).undone = 0
BY DEF Entry, Entries

\* An entry that is appended, to a ledger of entries.
LEMMA AppendFacts ==
    ASSUME NEW book \in Seq(Entries), NEW e \in Entries
    PROVE  /\ Append(book, e) \in Seq(Entries)
           /\ DOMAIN book = 1 .. Len(book) /\ Len(book) \in Nat
           /\ DOMAIN Append(book, e) = (DOMAIN book) \cup {Len(book) + 1}
           /\ \A i \in DOMAIN book : Append(book, e)[i] = book[i]
           /\ Append(book, e)[Len(book) + 1] = e
           /\ Len(book) + 1 \notin DOMAIN book
OBVIOUS

LEMMA UnitsFacts ==
    ASSUME TypeOK, NEW entries, entries \subseteq DOMAIN ledger
    PROVE  /\ IsFiniteSet(entries)
           /\ IsFiniteSet({i \in entries : ledger[i].kind = "unit"})
           /\ UnitsIn(entries) \in Nat
<1>1. IsFiniteSet(entries) /\ IsFiniteSet({i \in entries : ledger[i].kind = "unit"})
  BY LedgerFacts, FS_Subset
<1> QED
  BY <1>1, FS_CardinalityType DEF UnitsIn

LEMMA PackageFacts ==
    ASSUME TypeOK, NEW left \in Nat
    PROVE  /\ PackageWith(left) \in [left : Nat, total : Nat,
                                     status : {"active", "exhausted", "cancelled"}]
           /\ PackageWith(left).left = left
           /\ PackageWith(left).total = package.total
<1> DEFINE status == CASE package.status = "active" /\ left = 0 -> "exhausted"
                       [] package.status = "exhausted" /\ left > 0 -> "active"
                       [] OTHER -> package.status
<1>1. package \in [left : Nat, total : Nat, status : {"active", "exhausted", "cancelled"}]
  BY DEF TypeOK
<1>2. status \in {"active", "exhausted", "cancelled"}
  BY <1>1
<1>3. PackageWith(left) = [package EXCEPT !.left = left, !.status = status]
  BY DEF PackageWith
<1> HIDE DEF status
<1> QED
  BY <1>1, <1>2, <1>3

LEMMA ReturnedFacts ==
    ASSUME TypeOK, NEW entries, entries \subseteq DOMAIN ledger
    PROVE  /\ Returned(entries) \in [left : Nat, total : Nat,
                                     status : {"active", "exhausted", "cancelled"}]
           /\ Returned(entries).left = package.left + UnitsIn(entries)
           /\ Returned(entries).total = package.total
<1>1. package.left \in Nat /\ UnitsIn(entries) \in Nat
  BY UnitsFacts DEF TypeOK
<1>2. package.left + UnitsIn(entries) \in Nat
  BY <1>1
<1> QED
  BY <1>2, PackageFacts DEF Returned

LEMMA AmountFacts ==
    ASSUME NEW a \in Nat, NEW b \in Nat
    PROVE  /\ Smaller(a, b) \in Nat /\ Smaller(a, b) <= a /\ Smaller(a, b) <= b
           /\ Above(a, b) \in Nat
BY DEF Smaller, Above

\* What sums of money there are, each a number.
LEMMA MoneyFacts ==
    ASSUME TypeOK
    PROVE  /\ \A p \in Payments, l \in Lessons : paid[p][l] \in Nat
           /\ \A l \in Lessons : MoneyOn(l) \in Nat
           /\ \A p \in Payments : Free(p) \in Nat
<1>1. \A p \in Payments, l \in Lessons : paid[p][l] \in Nat
  BY DEF TypeOK
<1>2. IsFiniteSet(Payments) /\ IsFiniteSet(Lessons)
  BY BillingAssumption
<1>3. ASSUME NEW l \in Lessons PROVE MoneyOn(l) \in Nat
  BY <1>1, <1>2, SumIsNat DEF MoneyOn
<1>4. ASSUME NEW p \in Payments PROVE Free(p) \in Nat
  <2>1. SumFunctionOnSet(paid[p], Lessons) \in Nat
    BY <1>1, <1>2, SumIsNat
  <2>2. amount[p] \in Nat
    BY DEF TypeOK
  <2> QED
    BY <2>1, <2>2, AmountFacts DEF Free
<1> QED
  BY <1>1, <1>3, <1>4

LEMMA TakenFacts ==
    ASSUME NEW free \in Money, NEW due \in Nat, NEW p \in Payments
    PROVE  TakenFrom(free, due, p) \in Nat /\ TakenFrom(free, due, p) <= free[p]
<1> DEFINE before == {k \in Payments : k < p}
<1>1. IsFiniteSet(before) /\ \A k \in before : free[k] \in Nat
  BY BillingAssumption, FS_Subset DEF Money
<1>2. SumFunctionOnSet(free, before) \in Nat /\ free[p] \in Nat
  BY <1>1, SumIsNat DEF Money
<1> QED
  BY <1>2, AmountFacts DEF TakenFrom

LEMMA RecordFacts ==
    ASSUME TypeOK, NEW l \in Lessons
    PROVE  /\ record[l] \in Records
           /\ record[l].charged \in Nat /\ record[l].paid \in Nat
           /\ record[l].finance \in Finance /\ record[l].delivery \in Delivery
           /\ record[l].final \in BOOLEAN /\ record[l].auto \in BOOLEAN
BY DEF TypeOK, Records

LEMMA FinanceFacts ==
    ASSUME NEW charged \in Nat, NEW money \in Nat
    PROVE  /\ FinanceFor(charged, money) \in Finance
           /\ FinanceFor(charged, money) \notin {"not_charged", "package", "not_billable"}
           /\ FinanceFor(charged, money) = "paid" => money >= charged
BY DEF FinanceFor, Finance, Unpaid

LEMMA GivenFacts ==
    ASSUME TypeOK, NEW sum \in Nat, NEW l \in Lessons
    PROVE  /\ Given(sum, l) \in Nat
           /\ Given(sum, l) # 0 => l \in Owing
<1>1. \A k \in Lessons : Debt[k] \in Nat
  <2>1. \A k \in Lessons : Above(record[k].charged, record[k].paid) \in Nat
    BY RecordFacts, AmountFacts
  <2> QED
    BY <2>1 DEF Debt
<1> DEFINE before == {k \in Lessons : k < l}
<1>2. IsFiniteSet(before) /\ \A k \in before : Debt[k] \in Nat
  BY <1>1, BillingAssumption, FS_Subset
<1>3. SumFunctionOnSet(Debt, before) \in Nat
  BY <1>2, SumIsNat
<1>4. Given(sum, l) \in Nat /\ Given(sum, l) <= Debt[l]
  BY <1>1, <1>3, AmountFacts DEF Given
<1>5. l \notin Owing => Debt[l] = 0
  BY DEF Debt
<1> QED
  BY <1>1, <1>4, <1>5

\* Only the money on the lesson is released, all of it or none.
LEMMA ReleasedFacts ==
    ASSUME TypeOK, NEW entries, NEW l \in Lessons
    PROVE  /\ Released(entries, l) \in [Payments -> [Lessons -> Nat]]
           /\ \A p \in Payments :
                 /\ \A k \in Lessons : k # l => Released(entries, l)[p][k] = paid[p][k]
                 /\ Released(entries, l)[p][l] \in {0, paid[p][l]}
<1>1. paid \in [Payments -> [Lessons -> Nat]]
  BY DEF TypeOK
<1>2. \/ Released(entries, l) = paid
      \/ Released(entries, l) = [p \in Payments |-> [paid[p] EXCEPT ![l] = 0]]
  BY DEF Released
<1> QED
  BY <1>1, <1>2

LEMMA InitTypes == Init => TypeInv
<1> SUFFICES ASSUME Init PROVE TypeInv
  OBVIOUS
<1>1. NewRecord \in Records
  BY DEF NewRecord, Records, Delivery, Finance
<1>2. \A q \in Requests : request[q] = Idle
  BY DEF Init
<1>3. Listed
  BY <1>2 DEF Listed, Idle
<1>4. package \in [left : Nat, total : Nat, status : {"active", "exhausted", "cancelled"}]
  BY BillingAssumption DEF Init
<1>5. ledger \in Seq(Entries)
  BY DEF Init
<1> QED
  BY <1>1, <1>2, <1>3, <1>4, <1>5 DEF Init, TypeInv, TypeOK

\* A request of any form is one that works.
LEMMA WorkFacts ==
    ASSUME NEW l \in Lessons, NEW auto \in BOOLEAN,
           NEW e \in {"planned", "completed", "cancelled"}
    PROVE  /\ [step |-> "billing", lesson |-> l, auto |-> auto, event |-> e] \in Working
           /\ \A unit \in BOOLEAN, free \in Money :
                 [step |-> "settling", lesson |-> l, auto |-> auto, unit |-> unit,
                  event |-> e, free |-> free] \in Working
           /\ \A copy \in Records :
                 [step |-> "cancelling", lesson |-> l, copy |-> copy] \in Working
           /\ \A copy \in Records, pays \in BOOLEAN, entries \in SUBSET Nat :
                 [step |-> "undoing", lesson |-> l, copy |-> copy, paid |-> pays,
                  entries |-> entries] \in Working
BY DEF Working

LEMMA EventTypes ==
    ASSUME TypeOK, NEW l \in Lessons, NEW e \in {"planned", "completed", "cancelled"},
           event' = event \/ event' = [event EXCEPT ![l] = e]
    PROVE  event' \in [Lessons -> {"planned", "completed", "cancelled"}]
BY DEF TypeOK

LEMMA RecordTypes ==
    ASSUME TypeOK, NEW l \in Lessons, NEW r \in Records,
           record' = [record EXCEPT ![l] = r]
    PROVE  record' \in [Lessons -> Records]
BY DEF TypeOK

LEMMA RequestTypes ==
    ASSUME TypeOK, NEW q \in Requests, NEW w \in Working \cup {Idle},
           request' = [request EXCEPT ![q] = w]
    PROVE  request' \in [Requests -> Working \cup {Idle}]
BY DEF TypeOK

LEMMA BeginTypes ==
    ASSUME TypeOK, NEW q \in Requests, NEW l \in Lessons,
           Complete(q, l) \/ AskBilling(q, l) \/ CancelReads(q, l)
    PROVE  TypeOK'
<1>1. begun' \in Nat
  BY DEF Complete, AskBilling, CancelReads, Begin, TypeOK
<1>2. event[l] \in {"planned", "completed", "cancelled"} /\ record[l] \in Records
  BY DEF TypeOK
<1>3. event' \in [Lessons -> {"planned", "completed", "cancelled"}]
  BY EventTypes DEF Complete, AskBilling, CancelReads
<1>4. \E w \in Working : request' = [request EXCEPT ![q] = w]
  BY <1>2, WorkFacts DEF Complete, AskBilling, CancelReads
<1>5. request' \in [Requests -> Working \cup {Idle}]
  BY <1>4, RequestTypes
<1> QED
  BY <1>1, <1>3, <1>5 DEF Complete, AskBilling, CancelReads, TypeOK

LEMMA LeaveTypes ==
    ASSUME TypeOK, NEW q \in Requests,
           LeaveBilling(q) \/ UnitGone(q) \/ CancelGivesUp(q) \/ LockVictim(q)
    PROVE  TypeOK'
<1>1. request' = [request EXCEPT ![q] = Idle]
  BY DEF LeaveBilling, UnitGone, CancelGivesUp, LockVictim
<1>2. event' \in [Lessons -> {"planned", "completed", "cancelled"}]
  BY RequestFacts DEF LeaveBilling, UnitGone, CancelGivesUp, LockVictim, TypeOK
<1> QED
  BY <1>1, <1>2, RequestTypes DEF LeaveBilling, UnitGone, CancelGivesUp, LockVictim, TypeOK

LEMMA LockTypes ==
    ASSUME TypeOK, NEW q \in Requests, LockForBilling(q)
    PROVE  TypeOK'
<1> DEFINE l == request[q].lesson
           free == [p \in Payments |-> Free(p)]
           w == [step |-> "settling", lesson |-> l, auto |-> request[q].auto,
                 unit |-> Usable, event |-> request[q].event, free |-> free]
<1>1. request[q].step = "billing" /\ request' = [request EXCEPT ![q] = w]
  BY DEF LockForBilling
<1>2. free \in Money
  BY MoneyFacts DEF Money
<1>3. Usable \in BOOLEAN
  BY DEF Usable
<1> HIDE DEF free
<1>4. w \in Working
  BY <1>1, <1>2, <1>3, RequestFacts, WorkFacts
<1> HIDE DEF w
<1>5. request' \in [Requests -> Working \cup {Idle}]
  BY <1>1, <1>4, RequestTypes
<1> QED
  BY <1>5 DEF LockForBilling, TypeOK

LEMMA EventWrittenTypes ==
    ASSUME TypeOK, NEW q \in Requests, request[q].step = "settling", EventWritten(q)
    PROVE  event' \in [Lessons -> {"planned", "completed", "cancelled"}]
BY RequestFacts, EventTypes DEF EventWritten

LEMMA BillUnitTypes ==
    ASSUME TypeOK, NEW q \in Requests, BillUnit(q)
    PROVE  TypeOK'
<1> DEFINE l == request[q].lesson
           e == Entry(l, "unit", request[q].auto, 0)
           r == [delivery |-> "conducted", finance |-> "package", charged |-> 0,
                 paid |-> 0, final |-> TRUE, auto |-> request[q].auto]
<1>1. /\ request[q].step = "settling" /\ Usable
      /\ ledger' = ledger \/ ledger' = Append(ledger, e)
      /\ package' = package \/ package' = PackageWith(package.left - 1)
      /\ record' = [record EXCEPT ![l] = r]
      /\ EventWritten(q) /\ request' = [request EXCEPT ![q] = Idle]
      /\ UNCHANGED <<amount, paid, begun>>
  BY DEF BillUnit
<1>2. l \in Lessons /\ request[q].auto \in BOOLEAN
  BY <1>1, RequestFacts
<1>3. e \in Entries /\ ledger \in Seq(Entries)
  BY <1>2, EntryFacts, LedgerFacts
<1>4. r \in Records
  BY <1>2 DEF Records, Delivery, Finance
<1> HIDE DEF e, r
<1>5. ledger' \in Seq(Entries)
  BY <1>1, <1>3, AppendFacts
<1>6. package.left - 1 \in Nat
  BY <1>1 DEF Usable, TypeOK
<1>7. package' \in [left : Nat, total : Nat, status : {"active", "exhausted", "cancelled"}]
  BY <1>1, <1>6, PackageFacts DEF TypeOK
<1>8. record' \in [Lessons -> Records]
  BY <1>1, <1>2, <1>4, RecordTypes
<1> QED
  BY <1>1, <1>5, <1>7, <1>8, EventWrittenTypes, RequestTypes DEF TypeOK

\* What a billing for money pays, charges and records.
LEMMA BillMoneyFacts ==
    ASSUME TypeOK, NEW q \in Requests, request[q].step = "settling"
    PROVE  LET due == Above(Price, record[request[q].lesson].paid)
               taken == [p \in Payments |-> TakenFrom(request[q].free, due, p)]
           IN  /\ taken \in Money
               /\ \A p \in Payments : taken[p] <= request[q].free[p]
               /\ SumFunctionOnSet(taken, Payments) \in Nat
<1> DEFINE due == Above(Price, record[request[q].lesson].paid)
           taken == [p \in Payments |-> TakenFrom(request[q].free, due, p)]
<1>1. request[q].lesson \in Lessons /\ request[q].free \in Money
  BY RequestFacts
<1>2. due \in Nat
  BY <1>1, RecordFacts, AmountFacts, BillingAssumption
<1> HIDE DEF due
<1>3. taken \in Money /\ \A p \in Payments : taken[p] <= request[q].free[p]
  BY <1>1, <1>2, TakenFacts DEF Money
<1> HIDE DEF taken
<1>4. SumFunctionOnSet(taken, Payments) \in Nat
  BY <1>3, SumIsNat, BillingAssumption DEF Money
<1> QED
  BY <1>3, <1>4 DEF due, taken

LEMMA BillMoneyTypes ==
    ASSUME TypeOK, NEW q \in Requests, BillMoney(q)
    PROVE  TypeOK'
<1> DEFINE l == request[q].lesson
           due == Above(Price, record[l].paid)
           taken == [p \in Payments |-> TakenFrom(request[q].free, due, p)]
           money == record[l].paid + SumFunctionOnSet(taken, Payments)
           e == Entry(l, "charge", request[q].auto, 0)
           r == [delivery |-> "conducted", finance |-> FinanceFor(Price, money),
                 charged |-> Price, paid |-> money, final |-> TRUE,
                 auto |-> request[q].auto]
<1>1. /\ request[q].step = "settling"
      /\ ledger' = ledger \/ ledger' = Append(ledger, e)
      /\ paid' = [p \in Payments |-> [paid[p] EXCEPT ![l] = @ + taken[p]]]
      /\ record' = [record EXCEPT ![l] = r]
      /\ EventWritten(q) /\ request' = [request EXCEPT ![q] = Idle]
      /\ UNCHANGED <<package, amount, begun>>
  BY DEF BillMoney
<1>2. l \in Lessons /\ request[q].auto \in BOOLEAN
  BY <1>1, RequestFacts
<1>3. taken \in Money /\ SumFunctionOnSet(taken, Payments) \in Nat
  BY <1>1, BillMoneyFacts
<1> HIDE DEF taken
<1>4. money \in Nat
  BY <1>2, <1>3, RecordFacts
<1>5. e \in Entries /\ ledger \in Seq(Entries)
  BY <1>2, EntryFacts, LedgerFacts
<1>6. r \in Records
  <2> HIDE DEF money
  <2> QED
    BY <1>2, <1>4, FinanceFacts, BillingAssumption DEF Records, Delivery
<1> HIDE DEF e, r, money
<1>7. ledger' \in Seq(Entries)
  BY <1>1, <1>5, AppendFacts
<1>8. paid' \in [Payments -> [Lessons -> Nat]]
  BY <1>1, <1>2, <1>3 DEF Money, TypeOK
<1>9. record' \in [Lessons -> Records]
  BY <1>1, <1>2, <1>6, RecordTypes
<1> QED
  BY <1>1, <1>7, <1>8, <1>9, EventWrittenTypes, RequestTypes DEF TypeOK

LEMMA UndoTypes ==
    ASSUME TypeOK, NEW l \in Lessons, SkipBilling(l) \/ Unfinalize(l)
    PROVE  TypeOK'
<1>1. ASSUME NEW entries, entries \subseteq DOMAIN ledger, NEW r \in Records,
             ledger' = Undone(entries), package' = Returned(entries),
             paid' = Released(entries, l), record' = [record EXCEPT ![l] = r],
             event' = event \/ event' = [event EXCEPT ![l] = "planned"],
             UNCHANGED <<amount, request, begun>>
      PROVE  TypeOK'
  BY <1>1, UndoneFacts, ReturnedFacts, ReleasedFacts, RecordTypes, EventTypes DEF TypeOK
<1>2. LiveEntries(l) \subseteq DOMAIN ledger /\ {} \subseteq DOMAIN ledger
  BY DEF LiveEntries, EntriesOf
<1>3. CASE SkipBilling(l)
  <2> DEFINE entries == IF HasPayment(l) THEN {} ELSE LiveEntries(l)
  <2>1. /\ ledger' = Undone(entries) /\ package' = Returned(entries)
        /\ paid' = Released(entries, l) /\ record' = [record EXCEPT ![l] = Skipped(l)]
        /\ UNCHANGED <<event, amount, request, begun>>
    BY <1>3 DEF SkipBilling
  <2>2. Skipped(l) \in Records
    BY RecordFacts DEF Skipped, Records, Delivery, Finance
  <2>3. entries \subseteq DOMAIN ledger
    BY <1>2
  <2> HIDE DEF entries
  <2> QED
    BY <1>1, <2>1, <2>2, <2>3
<1>4. CASE Unfinalize(l)
  <2>1. NewRecord \in Records
    BY DEF NewRecord, Records, Delivery, Finance
  <2>2. /\ ledger' = Undone(LiveEntries(l)) /\ package' = Returned(LiveEntries(l))
        /\ paid' = Released(LiveEntries(l), l) /\ record' = [record EXCEPT ![l] = NewRecord]
        /\ event' = [event EXCEPT ![l] = "planned"]
        /\ UNCHANGED <<amount, request, begun>>
    BY <1>4 DEF Unfinalize
  <2> QED
    BY <1>1, <1>2, <2>1, <2>2
<1> QED
  BY <1>3, <1>4

LEMMA SettleTypes ==
    ASSUME TypeOK, NEW l \in Lessons, SettleFromPackage(l)
    PROVE  TypeOK'
<1> DEFINE charges == LiveOf(l, "charge")
           e == Entry(l, "unit", FALSE, record[l].charged)
<1>1. /\ ledger' = Append(Undone(charges), e) /\ Usable
      /\ package' = PackageWith(package.left - 1)
      /\ record' = [record EXCEPT ![l].finance = "package", ![l].charged = 0,
                                  ![l].paid = 0, ![l].final = TRUE]
      /\ UNCHANGED <<event, amount, paid, request, begun>>
  BY DEF SettleFromPackage
<1>2. e \in Entries
  BY EntryFacts, RecordFacts
<1>3. Undone(charges) \in Seq(Entries)
  BY UndoneFacts
<1> HIDE DEF e, charges
<1>4. ledger' \in Seq(Entries)
  BY <1>1, <1>2, <1>3, AppendFacts
<1>5. package.left - 1 \in Nat
  BY <1>1 DEF Usable, TypeOK
<1>6. record' \in [Lessons -> Records]
  <2> DEFINE r == [record[l] EXCEPT !.finance = "package", !.charged = 0, !.paid = 0,
                                    !.final = TRUE]
  <2>1. record' = [record EXCEPT ![l] = r]
    BY <1>1 DEF TypeOK
  <2>2. r \in Records
    BY RecordFacts DEF Records, Finance
  <2> HIDE DEF r
  <2> QED
    BY <2>1, <2>2, RecordTypes
<1> QED
  BY <1>1, <1>4, <1>5, <1>6, PackageFacts DEF TypeOK

LEMMA RefundTypes ==
    ASSUME TypeOK, NEW l \in Lessons, RefundUnit(l)
    PROVE  TypeOK'
<1> DEFINE e == Entry(l, "charge", FALSE, 0)
<1>1. PICK i \in LiveOf(l, "unit") :
          /\ ledger' = IF ledger[i].cleared > 0 THEN Append(Undone({i}), e) ELSE Undone({i})
          /\ package' = Returned({i})
          /\ record' = [record EXCEPT
                ![l].finance = "awaiting", ![l].final = TRUE,
                ![l].charged = IF ledger[i].cleared > 0 THEN ledger[i].cleared ELSE @]
  BY DEF RefundUnit
<1>2. i \in DOMAIN ledger /\ ledger[i].cleared \in Nat
  BY LedgerFacts DEF LiveOf, EntriesOf
<1>3. e \in Entries /\ Undone({i}) \in Seq(Entries)
  BY EntryFacts, UndoneFacts
<1> HIDE DEF e
<1>4. ledger' \in Seq(Entries)
  BY <1>1, <1>3, AppendFacts
<1>5. record' \in [Lessons -> Records]
  <2> DEFINE charged == IF ledger[i].cleared > 0 THEN ledger[i].cleared ELSE record[l].charged
  <2>1. charged \in Nat
    BY <1>2, RecordFacts
  <2>2. record' = [record EXCEPT ![l] =
             [record[l] EXCEPT !.finance = "awaiting", !.final = TRUE, !.charged = charged]]
    BY <1>1 DEF TypeOK
  <2> HIDE DEF charged
  <2>3. [record[l] EXCEPT !.finance = "awaiting", !.final = TRUE, !.charged = charged] \in Records
    BY <2>1, RecordFacts DEF Records, Finance, Unpaid
  <2> QED
    BY <2>2, <2>3, RecordTypes
<1>6. UNCHANGED <<event, amount, paid, request, begun>>
  BY DEF RefundUnit
<1> QED
  BY <1>1, <1>2, <1>4, <1>5, <1>6, ReturnedFacts DEF TypeOK

\* What a payment of one lesson charges and pays.
LEMMA MarkFacts ==
    ASSUME TypeOK, NEW l \in Lessons
    PROVE  LET charged == IF record[l].charged > 0 THEN record[l].charged ELSE Price
               lacking == IF record[l].charged > record[l].paid
                          THEN record[l].charged - record[l].paid ELSE Price
               money == Smaller(lacking, Above(charged, record[l].paid))
           IN  charged \in Nat /\ lacking \in Nat /\ lacking > 0 /\ money \in Nat
<1> DEFINE charged == IF record[l].charged > 0 THEN record[l].charged ELSE Price
           lacking == IF record[l].charged > record[l].paid
                      THEN record[l].charged - record[l].paid ELSE Price
<1>1. charged \in Nat /\ lacking \in Nat /\ lacking > 0 /\ record[l].paid \in Nat
  BY RecordFacts, BillingAssumption
<1> HIDE DEF charged, lacking
<1>2. Smaller(lacking, Above(charged, record[l].paid)) \in Nat
  BY <1>1, AmountFacts
<1> QED
  BY <1>1, <1>2 DEF charged, lacking

LEMMA MarkTypes ==
    ASSUME TypeOK, NEW l \in Lessons, NEW p \in Payments, MarkPaid(l, p)
    PROVE  TypeOK'
<1> DEFINE charged == IF record[l].charged > 0 THEN record[l].charged ELSE Price
           lacking == IF record[l].charged > record[l].paid
                      THEN record[l].charged - record[l].paid ELSE Price
           money == Smaller(lacking, Above(charged, record[l].paid))
           finance == FinanceFor(charged, record[l].paid + money)
<1>1. charged \in Nat /\ lacking \in Nat /\ money \in Nat
  BY MarkFacts
<1>2. /\ amount' = [amount EXCEPT ![p] = lacking]
      /\ paid' = [paid EXCEPT ![p][l] = money]
      /\ record' = [record EXCEPT
               ![l].charged = charged, ![l].paid = @ + money, ![l].final = TRUE,
               ![l].finance = finance]
      /\ UNCHANGED <<event, ledger, package, request, begun>>
  BY DEF MarkPaid
<1>3. record[l].paid + money \in Nat
  BY <1>1, RecordFacts
<1>4. finance \in Finance
  BY <1>1, <1>3, FinanceFacts
<1> HIDE DEF charged, lacking, money, finance
<1>5. record' \in [Lessons -> Records]
  <2>1. record' = [record EXCEPT ![l] =
           [record[l] EXCEPT !.charged = charged, !.paid = record[l].paid + money,
                             !.final = TRUE, !.finance = finance]]
    BY <1>2 DEF TypeOK
  <2>2. [record[l] EXCEPT !.charged = charged, !.paid = record[l].paid + money,
                          !.final = TRUE, !.finance = finance] \in Records
    BY <1>1, <1>3, <1>4, RecordFacts DEF Records
  <2> QED
    BY <2>1, <2>2, RecordTypes
<1>6. amount' \in [Payments -> Nat] /\ paid' \in [Payments -> [Lessons -> Nat]]
  BY <1>1, <1>2 DEF TypeOK
<1> QED
  BY <1>2, <1>5, <1>6 DEF TypeOK

LEMMA RegisterTypes ==
    ASSUME TypeOK, NEW p \in Payments, NEW sum \in Amounts, RegisterPayment(p, sum)
    PROVE  TypeOK'
<1>1. sum \in Nat
  BY BillingAssumption
<1>2. \A l \in Lessons : Given(sum, l) \in Nat
  BY <1>1, GivenFacts
<1>3. amount' \in [Payments -> Nat]
  BY <1>1 DEF RegisterPayment, TypeOK
<1>4. paid' \in [Payments -> [Lessons -> Nat]]
  BY <1>2 DEF RegisterPayment, TypeOK
<1> DEFINE r(l) == [record[l] EXCEPT
                    !.paid = @ + Given(sum, l),
                    !.finance = FinanceFor(record[l].charged, record[l].paid + Given(sum, l))]
<1>5. \A l \in Lessons : r(l) \in Records
  <2> SUFFICES ASSUME NEW l \in Lessons PROVE r(l) \in Records
    OBVIOUS
  <2>1. record[l].paid + Given(sum, l) \in Nat /\ record[l].charged \in Nat
    BY <1>2, RecordFacts
  <2>2. FinanceFor(record[l].charged, record[l].paid + Given(sum, l)) \in Finance
    BY <2>1, FinanceFacts
  <2> QED
    BY <2>1, <2>2, RecordFacts DEF Records
<1>6. record' = [l \in Lessons |-> IF Given(sum, l) = 0 THEN record[l] ELSE r(l)]
  BY DEF RegisterPayment
<1> HIDE DEF r
<1>7. record' \in [Lessons -> Records]
  BY <1>5, <1>6, RecordFacts
<1> QED
  BY <1>3, <1>4, <1>7 DEF RegisterPayment, TypeOK

LEMMA RestTypes ==
    ASSUME TypeOK, CancelPackage \/ TopUp \/ \E l \in Lessons : Restore(l)
    PROVE  TypeOK'
<1>1. CASE CancelPackage
  <2>1. begun' \in Nat
    BY <1>1 DEF CancelPackage, TypeOK
  <2>2. package' \in [left : Nat, total : Nat, status : {"active", "exhausted", "cancelled"}]
    BY <1>1 DEF CancelPackage, TypeOK
  <2> QED
    BY <1>1, <2>1, <2>2 DEF CancelPackage, TypeOK
<1>2. CASE TopUp
  <2>1. package.left + 1 \in Nat /\ begun + 1 \in Nat /\ package.total + 1 \in Nat
    BY DEF TypeOK
  <2>2. package' = [PackageWith(package.left + 1) EXCEPT !.total = @ + 1]
    BY <1>2 DEF TopUp
  <2>3. PackageWith(package.left + 1).total + 1 \in Nat
    BY <2>1, PackageFacts
  <2>4. package' \in [left : Nat, total : Nat, status : {"active", "exhausted", "cancelled"}]
    BY <2>1, <2>2, <2>3, PackageFacts
  <2> QED
    BY <1>2, <2>1, <2>4 DEF TopUp, TypeOK
<1>3. ASSUME NEW l \in Lessons, Restore(l) PROVE TypeOK'
  BY <1>3 DEF Restore, TypeOK
<1> QED
  BY <1>1, <1>2, <1>3

LEMMA CancelTypes ==
    ASSUME TypeInv, NEW q \in Requests, CancelLists(q) \/ CancelKeepsPaid(q) \/ CancelUndoes(q)
    PROVE  TypeOK'
<1> DEFINE l == request[q].lesson
<1>a. TypeOK
  BY DEF TypeInv
<1>b. request[q].step # "idle"
  BY DEF CancelLists, CancelKeepsPaid, CancelUndoes
<1>c. l \in Lessons
  BY <1>a, <1>b, RequestFacts
<1>1. CASE CancelLists(q)
  <2> DEFINE w == [step |-> "undoing", lesson |-> l, copy |-> request[q].copy,
                   paid |-> request[q].copy.paid > 0 \/ MoneyOn(l) > 0,
                   entries |-> LiveEntries(l)]
  <2>1. LiveEntries(l) \in SUBSET Nat
    BY <1>a, LedgerFacts DEF LiveEntries, EntriesOf
  <2>2. request[q].copy \in Records /\ request' = [request EXCEPT ![q] = w]
    BY <1>1, <1>a, RequestFacts DEF CancelLists
  <2>3. (request[q].copy.paid > 0 \/ MoneyOn(l) > 0) \in BOOLEAN
    OBVIOUS
  <2>4. w \in Working
    BY <1>c, <2>1, <2>2, <2>3, WorkFacts
  <2> HIDE DEF w
  <2>5. request' \in [Requests -> Working \cup {Idle}]
    BY <1>a, <2>2, <2>4, RequestTypes
  <2> QED
    BY <1>1, <1>a, <2>5 DEF CancelLists, TypeOK
<1>2. \/ /\ request' \in [Requests -> Working \cup {Idle}]
         /\ event' \in [Lessons -> {"planned", "completed", "cancelled"}]
      \/ CancelLists(q)
  BY <1>a, <1>c, RequestTypes, EventTypes DEF CancelKeepsPaid, CancelUndoes
<1>3. CASE CancelKeepsPaid(q)
  <2>1. record' = [record EXCEPT ![l] = [record[l] EXCEPT !.delivery = "cancelled"]]
    BY <1>3, <1>a DEF CancelKeepsPaid, TypeOK
  <2>2. [record[l] EXCEPT !.delivery = "cancelled"] \in Records
    BY <1>a, <1>c, RecordFacts DEF Records, Delivery
  <2> QED
    BY <1>3, <1>a, <1>c, <1>2, <2>1, <2>2, RecordTypes, <1>1 DEF CancelKeepsPaid, TypeOK
<1>4. CASE CancelUndoes(q)
  <2> DEFINE entries == request[q].entries
             r == [request[q].copy EXCEPT !.delivery = "cancelled", !.charged = 0, !.paid = 0,
                                          !.finance = "not_billable", !.final = TRUE]
  <2>1. request[q].step = "undoing" /\ request[q].copy \in Records
    BY <1>4, <1>a, RequestFacts DEF CancelUndoes
  <2>2. entries \subseteq DOMAIN ledger
    BY <2>1 DEF TypeInv, Listed, EntriesOf
  <2>3. r \in Records
    BY <2>1 DEF Records, Delivery, Finance
  <2>4. /\ ledger' = Undone(entries) /\ package' = Returned(entries)
        /\ paid' = Released(entries, l)
        /\ record' = [record EXCEPT ![l] = r]
        /\ UNCHANGED <<amount, begun>>
    BY <1>4 DEF CancelUndoes
  <2> HIDE DEF r, entries
  <2> QED
    BY <1>a, <1>c, <1>1, <1>2, <2>2, <2>3, <2>4, UndoneFacts, ReturnedFacts, ReleasedFacts,
       RecordTypes DEF TypeOK
<1> QED
  BY <1>1, <1>3, <1>4

LEMMA StepTypes == TypeInv /\ [Next]_vars => TypeOK'
<1> SUFFICES ASSUME TypeInv, [Next]_vars PROVE TypeOK'
  OBVIOUS
<1>1. TypeOK
  BY DEF TypeInv
<1>2. CASE UNCHANGED vars
  BY <1>1, <1>2 DEF vars, TypeOK
<1>3. ASSUME NEW q \in Requests, Step(q) PROVE TypeOK'
  BY <1>1, <1>3, LeaveTypes, LockTypes, BillUnitTypes, BillMoneyTypes, CancelTypes DEF Step
<1>4. ASSUME NEW q \in Requests, NEW l \in Lessons,
             Complete(q, l) \/ AskBilling(q, l) \/ CancelReads(q, l)
      PROVE  TypeOK'
  BY <1>1, <1>4, BeginTypes
<1>5. ASSUME NEW l \in Lessons,
             SkipBilling(l) \/ Unfinalize(l) \/ SettleFromPackage(l) \/ RefundUnit(l) \/ Restore(l)
      PROVE  TypeOK'
  BY <1>1, <1>5, UndoTypes, SettleTypes, RefundTypes, RestTypes
<1>6. ASSUME NEW l \in Lessons, NEW p \in Payments, MarkPaid(l, p) PROVE TypeOK'
  BY <1>1, <1>6, MarkTypes
<1>7. ASSUME NEW p \in Payments, NEW sum \in Amounts, RegisterPayment(p, sum) PROVE TypeOK'
  BY <1>1, <1>7, RegisterTypes
<1>8. CASE CancelPackage \/ TopUp
  BY <1>1, <1>8, RestTypes
<1> QED
  BY <1>2, <1>3, <1>4, <1>5, <1>6, <1>7, <1>8 DEF Next

\* The ledger after an action: some entries reversed, and at most one written.
Reversed(gone) == ledger' = Undone(gone)
Written(gone, e) == ledger' = Append(Undone(gone), e)

LEMMA UndoneNone == TypeOK => Undone({}) = ledger
<1> SUFFICES ASSUME TypeOK PROVE Undone({}) = ledger
  OBVIOUS
<1>1. ledger = [i \in DOMAIN ledger |-> ledger[i]]
  BY LedgerFacts
<1> QED
  BY <1>1 DEF Undone

\* No action takes an entry out of the ledger or moves it to another lesson.
LedgerGrows ==
    \A i \in DOMAIN ledger : i \in DOMAIN ledger' /\ ledger'[i].lesson = ledger[i].lesson

LEMMA ReversedGrows ==
    ASSUME TypeOK, NEW gone, Reversed(gone)
    PROVE  LedgerGrows
BY UndoneFacts DEF LedgerGrows, Reversed

LEMMA WrittenGrows ==
    ASSUME TypeOK, NEW gone, NEW e \in Entries, Written(gone, e)
    PROVE  LedgerGrows
<1> DEFINE book == Undone(gone)
<1>1. /\ book \in Seq(Entries) /\ DOMAIN book = DOMAIN ledger
      /\ \A i \in DOMAIN ledger : book[i].lesson = ledger[i].lesson
  BY UndoneFacts
<1>2. ledger' = Append(book, e)
  BY DEF Written
<1> HIDE DEF book
<1>3. \A i \in DOMAIN book : i \in DOMAIN Append(book, e) /\ Append(book, e)[i] = book[i]
  BY <1>1, AppendFacts
<1> QED
  BY <1>1, <1>2, <1>3 DEF LedgerGrows

\* What a billing writes.
LEMMA BillWrites ==
    ASSUME TypeOK, NEW q \in Requests, BillUnit(q) \/ BillMoney(q)
    PROVE  LET l == request[q].lesson
               kind == IF BillUnit(q) THEN "unit" ELSE "charge"
           IN  /\ l \in Lessons /\ request[q].step = "settling" /\ request[q].auto \in BOOLEAN
               /\ Entry(l, kind, request[q].auto, 0) \in Entries
               /\ IF LiveOf(l, kind) = {} THEN Written({}, Entry(l, kind, request[q].auto, 0))
                                          ELSE ledger' = ledger
<1> DEFINE l == request[q].lesson
<1>1. request[q].step = "settling"
  BY DEF BillUnit, BillMoney
<1>2. l \in Lessons /\ request[q].auto \in BOOLEAN
  BY <1>1, RequestFacts
<1>3. \A kind \in {"charge", "unit"} : Entry(l, kind, request[q].auto, 0) \in Entries
  BY <1>2, EntryFacts
<1>4. Undone({}) = ledger
  BY UndoneNone
<1>5. CASE BillUnit(q)
  BY <1>1, <1>2, <1>3, <1>4, <1>5 DEF BillUnit, Written
<1>6. CASE BillMoney(q) /\ ~BillUnit(q)
  BY <1>1, <1>2, <1>3, <1>4, <1>6 DEF BillMoney, Written
<1> QED
  BY <1>5, <1>6

\* What the settlement from the package and the refund of a unit write.
LEMMA SettleWrites ==
    ASSUME TypeOK, NEW l \in Lessons, SettleFromPackage(l)
    PROVE  /\ Entry(l, "unit", FALSE, record[l].charged) \in Entries
           /\ Written(LiveOf(l, "charge"), Entry(l, "unit", FALSE, record[l].charged))
BY EntryFacts, RecordFacts DEF SettleFromPackage, Written

LEMMA RefundWrites ==
    ASSUME TypeOK, NEW l \in Lessons, RefundUnit(l)
    PROVE  \E i \in LiveOf(l, "unit") :
              /\ package' = Returned({i})
              /\ Reversed({i}) \/ Written({i}, Entry(l, "charge", FALSE, 0))
BY DEF RefundUnit, Reversed, Written

LEMMA StepGrows == TypeInv /\ [Next]_vars => LedgerGrows
<1> SUFFICES ASSUME TypeInv, [Next]_vars PROVE LedgerGrows
  OBVIOUS
<1>1. TypeOK
  BY DEF TypeInv
<1>2. ASSUME UNCHANGED ledger PROVE LedgerGrows
  BY <1>2 DEF LedgerGrows
<1>3. ASSUME NEW q \in Requests, Step(q) PROVE LedgerGrows
  <2>1. CASE BillUnit(q) \/ BillMoney(q)
    BY <1>1, <1>2, <2>1, BillWrites, WrittenGrows
  <2>2. CASE CancelUndoes(q)
    BY <1>1, <2>2, ReversedGrows DEF CancelUndoes, Reversed
  <2> QED
    BY <1>2, <1>3, <2>1, <2>2
       DEF Step, LeaveBilling, LockForBilling, UnitGone, CancelLists, CancelKeepsPaid,
           CancelGivesUp, LockVictim
<1>4. ASSUME NEW l \in Lessons, SkipBilling(l) \/ Unfinalize(l) PROVE LedgerGrows
  BY <1>1, <1>4, ReversedGrows DEF SkipBilling, Unfinalize, Reversed
<1>5. ASSUME NEW l \in Lessons, SettleFromPackage(l) PROVE LedgerGrows
  BY <1>1, <1>5, SettleWrites, WrittenGrows
<1>6. ASSUME NEW l \in Lessons, RefundUnit(l) PROVE LedgerGrows
  <2>1. Entry(l, "charge", FALSE, 0) \in Entries
    BY EntryFacts
  <2> QED
    BY <1>1, <1>6, <2>1, RefundWrites, ReversedGrows, WrittenGrows
<1> QED
  BY <1>2, <1>3, <1>4, <1>5, <1>6
     DEF Next, vars, Complete, AskBilling, CancelReads, Restore, MarkPaid, RegisterPayment,
         CancelPackage, TopUp

\* What a request that reverses entries has read: it keeps it, or has just
\* listed the entries of its lesson.
LEMMA UndoingKeeps ==
    ASSUME TypeInv, [Next]_vars, NEW q \in Requests, request'[q].step = "undoing"
    PROVE  \/ request'[q] = request[q]
           \/ CancelLists(q) /\ request'[q].lesson = request[q].lesson
                             /\ request'[q].entries = LiveEntries(request[q].lesson)
<1>1. request \in [Requests -> Working \cup {Idle}]
  BY DEF TypeInv, TypeOK
<1>2. ASSUME NEW c \in Requests, request' = [request EXCEPT ![c] = Idle]
      PROVE  request'[q] = request[q]
  BY <1>1, <1>2 DEF Idle
<1>3. ASSUME NEW c \in Requests, NEW w, request' = [request EXCEPT ![c] = w], w.step # "undoing"
      PROVE  request'[q] = request[q]
  BY <1>1, <1>3
<1>4. ASSUME NEW c \in Requests, Step(c)
      PROVE  \/ request'[q] = request[q]
             \/ CancelLists(q) /\ request'[q].lesson = request[q].lesson
                               /\ request'[q].entries = LiveEntries(request[q].lesson)
  <2>1. CASE CancelLists(c)
    BY <1>1, <2>1 DEF CancelLists
  <2>2. CASE LockForBilling(c)
    BY <1>3, <2>2 DEF LockForBilling
  <2> QED
    BY <1>2, <1>4, <2>1, <2>2
       DEF Step, LeaveBilling, BillUnit, UnitGone, BillMoney, CancelKeepsPaid, CancelUndoes,
           CancelGivesUp, LockVictim
<1>5. ASSUME NEW c \in Requests, NEW l \in Lessons,
             Complete(c, l) \/ AskBilling(c, l) \/ CancelReads(c, l)
      PROVE  request'[q] = request[q]
  <2>1. CASE Complete(c, l)
    BY <1>1, <2>1 DEF Complete
  <2>2. CASE AskBilling(c, l)
    BY <1>1, <2>2 DEF AskBilling
  <2>3. CASE CancelReads(c, l)
    BY <1>1, <2>3 DEF CancelReads
  <2> QED
    BY <1>5, <2>1, <2>2, <2>3
<1>6. UNCHANGED request => request'[q] = request[q]
  OBVIOUS
<1> QED
  BY <1>4, <1>5, <1>6
     DEF Next, vars, SkipBilling, Unfinalize, SettleFromPackage, RefundUnit, Restore, MarkPaid,
         RegisterPayment, CancelPackage, TopUp

LEMMA StepListed == TypeInv /\ [Next]_vars => Listed'
<1> SUFFICES ASSUME TypeInv, [Next]_vars, NEW q \in Requests, request'[q].step = "undoing"
             PROVE  request'[q].entries \subseteq EntriesOf(request[q].lesson)'
                    /\ request'[q].lesson = request[q].lesson
  BY DEF Listed, EntriesOf
<1>1. LedgerGrows
  BY StepGrows
<1>2. \A l : EntriesOf(l) \subseteq {i \in DOMAIN ledger' : ledger'[i].lesson = l}
  BY <1>1 DEF LedgerGrows, EntriesOf
<1>3. CASE request'[q] = request[q]
  BY <1>2, <1>3 DEF TypeInv, Listed, EntriesOf
<1>4. CASE /\ request'[q].lesson = request[q].lesson
           /\ request'[q].entries = LiveEntries(request[q].lesson)
  BY <1>2, <1>4 DEF LiveEntries, EntriesOf
<1> QED
  BY <1>3, <1>4, UndoingKeeps

LEMMA StepTypeInv == TypeInv /\ [Next]_vars => TypeInv'
BY StepTypes, StepListed DEF TypeInv

\* Every record, entry, payment and request has its form, in every state.
THEOREM TypesHold == Spec => []TypeOK
<1>1. TypeInv => TypeOK
  BY DEF TypeInv
<1> QED
  BY InitTypes, StepTypeInv, <1>1, PTL DEF Spec

-----------------------------------------------------------------------------
(* A lesson is settled once.  A billing finds the lesson without a live    *)
(* entry because its record says that it is not billed, and it holds the   *)
(* record until it writes; every action that writes or reverses an entry   *)
(* of a lesson leaves a held record alone.                                 *)

Billed(l) == record[l].final /\ record[l].finance # "not_charged"

\* A lesson has at most one live entry.
Alone == \A l \in Lessons : \A i, j \in LiveEntries(l) : i = j
\* A lesson that is not billed has none.
OnlyBilled == \A l \in Lessons : ~Billed(l) => LiveEntries(l) = {}
\* A lesson whose record is held has none, and one request holds it.
Held ==
    \A q \in Requests : \A l \in Lessons :
        request[q].step = "settling" /\ request[q].lesson = l =>
            /\ LiveEntries(l) = {}
            /\ \A c \in Requests :
                  request[c].step = "settling" /\ request[c].lesson = l => c = q

LedgerInv == Alone /\ OnlyBilled /\ Held

LEMMA LiveReversed ==
    ASSUME TypeOK, NEW gone, Reversed(gone)
    PROVE  /\ \A l : LiveEntries(l)' = LiveEntries(l) \ gone
           /\ \A l, kind : LiveOf(l, kind)' = LiveOf(l, kind) \ gone
<1> DEFINE book == Undone(gone)
<1>1. /\ DOMAIN book = DOMAIN ledger
      /\ \A i \in DOMAIN ledger :
            /\ book[i].lesson = ledger[i].lesson /\ book[i].kind = ledger[i].kind
            /\ book[i].undone = 0 <=> ledger[i].undone = 0 /\ i \notin gone
  BY UndoneFacts
<1>2. ledger' = book
  BY DEF Reversed
<1> HIDE DEF book
<1> QED
  BY <1>1, <1>2 DEF LiveEntries, LiveOf, EntriesOf, Live

LEMMA LiveWritten ==
    ASSUME TypeOK, NEW gone, NEW e \in Entries, e.undone = 0, Written(gone, e)
    PROVE  /\ \A l : LiveEntries(l)' = (LiveEntries(l) \ gone)
                        \cup (IF e.lesson = l THEN {Len(ledger) + 1} ELSE {})
           /\ \A l, kind : LiveOf(l, kind)' = (LiveOf(l, kind) \ gone)
                        \cup (IF e.lesson = l /\ e.kind = kind THEN {Len(ledger) + 1} ELSE {})
           /\ Len(ledger) + 1 \notin DOMAIN ledger
<1> DEFINE book == Undone(gone)
           new == Len(ledger) + 1
<1>1. /\ book \in Seq(Entries) /\ Len(book) = Len(ledger) /\ DOMAIN book = DOMAIN ledger
      /\ \A i \in DOMAIN ledger :
            /\ book[i].lesson = ledger[i].lesson /\ book[i].kind = ledger[i].kind
            /\ book[i].undone = 0 <=> ledger[i].undone = 0 /\ i \notin gone
  BY UndoneFacts
<1>2. ledger' = Append(book, e)
  BY DEF Written
<1> HIDE DEF book
<1>3. /\ DOMAIN ledger' = (DOMAIN ledger) \cup {new} /\ new \notin DOMAIN ledger
      /\ \A i \in DOMAIN ledger : ledger'[i] = book[i]
      /\ ledger'[new] = e
  BY <1>1, <1>2, AppendFacts
<1> HIDE DEF new
<1>4. ASSUME NEW l PROVE LiveEntries(l)' = (LiveEntries(l) \ gone)
                                  \cup (IF e.lesson = l THEN {new} ELSE {})
  BY <1>1, <1>3 DEF LiveEntries, EntriesOf, Live
<1>5. ASSUME NEW l, NEW kind
      PROVE  LiveOf(l, kind)' = (LiveOf(l, kind) \ gone)
                  \cup (IF e.lesson = l /\ e.kind = kind THEN {new} ELSE {})
  BY <1>1, <1>3 DEF LiveOf, EntriesOf, Live
<1> QED
  BY <1>3, <1>4, <1>5 DEF new

\* The entries of the other lessons are left alone.
LEMMA LiveElsewhere ==
    ASSUME TypeOK, NEW l, NEW gone, gone \subseteq EntriesOf(l),
           \/ Reversed(gone)
           \/ \E e \in Entries : e.undone = 0 /\ e.lesson = l /\ Written(gone, e)
    PROVE  \A k : k # l => /\ LiveEntries(k)' = LiveEntries(k)
                           /\ \A kind : LiveOf(k, kind)' = LiveOf(k, kind)
<1>1. \A k : k # l => /\ LiveEntries(k) \ gone = LiveEntries(k)
                      /\ \A kind : LiveOf(k, kind) \ gone = LiveOf(k, kind)
  BY DEF LiveEntries, LiveOf, EntriesOf
<1>2. CASE Reversed(gone)
  BY <1>1, <1>2, LiveReversed
<1>3. ASSUME NEW e \in Entries, e.undone = 0, e.lesson = l, Written(gone, e)
      PROVE  \A k : k # l => /\ LiveEntries(k)' = LiveEntries(k)
                             /\ \A kind : LiveOf(k, kind)' = LiveOf(k, kind)
  <2> SUFFICES ASSUME NEW k, k # l
               PROVE  /\ LiveEntries(k)' = LiveEntries(k)
                      /\ \A kind : LiveOf(k, kind)' = LiveOf(k, kind)
    OBVIOUS
  <2>1. LiveEntries(k)' = LiveEntries(k) \ gone
    BY <1>3, LiveWritten
  <2>2. \A kind : LiveOf(k, kind)' = LiveOf(k, kind) \ gone
    BY <1>3, LiveWritten
  <2> QED
    BY <1>1, <2>1, <2>2
<1> QED
  BY <1>2, <1>3

\* Both kinds of entries, and no other.
LEMMA LiveKinds ==
    ASSUME TypeOK, NEW l
    PROVE  /\ LiveEntries(l) = LiveOf(l, "charge") \cup LiveOf(l, "unit")
           /\ LiveEntries(l) \subseteq EntriesOf(l) /\ EntriesOf(l) \subseteq DOMAIN ledger
           /\ \A kind : LiveOf(l, kind) \subseteq LiveEntries(l)
BY LedgerFacts DEF LiveEntries, LiveOf, EntriesOf

\* An action that works on one lesson whose record nobody else holds.
LEMMA OneLesson ==
    ASSUME LedgerInv, NEW l \in Lessons,
           \A k \in Lessons : k # l => LiveEntries(k)' = LiveEntries(k) /\ (Billed(k) => Billed(k)'),
           \A i, j \in LiveEntries(l)' : i = j,
           ~Billed(l)' => LiveEntries(l)' = {},
           \A q \in Requests : request'[q].step = "settling" =>
                 request'[q] = request[q] /\ request[q].lesson # l /\ request[q].lesson \in Lessons
    PROVE  LedgerInv'
<1>1. Alone'
  BY DEF LedgerInv, Alone
<1>2. OnlyBilled'
  BY DEF LedgerInv, OnlyBilled
<1>3. Held'
  <2> SUFFICES ASSUME NEW q \in Requests, NEW k \in Lessons,
                      request'[q].step = "settling", request'[q].lesson = k
               PROVE  /\ LiveEntries(k)' = {}
                      /\ \A c \in Requests :
                            request'[c].step = "settling" /\ request'[c].lesson = k => c = q
    BY DEF Held
  <2>1. request'[q] = request[q] /\ request[q].step = "settling" /\ k # l
    OBVIOUS
  <2>2. LiveEntries(k)' = LiveEntries(k)
    BY <2>1
  <2>3. \A c \in Requests : request'[c].step = "settling" => request'[c] = request[c]
    OBVIOUS
  <2> QED
    BY <2>1, <2>2, <2>3 DEF LedgerInv, Held
<1> QED
  BY <1>1, <1>2, <1>3 DEF LedgerInv

\* An action that writes no entry and takes no lock.
LEMMA SameLedger ==
    ASSUME LedgerInv, UNCHANGED ledger, \A k \in Lessons : Billed(k) => Billed(k)',
           \A q \in Requests : request'[q].step = "settling" => request'[q] = request[q]
    PROVE  LedgerInv'
<1>1. \A k : LiveEntries(k)' = LiveEntries(k)
  BY DEF LiveEntries, EntriesOf, Live
<1>2. Alone' /\ OnlyBilled'
  BY <1>1 DEF LedgerInv, Alone, OnlyBilled
<1>3. Held'
  BY <1>1 DEF LedgerInv, Held
<1> QED
  BY <1>2, <1>3 DEF LedgerInv

\* What the actions on one lesson write in its record.
OthersKept(l) == \A k \in Lessons : k # l => record'[k] = record[k]

LEMMA BillRecords ==
    ASSUME TypeOK, NEW q \in Requests, BillUnit(q) \/ BillMoney(q)
    PROVE  LET l == request[q].lesson
           IN  /\ OthersKept(l) /\ record'[l].final
               /\ BillUnit(q) => record'[l].finance = "package" /\ record'[l].paid = 0
               /\ ~BillUnit(q) => record'[l].finance \notin {"not_charged", "package"}
<1> DEFINE l == request[q].lesson
<1>1. l \in Lessons
  BY BillWrites
<1>2. CASE BillUnit(q)
  BY <1>1, <1>2 DEF BillUnit, OthersKept, TypeOK
<1>3. CASE BillMoney(q) /\ ~BillUnit(q)
  <2> DEFINE money == record[l].paid + SumFunctionOnSet(
                [p \in Payments |-> TakenFrom(request[q].free, Above(Price, record[l].paid), p)],
                Payments)
  <2>1. record'[l].final /\ record'[l].finance = FinanceFor(Price, money) /\ OthersKept(l)
    BY <1>1, <1>3 DEF BillMoney, OthersKept, TypeOK
  <2> HIDE DEF money
  <2>2. FinanceFor(Price, money) \notin {"not_charged", "package"}
    BY DEF FinanceFor
  <2> QED
    BY <1>3, <2>1, <2>2
<1> QED
  BY <1>2, <1>3

LEMMA SkipRecords ==
    ASSUME TypeOK, NEW l \in Lessons, SkipBilling(l)
    PROVE  /\ OthersKept(l)
           /\ HasPayment(l) =>
                 /\ record'[l].final = record[l].final /\ record'[l].finance = record[l].finance
                 /\ record'[l].paid = record[l].paid /\ record'[l].charged = record[l].charged
           /\ ~HasPayment(l) => /\ record'[l].final /\ record'[l].finance = "not_billable"
                                /\ record'[l].paid = 0
<1>1. record'[l] = Skipped(l) /\ OthersKept(l)
  BY DEF SkipBilling, OthersKept, TypeOK
<1>2. record[l] \in Records
  BY RecordFacts
<1> QED
  BY <1>1, <1>2 DEF Skipped, Records

LEMMA UnfinalizeRecords ==
    ASSUME TypeOK, NEW l \in Lessons, Unfinalize(l)
    PROVE  /\ OthersKept(l) /\ record'[l].finance = "not_charged" /\ record'[l].paid = 0
BY DEF Unfinalize, OthersKept, TypeOK, NewRecord

LEMMA SettleRecords ==
    ASSUME TypeOK, NEW l \in Lessons, SettleFromPackage(l)
    PROVE  /\ OthersKept(l) /\ record'[l].final /\ record'[l].finance = "package"
           /\ record'[l].paid = 0
<1> DEFINE r == [record[l] EXCEPT !.finance = "package", !.charged = 0, !.paid = 0, !.final = TRUE]
<1>1. record' = [record EXCEPT ![l] = r]
  BY DEF SettleFromPackage, TypeOK
<1>2. r.final /\ r.finance = "package" /\ r.paid = 0
  BY RecordFacts DEF Records
<1> HIDE DEF r
<1> QED
  BY <1>1, <1>2 DEF OthersKept, TypeOK

LEMMA RefundRecords ==
    ASSUME TypeOK, NEW l \in Lessons, RefundUnit(l)
    PROVE  /\ OthersKept(l) /\ record'[l].final /\ record'[l].finance = "awaiting"
           /\ record'[l].paid = record[l].paid
<1>1. PICK charged : record' = [record EXCEPT ![l].finance = "awaiting", ![l].final = TRUE,
                                              ![l].charged = charged]
  BY DEF RefundUnit
<1> DEFINE r == [record[l] EXCEPT !.finance = "awaiting", !.final = TRUE, !.charged = charged]
<1>2. record' = [record EXCEPT ![l] = r]
  BY <1>1 DEF TypeOK
<1>3. r.final /\ r.finance = "awaiting" /\ r.paid = record[l].paid
  BY RecordFacts DEF Records
<1> HIDE DEF r
<1> QED
  BY <1>2, <1>3 DEF OthersKept, TypeOK

LEMMA MarkRecords ==
    ASSUME TypeOK, NEW l \in Lessons, NEW p \in Payments, MarkPaid(l, p)
    PROVE  \E money, charged \in Nat :
              /\ amount'[p] > 0 /\ \A k \in Payments : k # p => amount'[k] = amount[k]
              /\ paid' = [paid EXCEPT ![p][l] = money]
              /\ OthersKept(l) /\ record'[l].final /\ record'[l].charged = charged
              /\ record'[l].paid = record[l].paid + money
              /\ record'[l].finance = FinanceFor(charged, record[l].paid + money)
<1> DEFINE charged == IF record[l].charged > 0 THEN record[l].charged ELSE Price
           lacking == IF record[l].charged > record[l].paid
                      THEN record[l].charged - record[l].paid ELSE Price
           money == Smaller(lacking, Above(charged, record[l].paid))
           finance == FinanceFor(charged, record[l].paid + money)
           r == [record[l] EXCEPT !.charged = charged, !.paid = record[l].paid + money,
                                  !.final = TRUE, !.finance = finance]
<1>1. charged \in Nat /\ lacking \in Nat /\ lacking > 0 /\ money \in Nat
  BY MarkFacts
<1>2. /\ amount' = [amount EXCEPT ![p] = lacking]
      /\ paid' = [paid EXCEPT ![p][l] = money]
      /\ record' = [record EXCEPT
               ![l].charged = charged, ![l].paid = @ + money, ![l].final = TRUE,
               ![l].finance = finance]
  BY DEF MarkPaid
<1> HIDE DEF charged, lacking, money, finance
<1>3. record' = [record EXCEPT ![l] = r]
  BY <1>2 DEF TypeOK
<1>4. r.final /\ r.charged = charged /\ r.paid = record[l].paid + money /\ r.finance = finance
  BY RecordFacts DEF Records
<1> HIDE DEF r
<1>5. record'[l] = r /\ OthersKept(l)
  BY <1>3 DEF OthersKept, TypeOK
<1>6. amount'[p] > 0 /\ \A k \in Payments : k # p => amount'[k] = amount[k]
  BY <1>1, <1>2 DEF TypeOK
<1> QED
  BY <1>1, <1>2, <1>4, <1>5, <1>6 DEF finance

\* A payment is put on the lessons it closes, whole or in part.
LEMMA RegisterRecords ==
    ASSUME TypeOK, NEW p \in Payments, NEW sum \in Amounts, RegisterPayment(p, sum)
    PROVE  /\ amount'[p] > 0 /\ \A k \in Payments : k # p => amount'[k] = amount[k]
           /\ paid' = [paid EXCEPT ![p] = [l \in Lessons |-> Given(sum, l)]]
           /\ \A l \in Lessons :
                 /\ Given(sum, l) \in Nat /\ record'[l].final = record[l].final
                 /\ record'[l].paid = record[l].paid + Given(sum, l)
                 /\ record'[l].charged = record[l].charged
                 /\ IF Given(sum, l) = 0
                    THEN record'[l].finance = record[l].finance
                    ELSE record'[l].finance = FinanceFor(record'[l].charged, record'[l].paid)
<1>1. sum \in Nat /\ sum > 0
  BY BillingAssumption
<1>2. amount' = [amount EXCEPT ![p] = sum]
      /\ paid' = [paid EXCEPT ![p] = [l \in Lessons |-> Given(sum, l)]]
  BY DEF RegisterPayment
<1>3. ASSUME NEW l \in Lessons
      PROVE  /\ Given(sum, l) \in Nat /\ record'[l].final = record[l].final
             /\ record'[l].paid = record[l].paid + Given(sum, l)
             /\ record'[l].charged = record[l].charged
             /\ IF Given(sum, l) = 0
                THEN record'[l].finance = record[l].finance
                ELSE record'[l].finance = FinanceFor(record'[l].charged, record'[l].paid)
  <2> DEFINE given == Given(sum, l)
             r == [record[l] EXCEPT !.paid = record[l].paid + given,
                          !.finance = FinanceFor(record[l].charged, record[l].paid + given)]
  <2>1. record'[l] = IF given = 0 THEN record[l] ELSE r
    BY DEF RegisterPayment, TypeOK, Records
  <2>2. given \in Nat
    BY <1>1, GivenFacts
  <2> HIDE DEF given
  <2>3. /\ r.final = record[l].final /\ r.paid = record[l].paid + given
        /\ r.charged = record[l].charged
        /\ r.finance = FinanceFor(record[l].charged, record[l].paid + given)
    BY RecordFacts DEF Records
  <2> HIDE DEF r
  <2>4. record[l].paid \in Nat
    BY RecordFacts
  <2>5. CASE given = 0
    BY <2>1, <2>2, <2>4, <2>5 DEF given
  <2>6. CASE given # 0
    BY <2>1, <2>2, <2>3, <2>6 DEF given
  <2> QED
    BY <2>5, <2>6
<1> QED
  BY <1>1, <1>2, <1>3 DEF TypeOK

LEMMA KeepRecords ==
    ASSUME TypeOK, NEW q \in Requests, CancelKeepsPaid(q)
    PROVE  LET l == request[q].lesson
           IN  /\ l \in Lessons /\ OthersKept(l)
               /\ record'[l].final = record[l].final /\ record'[l].finance = record[l].finance
               /\ record'[l].paid = record[l].paid /\ record'[l].charged = record[l].charged
<1> DEFINE l == request[q].lesson
           r == [record[l] EXCEPT !.delivery = "cancelled"]
<1>1. l \in Lessons
  BY RequestFacts DEF CancelKeepsPaid
<1>2. record' = [record EXCEPT ![l] = r]
  BY DEF CancelKeepsPaid, TypeOK
<1>3. /\ r.final = record[l].final /\ r.finance = record[l].finance
      /\ r.paid = record[l].paid /\ r.charged = record[l].charged
  BY <1>1, RecordFacts DEF Records
<1> HIDE DEF r
<1> QED
  BY <1>1, <1>2, <1>3 DEF OthersKept, TypeOK

LEMMA UndoneRecords ==
    ASSUME TypeInv, NEW q \in Requests, CancelUndoes(q)
    PROVE  LET l == request[q].lesson
           IN  /\ l \in Lessons /\ OthersKept(l) /\ request[q].entries \subseteq EntriesOf(l)
               /\ record'[l].final /\ record'[l].finance = "not_billable" /\ record'[l].paid = 0
<1> DEFINE l == request[q].lesson
           copy == request[q].copy
           r == [copy EXCEPT !.delivery = "cancelled", !.charged = 0, !.paid = 0,
                             !.finance = "not_billable", !.final = TRUE]
<1>1. request[q].step = "undoing" /\ TypeOK
  BY DEF CancelUndoes, TypeInv
<1>2. l \in Lessons /\ copy \in Records /\ request[q].entries \subseteq EntriesOf(l)
  BY <1>1, RequestFacts DEF TypeInv, Listed
<1>3. record' = [record EXCEPT ![l] = r]
  BY DEF CancelUndoes
<1> HIDE DEF copy
<1>4. r.final /\ r.finance = "not_billable" /\ r.paid = 0
  BY <1>2 DEF Records
<1> HIDE DEF r
<1> QED
  BY <1>1, <1>2, <1>3, <1>4 DEF OthersKept, TypeOK

LEMMA InitLedger == Init => LedgerInv
<1> SUFFICES ASSUME Init PROVE LedgerInv
  OBVIOUS
<1>1. DOMAIN ledger = {}
  BY DEF Init
<1>2. \A l : LiveEntries(l) = {}
  BY <1>1 DEF LiveEntries, EntriesOf
<1>3. \A q \in Requests : request[q].step # "settling"
  BY DEF Init, Idle
<1> QED
  BY <1>2, <1>3 DEF LedgerInv, Alone, OnlyBilled, Held

\* No request holds the lesson's record, after the action either.
Unheld(l) ==
    \A q \in Requests : request'[q].step = "settling" =>
        request'[q] = request[q] /\ request[q].lesson # l /\ request[q].lesson \in Lessons

LEMMA UnheldFacts ==
    ASSUME TypeOK, NEW l, ~RecordHeld(l),
           \/ UNCHANGED request
           \/ \E q \in Requests : request' = [request EXCEPT ![q] = Idle]
    PROVE  Unheld(l)
BY RequestFacts DEF RecordHeld, Unheld, TypeOK, Idle

\* The other lessons are as billed as before, and have the same live entries.
LEMMA OthersSame ==
    ASSUME TypeOK, NEW l, NEW gone, gone \subseteq EntriesOf(l), OthersKept(l),
           \/ Reversed(gone)
           \/ \E e \in Entries : e.undone = 0 /\ e.lesson = l /\ Written(gone, e)
    PROVE  \A k \in Lessons : k # l =>
              LiveEntries(k)' = LiveEntries(k) /\ (Billed(k) => Billed(k)')
BY LiveElsewhere DEF OthersKept, Billed

LEMMA BillLedger ==
    ASSUME TypeOK, LedgerInv, NEW q \in Requests, BillUnit(q) \/ BillMoney(q)
    PROVE  LedgerInv'
<1>1. PICK l \in Lessons :
          request[q].lesson = l /\ request[q].step = "settling" /\ request[q].auto \in BOOLEAN
  BY BillWrites
<1> DEFINE kind == IF BillUnit(q) THEN "unit" ELSE "charge"
       e == Entry(l, kind, request[q].auto, 0)
<1>2. LiveEntries(l) = {} /\ \A c \in Requests :
             request[c].step = "settling" /\ request[c].lesson = l => c = q
  BY <1>1 DEF LedgerInv, Held
<1>3. LiveOf(l, kind) = {}
  BY <1>2, LiveKinds
<1>4. e \in Entries /\ e.undone = 0 /\ e.lesson = l
  BY <1>1, EntryFacts
<1>5. Written({}, e)
  BY <1>1, <1>3, BillWrites
<1>6. OthersKept(l) /\ Billed(l)'
  BY <1>1, BillRecords DEF Billed
<1>7. request' = [request EXCEPT ![q] = Idle]
  BY DEF BillUnit, BillMoney
<1> HIDE DEF e, kind
<1>8. LiveEntries(l)' = {Len(ledger) + 1}
  BY <1>2, <1>4, <1>5, LiveWritten
<1>9. \A k \in Lessons : k # l => LiveEntries(k)' = LiveEntries(k) /\ (Billed(k) => Billed(k)')
  BY <1>4, <1>5, <1>6, OthersSame
<1>10. Unheld(l)
  BY <1>1, <1>2, <1>7, RequestFacts DEF Unheld, TypeOK, Idle
<1>11. \A i, j \in LiveEntries(l)' : i = j
  BY <1>8
<1> QED
  BY <1>1, <1>6, <1>9, <1>10, <1>11, OneLesson DEF Unheld

\* Reversing entries of a lesson, all of them unless it stays as billed as it was.
LEMMA ReverseLedger ==
    ASSUME TypeOK, LedgerInv, NEW l \in Lessons, NEW gone, gone \subseteq EntriesOf(l),
           Reversed(gone), OthersKept(l), Unheld(l),
           \/ Billed(l)'
           \/ LiveEntries(l) \subseteq gone
           \/ Billed(l)' = Billed(l)
    PROVE  LedgerInv'
<1>1. LiveEntries(l)' = LiveEntries(l) \ gone
  BY LiveReversed
<1>2. \A i, j \in LiveEntries(l)' : i = j
  BY <1>1 DEF LedgerInv, Alone
<1>3. ~Billed(l)' => LiveEntries(l)' = {}
  BY <1>1 DEF LedgerInv, OnlyBilled
<1>4. \A k \in Lessons : k # l => LiveEntries(k)' = LiveEntries(k) /\ (Billed(k) => Billed(k)')
  BY OthersSame
<1> QED
  BY <1>2, <1>3, <1>4, OneLesson DEF Unheld

\* An entry takes the place of those that are reversed.
LEMMA ReplaceLedger ==
    ASSUME TypeOK, LedgerInv, NEW l \in Lessons, NEW gone, gone \subseteq EntriesOf(l),
           LiveEntries(l) \subseteq gone, NEW e \in Entries, e.undone = 0, e.lesson = l,
           Written(gone, e), OthersKept(l), Unheld(l), Billed(l)'
    PROVE  LedgerInv'
<1>1. LiveEntries(l)' = {Len(ledger) + 1}
  BY LiveWritten
<1>2. \A i, j \in LiveEntries(l)' : i = j
  BY <1>1
<1>3. \A k \in Lessons : k # l => LiveEntries(k)' = LiveEntries(k) /\ (Billed(k) => Billed(k)')
  BY OthersSame
<1> QED
  BY <1>2, <1>3, OneLesson DEF Unheld

LEMMA UndoLedger ==
    ASSUME TypeOK, LedgerInv, NEW l \in Lessons, SkipBilling(l) \/ Unfinalize(l)
    PROVE  LedgerInv'
<1>1. Unheld(l)
  BY UnheldFacts DEF SkipBilling, Unfinalize
<1>2. LiveEntries(l) \subseteq EntriesOf(l)
  BY LiveKinds
<1>3. CASE SkipBilling(l) /\ HasPayment(l)
  <2>1. Reversed({}) /\ {} \subseteq EntriesOf(l)
    BY <1>3 DEF SkipBilling, Reversed
  <2>2. OthersKept(l) /\ Billed(l)' = Billed(l)
    BY <1>3, SkipRecords DEF Billed
  <2> QED
    BY <1>1, <2>1, <2>2, ReverseLedger
<1>4. CASE SkipBilling(l) /\ ~HasPayment(l)
  <2>1. Reversed(LiveEntries(l)) /\ OthersKept(l)
    BY <1>4, SkipRecords DEF SkipBilling, Reversed
  <2> QED
    BY <1>1, <1>2, <2>1, ReverseLedger
<1>5. CASE Unfinalize(l)
  <2>1. Reversed(LiveEntries(l)) /\ OthersKept(l)
    BY <1>5, UnfinalizeRecords DEF Unfinalize, Reversed
  <2> QED
    BY <1>1, <1>2, <2>1, ReverseLedger
<1> QED
  BY <1>3, <1>4, <1>5

LEMMA SettleLedger ==
    ASSUME TypeOK, LedgerInv, NEW l \in Lessons, SettleFromPackage(l)
    PROVE  LedgerInv'
<1> DEFINE gone == LiveOf(l, "charge")
           e == Entry(l, "unit", FALSE, record[l].charged)
<1>1. LiveEntries(l) \subseteq gone /\ gone \subseteq EntriesOf(l)
  BY LiveKinds DEF SettleFromPackage
<1>2. e \in Entries /\ Written(gone, e)
  BY SettleWrites
<1>3. e.undone = 0 /\ e.lesson = l
  BY DEF Entry
<1>4. Unheld(l)
  BY UnheldFacts DEF SettleFromPackage
<1>5. OthersKept(l) /\ Billed(l)'
  BY SettleRecords DEF Billed
<1> HIDE DEF e, gone
<1> QED
  BY <1>1, <1>2, <1>3, <1>4, <1>5, ReplaceLedger

LEMMA RefundLedger ==
    ASSUME TypeOK, LedgerInv, NEW l \in Lessons, RefundUnit(l)
    PROVE  LedgerInv'
<1> DEFINE e == Entry(l, "charge", FALSE, 0)
<1>1. PICK i \in LiveOf(l, "unit") : Reversed({i}) \/ Written({i}, e)
  BY RefundWrites
<1>2. LiveEntries(l) \subseteq {i} /\ {i} \subseteq EntriesOf(l)
  BY <1>1, LiveKinds DEF LedgerInv, Alone
<1>3. e \in Entries /\ e.undone = 0 /\ e.lesson = l
  BY EntryFacts DEF Entry
<1>4. Unheld(l)
  BY UnheldFacts DEF RefundUnit
<1>5. OthersKept(l) /\ Billed(l)'
  BY RefundRecords DEF Billed
<1> HIDE DEF e
<1> QED
  BY <1>1, <1>2, <1>3, <1>4, <1>5, ReverseLedger, ReplaceLedger

LEMMA CancelLedger ==
    ASSUME TypeInv, LedgerInv, NEW q \in Requests, CancelUndoes(q) \/ CancelKeepsPaid(q)
    PROVE  LedgerInv'
<1>0. PICK l \in Lessons : request[q].lesson = l
  BY KeepRecords, UndoneRecords DEF TypeInv
<1>1. TypeOK
  BY DEF TypeInv
<1>2. Unheld(l)
  BY <1>1, <1>0, UnheldFacts DEF CancelUndoes, CancelKeepsPaid
<1>3. CASE CancelUndoes(q)
  <2>1. l \in Lessons /\ OthersKept(l) /\ Billed(l)' /\ request[q].entries \subseteq EntriesOf(l)
    BY <1>3, <1>0, UndoneRecords DEF Billed
  <2>2. Reversed(request[q].entries)
    BY <1>3 DEF CancelUndoes, Reversed
  <2> QED
    BY <1>1, <1>2, <2>1, <2>2, ReverseLedger
<1>4. CASE CancelKeepsPaid(q)
  <2>1. l \in Lessons /\ OthersKept(l) /\ Billed(l)' = Billed(l)
    BY <1>1, <1>4, <1>0, KeepRecords DEF Billed
  <2>2. Reversed({}) /\ {} \subseteq EntriesOf(l)
    BY <1>1, <1>4, UndoneNone DEF CancelKeepsPaid, Reversed
  <2> QED
    BY <1>1, <1>2, <2>1, <2>2, ReverseLedger
<1> QED
  BY <1>3, <1>4

\* A payment changes no entry and makes no lesson less billed.
LEMMA PayLedger ==
    ASSUME TypeOK, LedgerInv, NEW p \in Payments,
           \/ \E l \in Lessons : MarkPaid(l, p)
           \/ \E sum \in Amounts : RegisterPayment(p, sum)
    PROVE  LedgerInv'
<1>1. ASSUME NEW l \in Lessons, MarkPaid(l, p) PROVE \A k \in Lessons : Billed(k) => Billed(k)'
  <2>1. PICK money, charged \in Nat :
            /\ OthersKept(l) /\ record'[l].final
            /\ record'[l].finance = FinanceFor(charged, record[l].paid + money)
    BY <1>1, MarkRecords
  <2>2. FinanceFor(charged, record[l].paid + money) # "not_charged"
    BY DEF FinanceFor
  <2> QED
    BY <2>1, <2>2 DEF Billed, OthersKept
<1>2. ASSUME NEW sum \in Amounts, RegisterPayment(p, sum)
      PROVE  \A k \in Lessons : Billed(k) => Billed(k)'
  <2>1. \A k \in Lessons : /\ record'[k].final = record[k].final
                           /\ \/ record'[k].finance = record[k].finance
                              \/ record'[k].finance = FinanceFor(record'[k].charged, record'[k].paid)
    BY <1>2, RegisterRecords
  <2>2. \A charged, money : FinanceFor(charged, money) # "not_charged"
    BY DEF FinanceFor
  <2> QED
    BY <2>1, <2>2 DEF Billed
<1>3. UNCHANGED <<ledger, request>>
  BY DEF MarkPaid, RegisterPayment
<1> QED
  BY <1>1, <1>2, <1>3, SameLedger

\* The record is locked by the first to find the lesson not billed.
LEMMA LockLedger ==
    ASSUME TypeOK, LedgerInv, NEW q \in Requests, LockForBilling(q)
    PROVE  LedgerInv'
<1> DEFINE l == request[q].lesson
<1>1. /\ l \in Lessons /\ ~RecordHeld(l) /\ ~Billed(l) /\ UNCHANGED <<record, ledger>>
  BY RequestFacts DEF LockForBilling, Settled, Billed
<1>2. request'[q].lesson = l /\ \A c \in Requests : c # q => request'[c] = request[c]
  BY DEF LockForBilling, TypeOK
<1>3. \A k : LiveEntries(k)' = LiveEntries(k)
  BY <1>1 DEF LiveEntries, EntriesOf, Live
<1>4. LiveEntries(l) = {}
  BY <1>1 DEF LedgerInv, OnlyBilled
<1>5. Alone' /\ OnlyBilled'
  BY <1>1, <1>3 DEF LedgerInv, Alone, OnlyBilled, Billed
<1>6. Held'
  <2> SUFFICES ASSUME NEW c \in Requests, NEW k \in Lessons,
                      request'[c].step = "settling", request'[c].lesson = k
               PROVE  /\ LiveEntries(k)' = {}
                      /\ \A d \in Requests :
                            request'[d].step = "settling" /\ request'[d].lesson = k => d = c
    BY DEF Held
  <2>1. CASE c = q
    BY <1>1, <1>2, <1>3, <1>4, <2>1 DEF RecordHeld
  <2>2. CASE c # q
    <3>1. request[c].step = "settling" /\ request[c].lesson = k /\ k # l
      BY <1>1, <1>2, <2>2 DEF RecordHeld
    <3> QED
      BY <1>2, <1>3, <2>2, <3>1 DEF LedgerInv, Held
  <2> QED
    BY <2>1, <2>2
<1> QED
  BY <1>5, <1>6 DEF LedgerInv

\* The actions that write neither a record nor money.
QuietStep ==
    /\ UNCHANGED <<record, ledger, amount, paid>>
    /\ \A q \in Requests : request'[q].step = "settling" => request'[q] = request[q]

LEMMA QuietActions ==
    ASSUME TypeOK
    PROVE  /\ UNCHANGED vars \/ CancelPackage \/ TopUp => QuietStep
           /\ \A l \in Lessons : Restore(l) => QuietStep
           /\ \A q \in Requests :
                 LeaveBilling(q) \/ UnitGone(q) \/ CancelLists(q) \/ CancelGivesUp(q)
                     \/ LockVictim(q) => QuietStep
           /\ \A q \in Requests, l \in Lessons :
                 Complete(q, l) \/ AskBilling(q, l) \/ CancelReads(q, l) => QuietStep
<1>1. request \in [Requests -> Working \cup {Idle}]
  BY DEF TypeOK
<1>2. UNCHANGED vars \/ CancelPackage \/ TopUp => QuietStep
  BY DEF QuietStep, vars, CancelPackage, TopUp
<1>3. \A l \in Lessons : Restore(l) => QuietStep
  BY DEF QuietStep, Restore
<1>4. ASSUME NEW q \in Requests,
             LeaveBilling(q) \/ UnitGone(q) \/ CancelGivesUp(q) \/ LockVictim(q)
      PROVE  QuietStep
  BY <1>1, <1>4 DEF QuietStep, LeaveBilling, UnitGone, CancelGivesUp, LockVictim, Idle
<1>5. ASSUME NEW q \in Requests, CancelLists(q) PROVE QuietStep
  <2>1. UNCHANGED <<record, ledger, amount, paid>> /\ request'[q].step = "undoing"
        /\ \A c \in Requests : c # q => request'[c] = request[c]
    BY <1>1, <1>5 DEF CancelLists
  <2> QED
    BY <2>1 DEF QuietStep
<1>6. ASSUME NEW q \in Requests, NEW l \in Lessons,
             Complete(q, l) \/ AskBilling(q, l) \/ CancelReads(q, l)
      PROVE  QuietStep
  <2>1. UNCHANGED <<record, ledger, amount, paid>>
    BY <1>6 DEF Complete, AskBilling, CancelReads
  <2>2. request'[q].step \in {"billing", "cancelling"}
        /\ \A c \in Requests : c # q => request'[c] = request[c]
    <3>1. CASE Complete(q, l)
      BY <1>1, <3>1 DEF Complete
    <3>2. CASE AskBilling(q, l)
      BY <1>1, <3>2 DEF AskBilling
    <3>3. CASE CancelReads(q, l)
      BY <1>1, <3>3 DEF CancelReads
    <3> QED
      BY <1>6, <3>1, <3>2, <3>3
  <2> QED
    BY <2>1, <2>2 DEF QuietStep
<1> QED
  BY <1>2, <1>3, <1>4, <1>5, <1>6

LEMMA QuietLedger ==
    ASSUME TypeOK, LedgerInv, UNCHANGED <<record, ledger>>,
           \A q \in Requests : request'[q].step = "settling" => request'[q] = request[q]
    PROVE  LedgerInv'
BY SameLedger DEF Billed

LEMMA StepLedger == TypeInv /\ LedgerInv /\ [Next]_vars => LedgerInv'
<1> SUFFICES ASSUME TypeInv, LedgerInv, [Next]_vars PROVE LedgerInv'
  OBVIOUS
<1>1. TypeOK
  BY DEF TypeInv
<1>2. QuietStep => LedgerInv'
  BY <1>1, QuietLedger DEF QuietStep
<1>3. ASSUME NEW q \in Requests, Step(q) PROVE LedgerInv'
  <2>1. CASE BillUnit(q) \/ BillMoney(q)
    BY <1>1, <2>1, BillLedger
  <2>2. CASE LockForBilling(q)
    BY <1>1, <2>2, LockLedger
  <2>3. CASE CancelUndoes(q) \/ CancelKeepsPaid(q)
    BY <2>3, CancelLedger
  <2> QED
    BY <1>1, <1>2, <1>3, <2>1, <2>2, <2>3, QuietActions DEF Step
<1>4. ASSUME NEW l \in Lessons,
             SkipBilling(l) \/ Unfinalize(l) \/ SettleFromPackage(l) \/ RefundUnit(l) \/ Restore(l)
      PROVE  LedgerInv'
  BY <1>1, <1>2, <1>4, UndoLedger, SettleLedger, RefundLedger, QuietActions
<1>5. ASSUME NEW p \in Payments,
             \/ \E l \in Lessons : MarkPaid(l, p)
             \/ \E sum \in Amounts : RegisterPayment(p, sum)
      PROVE  LedgerInv'
  BY <1>1, <1>5, PayLedger
<1> QED
  BY <1>1, <1>2, <1>3, <1>4, <1>5, QuietActions DEF Next

\* A lesson is settled once: never by a charge and a unit of the package,
\* and never twice by either, however the billings, the cancellations and
\* the payments of its account overlap.
THEOREM LessonsSettledOnce == Spec => []SettledOnce
<1>1. TypeInv /\ LedgerInv => SettledOnce
  <2> SUFFICES ASSUME TypeInv, LedgerInv, NEW l \in Lessons
               PROVE  Cardinality(LiveEntries(l)) <= 1
    BY DEF SettledOnce
  <2>1. CASE LiveEntries(l) = {}
    BY <2>1, FS_EmptySet
  <2>2. ASSUME NEW i \in LiveEntries(l) PROVE Cardinality(LiveEntries(l)) <= 1
    <3>1. LiveEntries(l) = {i}
      BY <2>2 DEF LedgerInv, Alone
    <3> QED
      BY <3>1, FS_Singleton
  <2> QED
    BY <2>1, <2>2
<1> QED
  BY InitTypes, StepTypeInv, InitLedger, StepLedger, <1>1, PTL DEF Spec

-----------------------------------------------------------------------------
(* What a record shows is there.  The money of a record is money that is   *)
(* allocated to its lesson: the billing writes both from one reading, and  *)
(* a payment that is not entered yet has nothing to give and nothing to    *)
(* overwrite.                                                              *)

\* Nothing is allocated from a payment that is not entered, and no billing
\* has read free money of one.
Unentered ==
    \A p \in Payments :
        amount[p] = 0 =>
            /\ \A l \in Lessons : paid[p][l] = 0
            /\ \A q \in Requests : request[q].step = "settling" => request[q].free[p] = 0
\* The money of a record is on its lesson.
Backed(l) == record[l].paid <= MoneyOn(l)
\* A record that is shown as paid has the money it charges.
PaidUp(l) == record[l].finance = "paid" => record[l].paid >= record[l].charged
\* A record that is shown as taken from the package has its unit.
HasUnit(l) == record[l].finance = "package" => LiveOf(l, "unit") # {}

MoneyInv == Unentered /\ \A l \in Lessons : Backed(l) /\ PaidUp(l) /\ HasUnit(l)

LEMMA InitMoney == Init => MoneyInv
<1> SUFFICES ASSUME Init PROVE MoneyInv
  OBVIOUS
<1>1. TypeOK
  BY InitTypes DEF TypeInv
<1>2. Unentered
  BY DEF Init, Unentered, Idle
<1>3. ASSUME NEW l \in Lessons PROVE Backed(l) /\ PaidUp(l) /\ HasUnit(l)
  <2>1. record[l].paid = 0 /\ record[l].finance = "not_charged"
    BY DEF Init, NewRecord
  <2>2. MoneyOn(l) \in Nat
    BY <1>1, MoneyFacts
  <2> QED
    BY <2>1, <2>2 DEF Backed, PaidUp, HasUnit
<1> QED
  BY <1>2, <1>3 DEF MoneyInv

\* The money on a lesson is the sum of what the payments give it.
LEMMA MoneySame ==
    ASSUME TypeOK, TypeOK', NEW l \in Lessons, \A p \in Payments : paid'[p][l] = paid[p][l]
    PROVE  MoneyOn(l)' = MoneyOn(l)
<1> DEFINE f == [p \in Payments |-> paid[p][l]]
           g == [p \in Payments |-> paid'[p][l]]
<1>1. f = g
  OBVIOUS
<1> QED
  BY <1>1 DEF MoneyOn

LEMMA MoneyAdds ==
    ASSUME TypeOK, TypeOK', NEW l \in Lessons, NEW taken \in Money,
           \A p \in Payments : paid'[p][l] = paid[p][l] + taken[p]
    PROVE  MoneyOn(l)' = MoneyOn(l) + SumFunctionOnSet(taken, Payments)
<1> DEFINE f == [p \in Payments |-> paid[p][l]]
           h == [p \in Payments |-> paid'[p][l]]
<1>1. \A p \in Payments : f[p] \in Nat /\ taken[p] \in Nat /\ h[p] = f[p] + taken[p]
  BY MoneyFacts DEF Money
<1>2. MoneyOn(l) = SumFunctionOnSet(f, Payments) /\ MoneyOn(l)' = SumFunctionOnSet(h, Payments)
  BY DEF MoneyOn
<1> HIDE DEF f, h
<1>3. SumFunctionOnSet(h, Payments) = SumFunctionOnSet(f, Payments) + SumFunctionOnSet(taken, Payments)
  BY <1>1, SumAdds, BillingAssumption
<1> QED
  BY <1>2, <1>3

LEMMA MoneyReplaced ==
    ASSUME TypeOK, TypeOK', NEW l \in Lessons, NEW p \in Payments, paid[p][l] = 0,
           \A k \in Payments : k # p => paid'[k][l] = paid[k][l]
    PROVE  MoneyOn(l)' = MoneyOn(l) + paid'[p][l]
<1> DEFINE f == [k \in Payments |-> paid[k][l]]
           g == [k \in Payments |-> paid'[k][l]]
<1>1. \A k \in Payments : f[k] \in Nat /\ g[k] \in Nat
  BY DEF TypeOK
<1>2. \A k \in Payments \ {p} : g[k] = f[k]
  OBVIOUS
<1>3. f[p] = 0 /\ g[p] = paid'[p][l]
  OBVIOUS
<1>4. MoneyOn(l) = SumFunctionOnSet(f, Payments) /\ MoneyOn(l)' = SumFunctionOnSet(g, Payments)
  BY DEF MoneyOn
<1> HIDE DEF f, g
<1>5. SumFunctionOnSet(g, Payments) = SumFunctionOnSet(f, Payments) + g[p]
  <2>1. IsFiniteSet(Payments)
    BY BillingAssumption
  <2>2. f[p] = 0
    BY <1>3
  <2> QED
    BY ONLY <1>1, <1>2, <2>1, <2>2, SumReplaces, p \in Payments
<1> QED
  BY <1>4, <1>5, <1>3

\* A lesson without money on it has nothing to release.
LEMMA NoMoney ==
    ASSUME TypeOK, NEW l \in Lessons, MoneyOn(l) = 0
    PROVE  \A p \in Payments : paid[p][l] = 0
<1> DEFINE f == [p \in Payments |-> paid[p][l]]
<1>1. \A p \in Payments : f[p] \in Nat
  BY MoneyFacts
<1>2. SumFunctionOnSet(f, Payments) = 0
  BY DEF MoneyOn
<1> HIDE DEF f
<1>3. \A p \in Payments : f[p] = 0
  BY <1>1, <1>2, SumZero, BillingAssumption
<1> QED
  BY <1>3 DEF f

\* What reversing a lesson's entries does to the money: nothing, to a lesson
\* that has none, and to the other lessons.
LEMMA ReleaseKeeps ==
    ASSUME TypeOK, TypeOK', NEW l \in Lessons, NEW entries, paid' = Released(entries, l)
    PROVE  /\ \A k \in Lessons : k # l => MoneyOn(k)' = MoneyOn(k)
           /\ MoneyOn(l) = 0 => MoneyOn(l)' = MoneyOn(l)
           /\ \A p \in Payments, k \in Lessons : paid[p][k] = 0 => paid'[p][k] = 0
<1>1. \A p \in Payments : /\ \A k \in Lessons : k # l => paid'[p][k] = paid[p][k]
                          /\ paid'[p][l] \in {0, paid[p][l]}
  BY ReleasedFacts
<1>2. ASSUME NEW k \in Lessons, k # l PROVE MoneyOn(k)' = MoneyOn(k)
  BY <1>1, <1>2, MoneySame
<1>3. ASSUME MoneyOn(l) = 0 PROVE MoneyOn(l)' = MoneyOn(l)
  <2>1. \A p \in Payments : paid[p][l] = 0
    BY <1>3, NoMoney
  <2>2. \A p \in Payments : paid'[p][l] = paid[p][l]
    BY <1>1, <2>1
  <2> QED
    BY <2>2, MoneySame
<1>4. \A p \in Payments, k \in Lessons : paid[p][k] = 0 => paid'[p][k] = 0
  BY <1>1
<1> QED
  BY <1>2, <1>3, <1>4

LEMMA MoneyUnchanged ==
    ASSUME UNCHANGED paid
    PROVE  \A k \in Lessons : MoneyOn(k)' = MoneyOn(k)
BY DEF MoneyOn

\* A lesson that an action does not touch.
LEMMA LessonSame ==
    ASSUME NEW k \in Lessons, MoneyInv, record'[k] = record[k], MoneyOn(k)' = MoneyOn(k),
           LiveOf(k, "unit")' = LiveOf(k, "unit")
    PROVE  (Backed(k) /\ PaidUp(k) /\ HasUnit(k))'
BY DEF MoneyInv, Backed, PaidUp, HasUnit

\* No billing has read free money that was not there.
LEMMA ReadSame ==
    ASSUME Unentered, \A p \in Payments : amount'[p] = 0 => amount[p] = 0,
           \A p \in Payments : amount'[p] = 0 => \A l \in Lessons : paid'[p][l] = 0,
           \A q \in Requests : request'[q].step = "settling" => request'[q] = request[q]
    PROVE  Unentered'
BY DEF Unentered

\* The lessons beside the one that an action works on.
LEMMA OthersPaid ==
    ASSUME TypeOK, MoneyInv, NEW l, NEW gone, gone \subseteq EntriesOf(l), OthersKept(l),
           \A k \in Lessons : k # l => MoneyOn(k)' = MoneyOn(k),
           \/ Reversed(gone)
           \/ \E e \in Entries : e.undone = 0 /\ e.lesson = l /\ Written(gone, e)
    PROVE  \A k \in Lessons : k # l => (Backed(k) /\ PaidUp(k) /\ HasUnit(k))'
<1> SUFFICES ASSUME NEW k \in Lessons, k # l PROVE (Backed(k) /\ PaidUp(k) /\ HasUnit(k))'
  OBVIOUS
<1>1. LiveOf(k, "unit")' = LiveOf(k, "unit")
  BY LiveElsewhere
<1>2. record'[k] = record[k] /\ MoneyOn(k)' = MoneyOn(k)
  BY DEF OthersKept
<1> QED
  BY <1>1, <1>2, LessonSame

LEMMA PrimedMoney ==
    ASSUME TypeOK', NEW l \in Lessons
    PROVE  MoneyOn(l)' \in Nat
<1> DEFINE f == [p \in Payments |-> paid'[p][l]]
<1>1. \A p \in Payments : f[p] \in Nat
  BY DEF TypeOK
<1>2. MoneyOn(l)' = SumFunctionOnSet(f, Payments)
  BY DEF MoneyOn
<1> HIDE DEF f
<1> QED
  BY <1>1, <1>2, SumIsNat, BillingAssumption

\* A lesson without money that is not shown as paid or as taken from the package.
LEMMA NothingShown ==
    ASSUME TypeOK', NEW l \in Lessons, record'[l].paid = 0,
           record'[l].finance \notin {"paid", "package"}
    PROVE  (Backed(l) /\ PaidUp(l) /\ HasUnit(l))'
BY PrimedMoney DEF Backed, PaidUp, HasUnit

\* Money and unit of a lesson as they were, and what its record shows too.
LEMMA ShownSame ==
    ASSUME MoneyInv, NEW l \in Lessons, MoneyOn(l)' = MoneyOn(l),
           LiveOf(l, "unit")' = LiveOf(l, "unit"), record'[l].paid = record[l].paid,
           record'[l].charged = record[l].charged, record'[l].finance = record[l].finance
    PROVE  (Backed(l) /\ PaidUp(l) /\ HasUnit(l))'
BY DEF MoneyInv, Backed, PaidUp, HasUnit

\* A lesson that is given some money, and is shown as the money makes it.
LEMMA ShownGrows ==
    ASSUME TypeOK, MoneyInv, NEW l \in Lessons, NEW money \in Nat, NEW charged \in Nat,
           MoneyOn(l)' = MoneyOn(l) + money, record'[l].paid = record[l].paid + money,
           record'[l].charged = charged,
           record'[l].finance = FinanceFor(charged, record[l].paid + money)
    PROVE  (Backed(l) /\ PaidUp(l) /\ HasUnit(l))'
<1>1. record[l].paid \in Nat /\ MoneyOn(l) \in Nat /\ record[l].paid <= MoneyOn(l)
  BY RecordFacts, MoneyFacts DEF MoneyInv, Backed
<1>2. Backed(l)'
  BY <1>1 DEF Backed
<1>3. record[l].paid + money \in Nat
  BY <1>1
<1>4. /\ record'[l].finance # "package"
      /\ record'[l].finance = "paid" => record'[l].paid >= record'[l].charged
  BY <1>3, FinanceFacts
<1> QED
  BY <1>2, <1>4 DEF PaidUp, HasUnit

LEMMA BillUnitMoney ==
    ASSUME TypeOK, TypeOK', LedgerInv, MoneyInv, NEW q \in Requests, BillUnit(q)
    PROVE  MoneyInv'
<1>1. PICK l \in Lessons :
          request[q].lesson = l /\ request[q].step = "settling" /\ request[q].auto \in BOOLEAN
  BY BillWrites
<1> DEFINE e == Entry(l, "unit", request[q].auto, 0)
<1>2. LiveOf(l, "unit") = {}
  BY <1>1, LiveKinds DEF LedgerInv, Held
<1>3. e \in Entries /\ Written({}, e)
  BY <1>1, <1>2, BillWrites
<1>4. e.undone = 0 /\ e.lesson = l /\ e.kind = "unit"
  BY DEF Entry
<1> HIDE DEF e
<1>5. OthersKept(l) /\ record'[l].finance = "package" /\ record'[l].paid = 0
  BY <1>1, BillRecords
<1>6. UNCHANGED <<amount, paid>> /\ request' = [request EXCEPT ![q] = Idle]
  BY DEF BillUnit
<1>7. \A k \in Lessons : k # l => (Backed(k) /\ PaidUp(k) /\ HasUnit(k))'
  BY <1>3, <1>4, <1>5, <1>6, MoneyUnchanged, OthersPaid
<1>8. HasUnit(l)'
  <2>1. LiveOf(l, "unit")' = {Len(ledger) + 1}
    BY <1>2, <1>3, <1>4, LiveWritten
  <2> QED
    BY <2>1 DEF HasUnit
<1>9. Backed(l)' /\ PaidUp(l)'
  BY <1>5, <1>6, MoneyUnchanged, MoneyFacts DEF Backed, PaidUp
<1>10. Unentered'
  BY <1>6, ReadSame DEF MoneyInv, Unentered, TypeOK, Idle
<1> QED
  BY <1>7, <1>8, <1>9, <1>10 DEF MoneyInv

LEMMA BillMoneyMoney ==
    ASSUME TypeOK, TypeOK', LedgerInv, MoneyInv, NEW q \in Requests, BillMoney(q)
    PROVE  MoneyInv'
<1>1. PICK l \in Lessons :
          request[q].lesson = l /\ request[q].step = "settling" /\ request[q].auto \in BOOLEAN
  BY BillWrites
<1> DEFINE e == Entry(l, "charge", request[q].auto, 0)
           due == Above(Price, record[l].paid)
           taken == [p \in Payments |-> TakenFrom(request[q].free, due, p)]
           money == SumFunctionOnSet(taken, Payments)
<1>2. LiveOf(l, "charge") = {}
  BY <1>1, LiveKinds DEF LedgerInv, Held
<1>3. e \in Entries /\ Written({}, e)
  BY <1>1, <1>2, EntryFacts, UndoneNone DEF BillMoney, Written
<1>4. e.undone = 0 /\ e.lesson = l
  BY DEF Entry
<1>5. taken \in Money /\ money \in Nat /\ \A p \in Payments : taken[p] <= request[q].free[p]
  BY <1>1, BillMoneyFacts
<1>6. /\ paid' = [p \in Payments |-> [paid[p] EXCEPT ![l] = @ + taken[p]]]
      /\ OthersKept(l) /\ record'[l].charged = Price /\ record'[l].paid = record[l].paid + money
      /\ record'[l].finance = FinanceFor(Price, record[l].paid + money)
      /\ request' = [request EXCEPT ![q] = Idle] /\ UNCHANGED amount
  BY <1>1 DEF BillMoney, OthersKept, TypeOK
<1> HIDE DEF e, taken
<1>7. \A p \in Payments : /\ paid'[p][l] = paid[p][l] + taken[p]
                          /\ \A k \in Lessons : k # l => paid'[p][k] = paid[p][k]
  BY <1>6 DEF TypeOK
<1>8. \A k \in Lessons : k # l => MoneyOn(k)' = MoneyOn(k)
  BY <1>7, MoneySame
<1>9. MoneyOn(l)' = MoneyOn(l) + money
  BY <1>5, <1>7, MoneyAdds
<1> HIDE DEF money
<1>10. (Backed(l) /\ PaidUp(l) /\ HasUnit(l))'
  BY <1>5, <1>6, <1>9, ShownGrows, BillingAssumption
<1>11. \A k \in Lessons : k # l => (Backed(k) /\ PaidUp(k) /\ HasUnit(k))'
  BY <1>3, <1>4, <1>6, <1>8, OthersPaid
<1>12. Unentered'
  <2>1. ASSUME NEW p \in Payments, amount[p] = 0, NEW k \in Lessons PROVE paid'[p][k] = 0
    <3>1. paid[p][k] = 0 /\ request[q].free[p] = 0
      BY <1>1, <2>1 DEF MoneyInv, Unentered
    <3>2. taken[p] \in Nat /\ taken[p] <= 0
      BY <1>5, <3>1 DEF Money
    <3> QED
      BY <1>7, <3>1, <3>2
  <2> QED
    BY <1>6, <2>1, ReadSame DEF MoneyInv, TypeOK, Idle
<1> QED
  BY <1>10, <1>11, <1>12 DEF MoneyInv

\* The lesson's record shows nothing after its entries are reversed.
LEMMA ReverseMoney ==
    ASSUME TypeOK, TypeOK', MoneyInv, NEW l \in Lessons, NEW gone, gone \subseteq EntriesOf(l),
           Reversed(gone), paid' = Released(gone, l), OthersKept(l), UNCHANGED amount,
           record'[l].paid = 0, record'[l].finance \notin {"paid", "package"}, Unheld(l)
    PROVE  MoneyInv'
<1>1. /\ \A k \in Lessons : k # l => MoneyOn(k)' = MoneyOn(k)
      /\ \A p \in Payments, k \in Lessons : paid[p][k] = 0 => paid'[p][k] = 0
  BY ReleaseKeeps
<1>2. \A k \in Lessons : k # l => (Backed(k) /\ PaidUp(k) /\ HasUnit(k))'
  BY <1>1, OthersPaid
<1>3. (Backed(l) /\ PaidUp(l) /\ HasUnit(l))'
  BY NothingShown
<1>4. \A p \in Payments : amount'[p] = 0 => \A k \in Lessons : paid'[p][k] = 0
  BY <1>1 DEF MoneyInv, Unentered
<1>5. Unentered'
  BY <1>4, ReadSame DEF MoneyInv, Unheld
<1> QED
  BY <1>2, <1>3, <1>5 DEF MoneyInv

\* The entries and the money stay, and what the lesson's record shows too.
LEMMA KeepMoney ==
    ASSUME TypeOK, MoneyInv, NEW l \in Lessons, UNCHANGED <<ledger, amount, paid>>,
           OthersKept(l), record'[l].paid = record[l].paid, Unheld(l),
           record'[l].charged = record[l].charged, record'[l].finance = record[l].finance
    PROVE  MoneyInv'
<1>1. \A k \in Lessons : MoneyOn(k)' = MoneyOn(k) /\ LiveOf(k, "unit")' = LiveOf(k, "unit")
  BY MoneyUnchanged DEF LiveOf, EntriesOf, Live
<1>2. \A k \in Lessons : k # l => (Backed(k) /\ PaidUp(k) /\ HasUnit(k))'
  BY <1>1, LessonSame DEF OthersKept
<1>3. (Backed(l) /\ PaidUp(l) /\ HasUnit(l))'
  BY <1>1, ShownSame
<1>4. Unentered'
  BY ReadSame DEF MoneyInv, Unheld, Unentered
<1> QED
  BY <1>2, <1>3, <1>4 DEF MoneyInv

LEMMA UndoMoney ==
    ASSUME TypeOK, TypeOK', MoneyInv, NEW l \in Lessons, SkipBilling(l) \/ Unfinalize(l)
    PROVE  MoneyInv'
<1>1. Unheld(l)
  BY UnheldFacts DEF SkipBilling, Unfinalize
<1>2. LiveEntries(l) \subseteq EntriesOf(l)
  BY LiveKinds
<1>3. CASE SkipBilling(l) /\ HasPayment(l)
  <2>1. ledger' = ledger /\ UNCHANGED amount
    BY <1>3, UndoneNone DEF SkipBilling
  <2>2. paid' = paid
    BY <1>3 DEF SkipBilling, Released
  <2>3. /\ OthersKept(l) /\ record'[l].paid = record[l].paid
        /\ record'[l].charged = record[l].charged /\ record'[l].finance = record[l].finance
    BY <1>3, SkipRecords
  <2> QED
    BY <1>1, <2>1, <2>2, <2>3, KeepMoney
<1>4. CASE SkipBilling(l) /\ ~HasPayment(l)
  <2>1. Reversed(LiveEntries(l)) /\ paid' = Released(LiveEntries(l), l) /\ UNCHANGED amount
    BY <1>4 DEF SkipBilling, Reversed
  <2>2. OthersKept(l) /\ record'[l].paid = 0 /\ record'[l].finance = "not_billable"
    BY <1>4, SkipRecords
  <2> QED
    BY <1>1, <1>2, <2>1, <2>2, ReverseMoney
<1>5. CASE Unfinalize(l)
  <2>1. Reversed(LiveEntries(l)) /\ paid' = Released(LiveEntries(l), l) /\ UNCHANGED amount
    BY <1>5 DEF Unfinalize, Reversed
  <2>2. OthersKept(l) /\ record'[l].paid = 0 /\ record'[l].finance = "not_charged"
    BY <1>5, UnfinalizeRecords
  <2> QED
    BY <1>1, <1>2, <2>1, <2>2, ReverseMoney
<1> QED
  BY <1>3, <1>4, <1>5

LEMMA SettleMoney ==
    ASSUME TypeOK, TypeOK', MoneyInv, NEW l \in Lessons, SettleFromPackage(l)
    PROVE  MoneyInv'
<1> DEFINE gone == LiveOf(l, "charge")
           e == Entry(l, "unit", FALSE, record[l].charged)
<1>1. gone \subseteq EntriesOf(l)
  BY LiveKinds
<1>2. e \in Entries /\ Written(gone, e)
  BY SettleWrites
<1>3. e.undone = 0 /\ e.lesson = l /\ e.kind = "unit"
  BY DEF Entry
<1>4. Unheld(l) /\ UNCHANGED <<amount, paid>>
  BY UnheldFacts DEF SettleFromPackage
<1>5. OthersKept(l) /\ record'[l].finance = "package" /\ record'[l].paid = 0
  BY SettleRecords
<1> HIDE DEF e, gone
<1>6. \A k \in Lessons : k # l => (Backed(k) /\ PaidUp(k) /\ HasUnit(k))'
  BY <1>1, <1>2, <1>3, <1>4, <1>5, MoneyUnchanged, OthersPaid
<1>7. HasUnit(l)'
  <2>1. Len(ledger) + 1 \in LiveOf(l, "unit")'
    BY <1>2, <1>3, LiveWritten
  <2> QED
    BY <2>1 DEF HasUnit
<1>8. Backed(l)' /\ PaidUp(l)'
  BY <1>4, <1>5, MoneyUnchanged, MoneyFacts DEF Backed, PaidUp
<1>9. Unentered'
  BY <1>4, ReadSame DEF MoneyInv, Unheld, Unentered
<1> QED
  BY <1>6, <1>7, <1>8, <1>9 DEF MoneyInv

LEMMA RefundMoney ==
    ASSUME TypeOK, TypeOK', MoneyInv, NEW l \in Lessons, RefundUnit(l)
    PROVE  MoneyInv'
<1> DEFINE e == Entry(l, "charge", FALSE, 0)
<1>1. PICK i \in LiveOf(l, "unit") : Reversed({i}) \/ Written({i}, e)
  BY RefundWrites
<1>2. {i} \subseteq EntriesOf(l)
  BY LiveKinds
<1>3. e \in Entries /\ e.undone = 0 /\ e.lesson = l
  BY EntryFacts DEF Entry
<1>4. Unheld(l) /\ UNCHANGED <<amount, paid>>
  BY UnheldFacts DEF RefundUnit
<1>5. OthersKept(l) /\ record'[l].finance = "awaiting" /\ record'[l].paid = record[l].paid
  BY RefundRecords
<1> HIDE DEF e
<1>6. \A k \in Lessons : k # l => (Backed(k) /\ PaidUp(k) /\ HasUnit(k))'
  BY <1>1, <1>2, <1>3, <1>4, <1>5, MoneyUnchanged, OthersPaid
<1>7. (Backed(l) /\ PaidUp(l) /\ HasUnit(l))'
  BY <1>4, <1>5, MoneyUnchanged DEF MoneyInv, Backed, PaidUp, HasUnit
<1>8. Unentered'
  BY <1>4, ReadSame DEF MoneyInv, Unheld, Unentered
<1> QED
  BY <1>6, <1>7, <1>8 DEF MoneyInv

LEMMA CancelMoney ==
    ASSUME TypeInv, TypeOK', MoneyInv, NEW q \in Requests, CancelUndoes(q) \/ CancelKeepsPaid(q)
    PROVE  MoneyInv'
<1>1. TypeOK
  BY DEF TypeInv
<1>2. PICK l \in Lessons : request[q].lesson = l
  BY <1>1, KeepRecords, UndoneRecords
<1>3. Unheld(l)
  BY <1>1, <1>2, UnheldFacts DEF CancelUndoes, CancelKeepsPaid
<1>4. CASE CancelUndoes(q)
  <2>1. /\ OthersKept(l) /\ request[q].entries \subseteq EntriesOf(l)
        /\ record'[l].paid = 0 /\ record'[l].finance = "not_billable"
    BY <1>2, <1>4, UndoneRecords
  <2>2. /\ Reversed(request[q].entries) /\ paid' = Released(request[q].entries, l)
        /\ UNCHANGED amount
    BY <1>2, <1>4 DEF CancelUndoes, Reversed
  <2> QED
    BY <1>1, <1>3, <2>1, <2>2, ReverseMoney
<1>5. CASE CancelKeepsPaid(q)
  <2>1. /\ OthersKept(l) /\ record'[l].paid = record[l].paid
        /\ record'[l].charged = record[l].charged /\ record'[l].finance = record[l].finance
    BY <1>1, <1>2, <1>5, KeepRecords
  <2>2. UNCHANGED <<ledger, amount, paid>>
    BY <1>5 DEF CancelKeepsPaid
  <2> QED
    BY <1>1, <1>3, <2>1, <2>2, KeepMoney
<1> QED
  BY <1>4, <1>5

\* The payment that is entered had given nothing before.
LEMMA MarkMoney ==
    ASSUME TypeOK, TypeOK', MoneyInv, NEW l \in Lessons, NEW p \in Payments, MarkPaid(l, p)
    PROVE  MoneyInv' /\ MoneyOn(l)' >= MoneyOn(l)
                     /\ \A k \in Lessons : k # l => MoneyOn(k)' = MoneyOn(k)
<1>1. PICK money, charged \in Nat :
          /\ amount'[p] > 0 /\ \A k \in Payments : k # p => amount'[k] = amount[k]
          /\ paid' = [paid EXCEPT ![p][l] = money]
          /\ OthersKept(l) /\ record'[l].charged = charged
          /\ record'[l].paid = record[l].paid + money
          /\ record'[l].finance = FinanceFor(charged, record[l].paid + money)
  BY MarkRecords
<1>2. amount[p] = 0 /\ UNCHANGED <<ledger, request>>
  <2>1. amount[p] \in Nat /\ ~(amount[p] > 0)
    BY DEF MarkPaid, NextPayment, Entered, TypeOK
  <2> QED
    BY <2>1 DEF MarkPaid
<1>3. paid[p][l] = 0
  BY <1>2 DEF MoneyInv, Unentered
<1>4. /\ paid'[p][l] = money
      /\ \A k \in Payments : k # p => paid'[k] = paid[k]
      /\ \A j \in Lessons : j # l => paid'[p][j] = paid[p][j]
  BY <1>1 DEF TypeOK
<1>5. MoneyOn(l)' = MoneyOn(l) + money
  BY <1>3, <1>4, MoneyReplaced
<1>6. \A k \in Lessons : k # l => MoneyOn(k)' = MoneyOn(k)
  BY <1>4, MoneySame
<1>7. (Backed(l) /\ PaidUp(l) /\ HasUnit(l))'
  BY <1>1, <1>5, ShownGrows
<1>8. \A k : LiveOf(k, "unit")' = LiveOf(k, "unit")
  BY <1>2 DEF LiveOf, EntriesOf, Live
<1>9. \A k \in Lessons : k # l => (Backed(k) /\ PaidUp(k) /\ HasUnit(k))'
  BY <1>1, <1>6, <1>8, LessonSame DEF OthersKept
<1>10. \A k \in Payments : amount'[k] = 0 => k # p /\ amount[k] = 0
  BY <1>1
<1>11. Unentered'
  BY <1>2, <1>4, <1>10, ReadSame DEF MoneyInv, Unentered
<1>12. MoneyOn(l) \in Nat
  BY MoneyFacts
<1> QED
  BY <1>5, <1>6, <1>7, <1>9, <1>11, <1>12 DEF MoneyInv

LEMMA RegisterMoney ==
    ASSUME TypeOK, TypeOK', MoneyInv, NEW p \in Payments, NEW sum \in Amounts,
           RegisterPayment(p, sum)
    PROVE  MoneyInv' /\ \A l \in Lessons : MoneyOn(l)' >= MoneyOn(l)
<1>1. /\ amount'[p] > 0 /\ \A k \in Payments : k # p => amount'[k] = amount[k]
      /\ paid' = [paid EXCEPT ![p] = [l \in Lessons |-> Given(sum, l)]]
      /\ \A l \in Lessons :
            /\ Given(sum, l) \in Nat
            /\ record'[l].paid = record[l].paid + Given(sum, l)
            /\ record'[l].charged = record[l].charged
            /\ IF Given(sum, l) = 0
               THEN record'[l].finance = record[l].finance
               ELSE record'[l].finance = FinanceFor(record'[l].charged, record'[l].paid)
  BY RegisterRecords
<1>2. amount[p] = 0 /\ UNCHANGED <<ledger, request>>
  <2>1. amount[p] \in Nat /\ ~(amount[p] > 0)
    BY DEF RegisterPayment, NextPayment, Entered, TypeOK
  <2>2. UNCHANGED <<ledger, request>>
    BY DEF RegisterPayment
  <2>3. \A a \in Nat : ~(a > 0) => a = 0
    OBVIOUS
  <2> QED
    BY <2>1, <2>2, <2>3
<1>3. \A l \in Lessons : paid[p][l] = 0
  BY <1>2 DEF MoneyInv, Unentered
<1>4. /\ \A l \in Lessons : paid'[p][l] = Given(sum, l)
      /\ \A k \in Payments : k # p => paid'[k] = paid[k]
  BY <1>1 DEF TypeOK
<1>5. ASSUME NEW l \in Lessons
      PROVE  /\ MoneyOn(l)' = MoneyOn(l) + Given(sum, l)
             /\ (Backed(l) /\ PaidUp(l) /\ HasUnit(l))'
  <2> DEFINE money == Given(sum, l)
  <2>1. MoneyOn(l)' = MoneyOn(l) + money
    BY <1>3, <1>4, MoneyReplaced
  <2>2. LiveOf(l, "unit")' = LiveOf(l, "unit")
    BY <1>2 DEF LiveOf, EntriesOf, Live
  <2>3. /\ money \in Nat /\ record'[l].paid = record[l].paid + money
        /\ record'[l].charged = record[l].charged
        /\ IF money = 0
           THEN record'[l].finance = record[l].finance
           ELSE record'[l].finance = FinanceFor(record[l].charged, record[l].paid + money)
    BY <1>1
  <2> HIDE DEF money
  <2>4. ASSUME money = 0 PROVE (Backed(l) /\ PaidUp(l) /\ HasUnit(l))'
    <3>1. MoneyOn(l)' = MoneyOn(l) /\ record'[l].paid = record[l].paid
      BY <2>1, <2>3, <2>4, MoneyFacts, RecordFacts
    <3> QED
      BY <2>2, <2>3, <2>4, <3>1, ShownSame
  <2>5. ASSUME money # 0 PROVE (Backed(l) /\ PaidUp(l) /\ HasUnit(l))'
    BY <2>1, <2>3, <2>5, RecordFacts, ShownGrows
  <2> QED
    BY <2>1, <2>4, <2>5 DEF money
<1>6. \A l \in Lessons : MoneyOn(l)' >= MoneyOn(l)
  <2> SUFFICES ASSUME NEW l \in Lessons PROVE MoneyOn(l)' >= MoneyOn(l)
    OBVIOUS
  <2> DEFINE money == Given(sum, l)
  <2>1. MoneyOn(l)' = MoneyOn(l) + money /\ money \in Nat /\ MoneyOn(l) \in Nat
    BY <1>1, <1>5, MoneyFacts
  <2> HIDE DEF money
  <2> QED
    BY <2>1
<1>7. \A k \in Payments : amount'[k] = 0 => k # p /\ amount[k] = 0
  BY <1>1
<1>8. Unentered'
  BY <1>2, <1>4, <1>7, ReadSame DEF MoneyInv, Unentered
<1> QED
  BY <1>5, <1>6, <1>8 DEF MoneyInv

\* An action on requests alone, none of which reads free money.
LEMMA QuietMoney ==
    ASSUME MoneyInv, UNCHANGED <<record, ledger, amount, paid>>,
           \A q \in Requests : request'[q].step = "settling" => request'[q] = request[q]
    PROVE  MoneyInv'
<1>1. Unentered'
  BY ReadSame DEF MoneyInv, Unentered
<1>2. \A k \in Lessons : MoneyOn(k)' = MoneyOn(k) /\ LiveOf(k, "unit")' = LiveOf(k, "unit")
  BY MoneyUnchanged DEF LiveOf, EntriesOf, Live
<1> QED
  BY <1>1, <1>2, LessonSame DEF MoneyInv

\* A payment that is not entered has no free money to read.
LEMMA LockMoney ==
    ASSUME TypeOK, MoneyInv, NEW q \in Requests, LockForBilling(q)
    PROVE  MoneyInv'
<1>1. UNCHANGED <<record, ledger, amount, paid>>
  BY DEF LockForBilling
<1>2. /\ \A c \in Requests : c # q => request'[c] = request[c]
      /\ request'[q].free = [p \in Payments |-> Free(p)]
  BY DEF LockForBilling, TypeOK
<1>3. ASSUME NEW p \in Payments, amount[p] = 0 PROVE Free(p) = 0
  <2> DEFINE spent == SumFunctionOnSet(paid[p], Lessons)
  <2>1. spent \in Nat
    BY SumIsNat, MoneyFacts, BillingAssumption
  <2>2. Free(p) = Above(0, spent)
    BY <1>3 DEF Free
  <2> HIDE DEF spent
  <2> QED
    BY <2>1, <2>2 DEF Above
<1>4. Unentered'
  BY <1>1, <1>2, <1>3 DEF MoneyInv, Unentered
<1>5. \A k \in Lessons : MoneyOn(k)' = MoneyOn(k) /\ LiveOf(k, "unit")' = LiveOf(k, "unit")
  BY <1>1, MoneyUnchanged DEF LiveOf, EntriesOf, Live
<1> QED
  BY <1>1, <1>4, <1>5, LessonSame DEF MoneyInv

LEMMA StepMoney == TypeInv /\ LedgerInv /\ MoneyInv /\ [Next]_vars => MoneyInv'
<1> SUFFICES ASSUME TypeInv, LedgerInv, MoneyInv, [Next]_vars PROVE MoneyInv'
  OBVIOUS
<1>1. TypeOK /\ TypeOK'
  BY StepTypes DEF TypeInv
<1>2. QuietStep => MoneyInv'
  BY QuietMoney DEF QuietStep
<1>3. ASSUME NEW q \in Requests, Step(q) PROVE MoneyInv'
  <2>1. CASE BillUnit(q)
    BY <1>1, <2>1, BillUnitMoney
  <2>2. CASE BillMoney(q)
    BY <1>1, <2>2, BillMoneyMoney
  <2>3. CASE LockForBilling(q)
    BY <1>1, <2>3, LockMoney
  <2>4. CASE CancelUndoes(q) \/ CancelKeepsPaid(q)
    BY <1>1, <2>4, CancelMoney
  <2> QED
    BY <1>1, <1>2, <1>3, <2>1, <2>2, <2>3, <2>4, QuietActions DEF Step
<1>4. ASSUME NEW l \in Lessons,
             SkipBilling(l) \/ Unfinalize(l) \/ SettleFromPackage(l) \/ RefundUnit(l) \/ Restore(l)
      PROVE  MoneyInv'
  BY <1>1, <1>2, <1>4, UndoMoney, SettleMoney, RefundMoney, QuietActions
<1>5. ASSUME NEW l \in Lessons, NEW p \in Payments, MarkPaid(l, p) PROVE MoneyInv'
  BY <1>1, <1>5, MarkMoney
<1>6. ASSUME NEW p \in Payments, NEW sum \in Amounts, RegisterPayment(p, sum) PROVE MoneyInv'
  BY <1>1, <1>6, RegisterMoney
<1> QED
  BY <1>1, <1>2, <1>3, <1>4, <1>5, <1>6, QuietActions DEF Next

\* What the inductive invariant is, in all.
BillingInv == TypeInv /\ LedgerInv /\ MoneyInv

LEMMA BillingInvHolds == Spec => []BillingInv
<1>1. Init => BillingInv
  BY InitTypes, InitLedger, InitMoney DEF BillingInv
<1>2. BillingInv /\ [Next]_vars => BillingInv'
  BY StepTypeInv, StepLedger, StepMoney DEF BillingInv
<1> QED
  BY <1>1, <1>2, PTL DEF Spec

\* A lesson is never shown as taken from the package without a unit that is
\* not reversed, nor as paid without so much money of payments on it.
THEOREM SettlementsAreReal == Spec => []SettlementIsReal
<1>1. BillingInv => SettlementIsReal
  <2> SUFFICES ASSUME BillingInv, NEW l \in Lessons
               PROVE  /\ record[l].finance = "package" => LiveOf(l, "unit") # {}
                      /\ record[l].finance = "paid" => MoneyOn(l) >= record[l].charged
    BY DEF SettlementIsReal
  <2>1. /\ record[l].paid \in Nat /\ record[l].charged \in Nat /\ MoneyOn(l) \in Nat
    BY RecordFacts, MoneyFacts DEF BillingInv, TypeInv
  <2>2. /\ record[l].finance = "package" => LiveOf(l, "unit") # {}
        /\ record[l].finance = "paid" => record[l].paid >= record[l].charged
        /\ record[l].paid <= MoneyOn(l)
    BY DEF BillingInv, MoneyInv, Backed, PaidUp, HasUnit
  <2> QED
    BY <2>1, <2>2
<1> QED
  BY BillingInvHolds, <1>1, PTL

-----------------------------------------------------------------------------
(* Money stays on its lesson.                                              *)

\* Billing for money adds to the lesson's money what it takes.
LEMMA BillMoneyAdds ==
    ASSUME TypeOK, TypeOK', NEW q \in Requests, BillMoney(q)
    PROVE  \A k \in Lessons : MoneyOn(k)' >= MoneyOn(k)
<1>1. PICK l \in Lessons : request[q].lesson = l /\ request[q].step = "settling"
  BY BillWrites
<1> DEFINE taken == [p \in Payments |->
                        TakenFrom(request[q].free, Above(Price, record[l].paid), p)]
           money == SumFunctionOnSet(taken, Payments)
<1>2. taken \in Money /\ money \in Nat
  BY <1>1, BillMoneyFacts
<1>3. paid' = [p \in Payments |-> [paid[p] EXCEPT ![l] = @ + taken[p]]]
  BY <1>1 DEF BillMoney
<1> HIDE DEF taken
<1>4. \A p \in Payments : /\ paid'[p][l] = paid[p][l] + taken[p]
                          /\ \A k \in Lessons : k # l => paid'[p][k] = paid[p][k]
  BY <1>3 DEF TypeOK
<1>5. MoneyOn(l)' = MoneyOn(l) + money
  BY <1>2, <1>4, MoneyAdds
<1>6. \A k \in Lessons : k # l => MoneyOn(k)' = MoneyOn(k)
  BY <1>4, MoneySame
<1> HIDE DEF money
<1>7. \A k \in Lessons : MoneyOn(k) \in Nat
  BY MoneyFacts
<1> QED
  BY <1>2, <1>5, <1>6, <1>7

\* The teacher's reversals find no money on the lesson.
LEMMA UndoStays ==
    ASSUME TypeOK, TypeOK', NEW l \in Lessons, SkipBilling(l) \/ Unfinalize(l)
    PROVE  \A k \in Lessons : MoneyOn(k)' = MoneyOn(k)
<1>1. MoneyOn(l) \in Nat
  BY MoneyFacts
<1>2. ASSUME ~HasPayment(l) PROVE MoneyOn(l) = 0
  BY <1>1, <1>2 DEF HasPayment
<1>3. CASE SkipBilling(l) /\ HasPayment(l)
  BY <1>3, MoneyUnchanged DEF SkipBilling, Released
<1>4. CASE SkipBilling(l) /\ ~HasPayment(l)
  <2>1. paid' = Released(LiveEntries(l), l)
    BY <1>4 DEF SkipBilling
  <2> QED
    BY <1>2, <1>4, <2>1, ReleaseKeeps
<1>5. CASE Unfinalize(l)
  <2>1. paid' = Released(LiveEntries(l), l) /\ ~HasPayment(l)
    BY <1>5 DEF Unfinalize
  <2> QED
    BY <1>2, <2>1, ReleaseKeeps
<1> QED
  BY <1>3, <1>4, <1>5

\* What takes the money off a lesson: a cancellation that saw none.
TakesOff(l) ==
    \E q \in Requests : /\ request[q].step = "undoing" /\ ~request[q].paid
                        /\ request[q].lesson = l /\ request'[q] = Idle

LEMMA StepStays ==
    ASSUME BillingInv, [Next]_vars, NEW k \in Lessons, ~TakesOff(k)
    PROVE  MoneyOn(k)' >= MoneyOn(k)
<1>1. TypeOK /\ TypeOK' /\ MoneyOn(k) \in Nat /\ MoneyInv
  BY StepTypes, MoneyFacts DEF BillingInv, TypeInv
<1>2. MoneyOn(k)' = MoneyOn(k) => MoneyOn(k)' >= MoneyOn(k)
  BY <1>1
<1>3. UNCHANGED paid => MoneyOn(k)' >= MoneyOn(k)
  BY <1>2, MoneyUnchanged
<1>4. ASSUME NEW q \in Requests, Step(q) PROVE MoneyOn(k)' >= MoneyOn(k)
  <2>1. CASE BillMoney(q)
    BY <1>1, <2>1, BillMoneyAdds
  <2>2. CASE CancelUndoes(q)
    <3>1. PICK l \in Lessons : request[q].lesson = l
      BY <1>1, <2>2, RequestFacts DEF CancelUndoes
    <3>2. TakesOff(l)
      BY <1>1, <2>2, <3>1 DEF CancelUndoes, TakesOff, TypeOK
    <3>3. paid' = Released(request[q].entries, l) /\ k # l
      BY <2>2, <3>1, <3>2 DEF CancelUndoes
    <3> QED
      BY <1>1, <1>2, <3>3, ReleaseKeeps
  <2>3. CASE BillUnit(q) \/ LockForBilling(q) \/ CancelKeepsPaid(q)
    BY <1>3, <2>3 DEF BillUnit, LockForBilling, CancelKeepsPaid
  <2> QED
    BY <1>1, <1>3, <1>4, <2>1, <2>2, <2>3, QuietActions DEF Step, QuietStep
<1>5. ASSUME NEW l \in Lessons,
             SkipBilling(l) \/ Unfinalize(l) \/ SettleFromPackage(l) \/ RefundUnit(l) \/ Restore(l)
      PROVE  MoneyOn(k)' >= MoneyOn(k)
  BY <1>1, <1>2, <1>3, <1>5, UndoStays DEF SettleFromPackage, RefundUnit, Restore
<1>6. ASSUME NEW l \in Lessons, NEW p \in Payments, MarkPaid(l, p)
      PROVE  MoneyOn(k)' >= MoneyOn(k)
  BY <1>1, <1>2, <1>6, MarkMoney
<1>7. ASSUME NEW p \in Payments, NEW sum \in Amounts, RegisterPayment(p, sum)
      PROVE  MoneyOn(k)' >= MoneyOn(k)
  BY <1>1, <1>7, RegisterMoney
<1> QED
  BY <1>1, <1>3, <1>4, <1>5, <1>6, <1>7, QuietActions DEF Next, QuietStep

\* No reversal takes the money of a payment off a lesson, except one by a
\* cancellation that had looked for payments before there was any.
THEOREM MoneyStaysOnLessons == Spec => MoneyStays
<1>1. BillingInv /\ [Next]_vars =>
          [\A l \in Lessons :
              MoneyOn(l)' < MoneyOn(l) =>
                  \E q \in Requests : /\ request[q].step = "undoing" /\ ~request[q].paid
                                      /\ request[q].lesson = l /\ request'[q] = Idle]_vars
  <2> SUFFICES ASSUME BillingInv, [Next]_vars, NEW l \in Lessons, MoneyOn(l)' < MoneyOn(l)
               PROVE  TakesOff(l)
    BY DEF TakesOff
  <2>1. TypeOK /\ TypeOK'
    BY StepTypes DEF BillingInv, TypeInv
  <2>2. MoneyOn(l) \in Nat /\ MoneyOn(l)' \in Nat
    BY <2>1, MoneyFacts, PrimedMoney
  <2> QED
    BY <2>2, StepStays
<1> QED
  BY BillingInvHolds, <1>1, PTL DEF MoneyStays, Spec

-----------------------------------------------------------------------------
(* Units add up.  A reversal puts back as many units as the entries it     *)
(* lists; the live units among them are the units that leave the lessons.  *)
(* The two differ by the listed units that were reversed in between.       *)

LiveUnits == {i \in DOMAIN ledger : Live(i) /\ ledger[i].kind = "unit"}

LEMMA UnitsReversed ==
    ASSUME TypeOK, NEW gone, Reversed(gone)
    PROVE  LiveUnits' = LiveUnits \ gone
<1> DEFINE book == Undone(gone)
<1>1. /\ DOMAIN book = DOMAIN ledger
      /\ \A i \in DOMAIN ledger :
            /\ book[i].kind = ledger[i].kind
            /\ book[i].undone = 0 <=> ledger[i].undone = 0 /\ i \notin gone
  BY UndoneFacts
<1>2. ledger' = book
  BY DEF Reversed
<1> HIDE DEF book
<1> QED
  BY <1>1, <1>2 DEF LiveUnits, Live

LEMMA UnitsWritten ==
    ASSUME TypeOK, NEW gone, NEW e \in Entries, e.undone = 0, Written(gone, e)
    PROVE  /\ LiveUnits' = (LiveUnits \ gone)
                              \cup (IF e.kind = "unit" THEN {Len(ledger) + 1} ELSE {})
           /\ Len(ledger) + 1 \notin LiveUnits
<1> DEFINE book == Undone(gone)
           new == Len(ledger) + 1
<1>1. /\ book \in Seq(Entries) /\ Len(book) = Len(ledger) /\ DOMAIN book = DOMAIN ledger
      /\ \A i \in DOMAIN ledger :
            /\ book[i].kind = ledger[i].kind
            /\ book[i].undone = 0 <=> ledger[i].undone = 0 /\ i \notin gone
  BY UndoneFacts
<1>2. ledger' = Append(book, e)
  BY DEF Written
<1> HIDE DEF book
<1>3. /\ DOMAIN ledger' = (DOMAIN ledger) \cup {new} /\ new \notin DOMAIN ledger
      /\ \A i \in DOMAIN ledger : ledger'[i] = book[i]
      /\ ledger'[new] = e
  BY <1>1, <1>2, AppendFacts
<1> HIDE DEF new
<1>4. LiveUnits' = (LiveUnits \ gone) \cup (IF e.kind = "unit" THEN {new} ELSE {})
  BY <1>1, <1>3 DEF LiveUnits, Live
<1> QED
  BY <1>3, <1>4 DEF new, LiveUnits

\* The live units in a list of entries are counted once in the whole.
LEMMA UnitsCount ==
    ASSUME TypeOK, NEW gone, gone \subseteq DOMAIN ledger
    PROVE  /\ IsFiniteSet(LiveUnits) /\ IsFiniteSet(LiveUnits \ gone)
           /\ Cardinality(LiveUnits) \in Nat /\ Cardinality(LiveUnits \ gone) \in Nat
           /\ Cardinality(LiveUnits \ gone)
                 = Cardinality(LiveUnits) - Cardinality(LiveUnits \cap gone)
           /\ Cardinality(LiveUnits \cap gone) \in Nat /\ UnitsIn(gone) \in Nat
           /\ Cardinality(LiveUnits \cap gone) <= UnitsIn(gone)
           /\ (\A i \in gone : Live(i)) => Cardinality(LiveUnits \cap gone) = UnitsIn(gone)
<1> DEFINE units == {i \in gone : ledger[i].kind = "unit"}
           both == LiveUnits \cap gone
<1>1. IsFiniteSet(LiveUnits)
  <2>1. IsFiniteSet(DOMAIN ledger) /\ LiveUnits \in SUBSET (DOMAIN ledger)
    BY LedgerFacts DEF LiveUnits
  <2> QED
    BY <2>1, FS_Subset
<1>2. IsFiniteSet(units) /\ UnitsIn(gone) = Cardinality(units) /\ UnitsIn(gone) \in Nat
  BY UnitsFacts DEF UnitsIn
<1>3. IsFiniteSet(LiveUnits \ gone)
      /\ Cardinality(LiveUnits \ gone) = Cardinality(LiveUnits) - Cardinality(both)
  BY <1>1, FS_Difference
<1>4. both \in SUBSET units /\ ((\A i \in gone : Live(i)) => both = units)
  BY DEF LiveUnits
<1>5. IsFiniteSet(both)
  BY <1>1, FS_Subset
<1> HIDE DEF units, both
<1>6. Cardinality(both) <= Cardinality(units)
  BY <1>2, <1>4, FS_Subset
<1>7. Cardinality(both) \in Nat /\ Cardinality(LiveUnits) \in Nat /\ Cardinality(LiveUnits \ gone) \in Nat
  BY <1>1, <1>3, <1>5, FS_CardinalityType
<1> QED
  BY <1>1, <1>2, <1>3, <1>4, <1>6, <1>7 DEF both

\* The surplus of a state and of the next one.
LEMMA SurplusIs ==
    ASSUME TypeOK, TypeOK'
    PROVE  /\ Surplus = package.left + Cardinality(LiveUnits) - package.total
           /\ Surplus' = package'.left + Cardinality(LiveUnits') - package'.total
           /\ package.left \in Nat /\ package.total \in Nat
           /\ package'.left \in Nat /\ package'.total \in Nat
           /\ Cardinality(LiveUnits) \in Nat /\ Cardinality(LiveUnits') \in Nat
<1>1. IsFiniteSet(LiveUnits) /\ Cardinality(LiveUnits) \in Nat
  BY UnitsCount
<1>2. Cardinality(LiveUnits') \in Nat
  <2>1. IsFiniteSet(DOMAIN ledger')
    <3>1. DOMAIN ledger' = 1 .. Len(ledger') /\ Len(ledger') \in Nat
      BY DEF TypeOK
    <3> QED
      BY <3>1, FS_Interval
  <2>2. LiveUnits' \in SUBSET (DOMAIN ledger')
    BY DEF LiveUnits
  <2> QED
    BY <2>1, <2>2, FS_Subset, FS_CardinalityType
<1> QED
  BY <1>1, <1>2 DEF Surplus, LiveUnits, TypeOK

\* Entries that are live when they are reversed give back what they took.
LEMMA ReverseUnits ==
    ASSUME TypeOK, TypeOK', NEW gone, gone \subseteq DOMAIN ledger, Reversed(gone),
           package' = Returned(gone)
    PROVE  /\ Surplus' >= Surplus
           /\ (\A i \in gone : Live(i)) => Surplus' = Surplus
<1>1. package'.left = package.left + UnitsIn(gone) /\ package'.total = package.total
  BY ReturnedFacts
<1>2. LiveUnits' = LiveUnits \ gone
  BY UnitsReversed
<1> DEFINE n == Cardinality(LiveUnits)
           m == Cardinality(LiveUnits \ gone)
           b == Cardinality(LiveUnits \cap gone)
           u == UnitsIn(gone)
<1>3. /\ n \in Nat /\ m \in Nat /\ m = n - b /\ b \in Nat /\ u \in Nat /\ b <= u
      /\ (\A i \in gone : Live(i)) => b = u
  BY UnitsCount
<1>4. /\ Surplus = package.left + n - package.total
      /\ Surplus' = package.left + u + m - package.total
      /\ package.left \in Nat /\ package.total \in Nat
  BY <1>1, <1>2, SurplusIs
<1> HIDE DEF n, m, b, u
<1> QED
  BY <1>3, <1>4

\* A unit is written, and one is taken; no unit is among the reversed.
LEMMA TakeUnit ==
    ASSUME TypeOK, TypeOK', NEW gone, gone \subseteq DOMAIN ledger,
           \A i \in gone : ledger[i].kind = "charge",
           NEW e \in Entries, e.undone = 0, e.kind = "unit", Written(gone, e),
           package.left > 0, package' = PackageWith(package.left - 1)
    PROVE  Surplus' = Surplus
<1>1. package.left - 1 \in Nat
  BY DEF TypeOK
<1>2. package'.left = package.left - 1 /\ package'.total = package.total
  BY <1>1, PackageFacts
<1>3. LiveUnits \ gone = LiveUnits
  BY DEF LiveUnits
<1>4. LiveUnits' = LiveUnits \cup {Len(ledger) + 1} /\ Len(ledger) + 1 \notin LiveUnits
  BY <1>3, UnitsWritten
<1>5. IsFiniteSet(LiveUnits)
  BY UnitsCount
<1>6. Cardinality(LiveUnits') = Cardinality(LiveUnits) + 1
  BY <1>4, <1>5, FS_AddElement
<1> QED
  BY <1>2, <1>6, SurplusIs

\* Entries that are live give their units back; the entry written is a charge.
LEMMA ChargeUnits ==
    ASSUME TypeOK, TypeOK', NEW gone, gone \subseteq DOMAIN ledger, \A i \in gone : Live(i),
           NEW e \in Entries, e.undone = 0, e.kind = "charge", Written(gone, e),
           package' = Returned(gone)
    PROVE  Surplus' = Surplus
<1>1. package'.left = package.left + UnitsIn(gone) /\ package'.total = package.total
  BY ReturnedFacts
<1>2. LiveUnits' = LiveUnits \ gone
  BY UnitsWritten
<1> DEFINE n == Cardinality(LiveUnits)
           m == Cardinality(LiveUnits \ gone)
           u == UnitsIn(gone)
<1>3. n \in Nat /\ m \in Nat /\ m = n - u /\ u \in Nat
  BY UnitsCount
<1>4. /\ Surplus = package.left + n - package.total
      /\ Surplus' = package.left + u + m - package.total
      /\ package.left \in Nat /\ package.total \in Nat
  BY <1>1, <1>2, SurplusIs
<1> HIDE DEF n, m, u
<1> QED
  BY <1>3, <1>4

\* Neither the units nor their entries change.
LEMMA SameUnits ==
    ASSUME UNCHANGED ledger, package'.left = package.left, package'.total = package.total
    PROVE  Surplus' = Surplus
BY DEF Surplus, Live

\* A cancellation gives back the units it lists, those reversed since too.
LEMMA CancelUnits ==
    ASSUME BillingInv, NEW q \in Requests, CancelUndoes(q), TypeOK'
    PROVE  /\ Surplus' >= Surplus
           /\ Surplus' # Surplus => ListOutOfDate(q) /\ request'[q] = Idle
<1>1. TypeInv /\ TypeOK
  BY DEF BillingInv, TypeInv
<1>2. /\ request[q].step = "undoing" /\ request'[q] = Idle
      /\ Reversed(request[q].entries) /\ package' = Returned(request[q].entries)
  BY <1>1 DEF CancelUndoes, TypeOK, Reversed
<1>3. request[q].entries \subseteq DOMAIN ledger
  BY <1>1, <1>2 DEF TypeInv, Listed, EntriesOf
<1>4. /\ Surplus' >= Surplus
      /\ (\A i \in request[q].entries : Live(i)) => Surplus' = Surplus
  BY <1>1, <1>2, <1>3, ReverseUnits
<1> QED
  BY <1>2, <1>4 DEF ListOutOfDate

\* Every other action keeps the sum.
LEMMA StepUnits ==
    ASSUME BillingInv, [Next]_vars, \A q \in Requests : ~CancelUndoes(q)
    PROVE  Surplus' = Surplus
<1>1. TypeOK /\ TypeOK' /\ LedgerInv /\ TypeInv
  BY StepTypes DEF BillingInv, TypeInv
<1>2. UNCHANGED <<ledger, package>> => Surplus' = Surplus
  BY SameUnits
<1>3. ASSUME NEW l \in Lessons
      PROVE  /\ LiveEntries(l) \subseteq DOMAIN ledger /\ \A i \in LiveEntries(l) : Live(i)
             /\ \A kind : LiveOf(l, kind) \subseteq DOMAIN ledger
             /\ \A i \in LiveOf(l, "charge") : ledger[i].kind = "charge"
             /\ \A i \in LiveOf(l, "unit") : Live(i)
  BY DEF LiveEntries, LiveOf, EntriesOf
<1>4. ASSUME NEW q \in Requests, BillUnit(q) PROVE Surplus' = Surplus
  <2>1. PICK l \in Lessons :
            request[q].lesson = l /\ request[q].step = "settling" /\ request[q].auto \in BOOLEAN
    BY <1>1, <1>4, BillWrites
  <2> DEFINE e == Entry(l, "unit", request[q].auto, 0)
  <2>2. LiveOf(l, "unit") = {}
    BY <1>1, <2>1, LiveKinds DEF LedgerInv, Held
  <2>3. e \in Entries /\ Written({}, e)
    BY <1>1, <1>4, <2>1, <2>2, BillWrites
  <2>4. e.undone = 0 /\ e.kind = "unit"
    BY DEF Entry
  <2>5. package.left > 0 /\ package' = PackageWith(package.left - 1)
    BY <1>4, <2>1, <2>2 DEF BillUnit, Usable
  <2> HIDE DEF e
  <2> QED
    BY <1>1, <2>3, <2>4, <2>5, TakeUnit
<1>5. ASSUME NEW q \in Requests, BillMoney(q) PROVE Surplus' = Surplus
  <2>1. PICK l \in Lessons :
            request[q].lesson = l /\ request[q].step = "settling" /\ request[q].auto \in BOOLEAN
    BY <1>1, <1>5, BillWrites
  <2> DEFINE e == Entry(l, "charge", request[q].auto, 0)
  <2>2. LiveOf(l, "charge") = {}
    BY <1>1, <2>1, LiveKinds DEF LedgerInv, Held
  <2>3. e \in Entries /\ Written({}, e)
    BY <1>1, <1>5, <2>1, <2>2, EntryFacts, UndoneNone DEF BillMoney, Written
  <2>4. e.undone = 0 /\ e.kind = "charge"
    BY DEF Entry
  <2> HIDE DEF e
  <2>5. LiveUnits' = LiveUnits
    <3>1. LiveUnits' = (LiveUnits \ {}) \cup (IF e.kind = "unit" THEN {Len(ledger) + 1} ELSE {})
      BY <1>1, <2>3, <2>4, UnitsWritten
    <3> QED
      BY <2>4, <3>1
  <2>6. UNCHANGED package
    BY <1>5 DEF BillMoney
  <2> QED
    BY <1>1, <2>5, <2>6, SurplusIs
<1>7. ASSUME NEW q \in Requests, Step(q) PROVE Surplus' = Surplus
  <2>1. CASE ~BillUnit(q) /\ ~BillMoney(q)
    BY <1>2, <1>7, <2>1 DEF Step, LeaveBilling, LockForBilling, UnitGone, CancelLists,
                            CancelKeepsPaid, CancelGivesUp, LockVictim
  <2> QED
    BY <1>4, <1>5, <2>1
<1>8. ASSUME NEW l \in Lessons, SkipBilling(l) \/ Unfinalize(l) PROVE Surplus' = Surplus
  <2>1. CASE SkipBilling(l) /\ HasPayment(l)
    <3>1. Reversed({}) /\ package' = Returned({}) /\ {} \subseteq DOMAIN ledger
      BY <2>1 DEF SkipBilling, Reversed
    <3> QED
      BY <1>1, <3>1, ReverseUnits
  <2>2. CASE ~(SkipBilling(l) /\ HasPayment(l))
    <3>1. Reversed(LiveEntries(l)) /\ package' = Returned(LiveEntries(l))
      BY <1>8, <2>2 DEF SkipBilling, Unfinalize, Reversed
    <3> QED
      BY <1>1, <1>3, <3>1, ReverseUnits
  <2> QED
    BY <2>1, <2>2
<1>9. ASSUME NEW l \in Lessons, SettleFromPackage(l) PROVE Surplus' = Surplus
  <2> DEFINE gone == LiveOf(l, "charge")
             e == Entry(l, "unit", FALSE, record[l].charged)
  <2>1. e \in Entries /\ Written(gone, e)
    BY <1>1, <1>9, SettleWrites
  <2>2. e.undone = 0 /\ e.kind = "unit"
    BY DEF Entry
  <2>3. gone \subseteq DOMAIN ledger /\ \A i \in gone : ledger[i].kind = "charge"
    BY <1>3
  <2>4. package.left > 0 /\ package' = PackageWith(package.left - 1)
    BY <1>9 DEF SettleFromPackage, Usable
  <2> HIDE DEF e, gone
  <2> QED
    BY <1>1, <2>1, <2>2, <2>3, <2>4, TakeUnit
<1>10. ASSUME NEW l \in Lessons, RefundUnit(l) PROVE Surplus' = Surplus
  <2> DEFINE e == Entry(l, "charge", FALSE, 0)
  <2>1. PICK i \in LiveOf(l, "unit") :
            package' = Returned({i}) /\ (Reversed({i}) \/ Written({i}, e))
    BY <1>1, <1>10, RefundWrites
  <2>2. e \in Entries /\ e.undone = 0 /\ e.kind = "charge"
    BY EntryFacts DEF Entry
  <2>3. {i} \subseteq DOMAIN ledger /\ \A j \in {i} : Live(j)
    BY <1>3, <2>1
  <2> HIDE DEF e
  <2> QED
    BY <1>1, <2>1, <2>2, <2>3, ReverseUnits, ChargeUnits
<1>11. ASSUME NEW l \in Lessons, NEW p \in Payments, MarkPaid(l, p) PROVE Surplus' = Surplus
  BY <1>2, <1>11 DEF MarkPaid
<1>12. ASSUME NEW p \in Payments, NEW sum \in Amounts, RegisterPayment(p, sum)
       PROVE  Surplus' = Surplus
  BY <1>2, <1>12 DEF RegisterPayment
<1>13. CASE CancelPackage
  <2>1. package'.left = package.left /\ package'.total = package.total /\ UNCHANGED ledger
    BY <1>1, <1>13 DEF CancelPackage, TypeOK
  <2> QED
    BY <2>1, SameUnits
<1>14. CASE TopUp
  <2>1. package.left + 1 \in Nat /\ package' = [PackageWith(package.left + 1) EXCEPT !.total = @ + 1]
    BY <1>1, <1>14 DEF TopUp, TypeOK
  <2>2. package'.left = package.left + 1 /\ package'.total = package.total + 1
    BY <1>1, <2>1, PackageFacts
  <2>3. LiveUnits' = LiveUnits
    BY <1>14 DEF TopUp, LiveUnits, Live
  <2> QED
    BY <1>1, <2>2, <2>3, SurplusIs
<1>15. ASSUME NEW q \in Requests, NEW l \in Lessons,
              Complete(q, l) \/ AskBilling(q, l) \/ CancelReads(q, l)
       PROVE  Surplus' = Surplus
  BY <1>2, <1>15 DEF Complete, AskBilling, CancelReads
<1>16. ASSUME NEW l \in Lessons, Restore(l) PROVE Surplus' = Surplus
  BY <1>2, <1>16 DEF Restore
<1> QED
  BY <1>2, <1>7, <1>8, <1>9, <1>10, <1>11, <1>12, <1>13, <1>14, <1>15, <1>16 DEF Next, vars

\* Units left and units on lessons add up to those of the package, after any
\* step but one: a cancellation whose list holds a unit that was reversed
\* since gives it back again, and the pupil gains it.  None is ever lost.
THEOREM UnitsAlwaysAddUp == Spec => UnitsAddUp
<1>1. BillingInv /\ [Next]_vars =>
          [Surplus' # Surplus =>
              /\ Surplus' > Surplus
              /\ \E q \in Requests : ListOutOfDate(q) /\ request'[q] = Idle]_vars
  <2> SUFFICES ASSUME BillingInv, [Next]_vars, Surplus' # Surplus
               PROVE  /\ Surplus' > Surplus
                      /\ \E q \in Requests : ListOutOfDate(q) /\ request'[q] = Idle
    OBVIOUS
  <2>1. TypeOK /\ TypeOK'
    BY StepTypes DEF BillingInv, TypeInv
  <2>2. PICK q \in Requests : CancelUndoes(q)
    BY StepUnits
  <2>3. Surplus' >= Surplus /\ ListOutOfDate(q) /\ request'[q] = Idle
    BY <2>1, <2>2, CancelUnits
  <2>4. Surplus \in Int /\ Surplus' \in Int
    BY <2>1, SurplusIs
  <2>5. \A m, n \in Int : m >= n /\ m # n => m > n
    OBVIOUS
  <2> QED
    BY <2>3, <2>4, <2>5
<1> QED
  BY BillingInvHolds, <1>1, PTL DEF UnitsAddUp, Spec

=============================================================================

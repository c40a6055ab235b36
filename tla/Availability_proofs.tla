------------------------ MODULE Availability_proofs ------------------------
(***************************************************************************)
(* Theorems about Availability: the walks, merges and subtractions of      *)
(* scheduledSlotsWithBusy compute what they should, for any settings,      *)
(* zone, date, request and calendars, and the times that are offered are   *)
(* right (OffersAreRight).  The walks are folds over finite sets: a set of *)
(* parts that holds the empty part, and a part when it holds that part     *)
(* without its last member, holds them all (FromBelow), and so does what   *)
(* is true of the walk so far.                                             *)
(***************************************************************************)
EXTENDS Availability, FiniteSetTheorems, WellFoundedInduction, TLAPS

-----------------------------------------------------------------------------
(* Walks over finite sets: MapThenFoldSet has a value, and what holds of every part of a walk holds of it *)

\* Among some subsets of a finite set there is one that holds no other.
LEMMA SmallestSet ==
  ASSUME NEW S, IsFiniteSet(S), NEW U, U \subseteq SUBSET S, U # {}
  PROVE \E x \in U : \A y \in U : y \subseteq x => y = x
<1>1. U \subseteq FiniteSubsetsOf(S)
  BY FS_FiniteSubsetsOfFinite
<1>2. \E x \in U : \A y \in U : <<y, x>> \notin StrictSubsetOrdering(S)
  BY <1>1, FS_StrictSubsetOrderingWellFounded, WFMin, Zenon
<1> QED BY <1>2 DEF StrictSubsetOrdering

\* Some natural numbers have a least one.
LEMMA LeastNatural ==
  ASSUME NEW N \in SUBSET Nat, N # {}
  PROVE \E n \in N : \A m \in N : n <= m
<1>1. PICK k \in N : TRUE OBVIOUS
<1> DEFINE U == {0..m : m \in {m \in N : m <= k}}
<1>2. IsFiniteSet(0..k) BY FS_Interval
<1>3. U \subseteq SUBSET (0..k) /\ U # {} BY <1>1
<1>4. PICK x \in U : \A y \in U : y \subseteq x => y = x
  <2>1. ASSUME NEW S, IsFiniteSet(S), U \subseteq SUBSET S PROVE \E x \in U : \A y \in U : y \subseteq x => y = x
    <3>1. U # {} BY <1>3
    <3> HIDE DEF U
    <3> QED BY <2>1, <3>1, SmallestSet
  <2>2. U \subseteq SUBSET (0..k) BY <1>3
  <2> HIDE DEF U
  <2> QED BY <1>2, <2>1, <2>2
<1>5. PICK n \in N : n <= k /\ x = 0..n BY <1>4
<1>6. \A m \in N : n <= m
  <2> SUFFICES ASSUME NEW m \in N, m < n PROVE FALSE
    OBVIOUS
  <2>1. 0..m \in U BY <1>5, <1>1
  <2>2. 0..m \subseteq 0..n OBVIOUS
  <2>3. 0..m = 0..n BY <1>4, <1>5, <2>1, <2>2
  <2>4. n \in 0..n /\ n \notin 0..m OBVIOUS
  <2> QED BY <2>3, <2>4
<1> QED BY <1>6

\* Parts of a finite set, the empty one among them and each of the others as soon as it is without one of its
\* members, are all its parts.
LEMMA FromBelow ==
  ASSUME NEW S, IsFiniteSet(S), NEW U, U \subseteq SUBSET S, {} \in U,
         \A s \in SUBSET S : s # {} => \E m \in s : s \ {m} \in U => s \in U
  PROVE U = SUBSET S
<1> SUFFICES ASSUME U # SUBSET S PROVE FALSE
  OBVIOUS
<1> DEFINE V == (SUBSET S) \ U
<1>1. PICK x \in V : \A y \in V : y \subseteq x => y = x
  <2>1. V \subseteq SUBSET S /\ V # {} BY DEF V
  <2> HIDE DEF V
  <2> QED BY <2>1, SmallestSet
<1>2. x # {} /\ x \in SUBSET S
  <2>1. x \in SUBSET S /\ x \notin U BY <1>1 DEF V
  <2> QED BY <2>1
<1>3. PICK m \in x : x \ {m} \in U => x \in U BY <1>2
<1>4. x \ {m} # x /\ x \ {m} \subseteq x /\ x \ {m} \in SUBSET S BY <1>2
<1>5. x \ {m} \notin V BY <1>1, <1>4
<1>6. x \ {m} \in U BY <1>4, <1>5 DEF V
<1>7. x \in U BY <1>3, <1>6
<1> QED BY <1>1, <1>7 DEF V

\* A choice of a member of every part,
Picks(c, S) == \A s \in SUBSET S : s # {} => c[s] \in s
\* a step of a walk, which leaves it in A,
Takes(g, A, S) == \A a \in A, x \in S : g[<<a, x>>] \in A
\* and the values of the walk on the parts: it takes the member that is chosen last.
Folds(F, S, A, base, c, g) ==
  /\ F \in [SUBSET S -> A]
  /\ F[{}] = base
  /\ \A s \in SUBSET S : s # {} => F[s] = g[<<F[s \ {c[s]}], c[s]>>]

\* Such a walk has values.
LEMMA FoldExists ==
  ASSUME NEW S, NEW A, NEW base, NEW c, NEW g, IsFiniteSet(S), base \in A, Picks(c, S), Takes(g, A, S)
  PROVE \E F : Folds(F, S, A, base, c, g)
<1> USE DEF Picks, Takes
<1> DEFINE Level(n) == {s \in SUBSET S : Cardinality(s) <= n}
           Step(f, s) == IF s = {} THEN base ELSE g[<<f[s \ {c[s]}], c[s]>>]
           N == {n \in Nat : \E f \in [Level(n) -> A] : \A s \in Level(n) : f[s] = Step(f, s)}
<1>0. \A s \in SUBSET S : IsFiniteSet(s) /\ Cardinality(s) \in Nat
  BY FS_Subset, FS_CardinalityType
<1>1. 0 \in N
  <2> DEFINE f == [s \in Level(0) |-> base]
  <2>1. \A s \in Level(0) : s = {} BY <1>0, FS_EmptySet, SMT
  <2>2. f \in [Level(0) -> A] OBVIOUS
  <2>3. \A s \in Level(0) : f[s] = Step(f, s) BY <2>1
  <2> QED BY <2>2, <2>3
<1>2. ASSUME NEW n \in N PROVE n + 1 \in N
  <2>1. PICK f \in [Level(n) -> A] : \A s \in Level(n) : f[s] = Step(f, s) OBVIOUS
  <2>2. n \in Nat OBVIOUS
  <2> DEFINE h == [s \in Level(n + 1) |-> Step(f, s)]
  <2>3. \A s \in Level(n + 1) : s # {} => s \ {c[s]} \in Level(n) /\ s \ {c[s]} \in Level(n + 1)
    <3> SUFFICES ASSUME NEW s \in Level(n + 1), s # {} PROVE s \ {c[s]} \in Level(n) /\ s \ {c[s]} \in Level(n + 1)
      OBVIOUS
    <3>1. c[s] \in s /\ s \in SUBSET S OBVIOUS
    <3>2. Cardinality(s \ {c[s]}) = Cardinality(s) - 1 BY <3>1, <1>0, FS_RemoveElement
    <3>3. Cardinality(s) <= n + 1 OBVIOUS
    <3> QED BY <1>0, <2>2, <3>1, <3>2, <3>3
  <2>4. \A s \in Level(n + 1) : Step(f, s) \in A
    <3> SUFFICES ASSUME NEW s \in Level(n + 1), s # {} PROVE Step(f, s) \in A
      OBVIOUS
    <3>1. c[s] \in S OBVIOUS
    <3>2. f[s \ {c[s]}] \in A BY <2>1, <2>3
    <3> QED BY <3>1, <3>2
  <2>5. h \in [Level(n + 1) -> A] BY <2>4
  <2>6. \A s \in Level(n) : s \in Level(n + 1) /\ h[s] = f[s]
    BY <2>1, <2>2, <1>0
  <2>7. \A s \in Level(n + 1) : h[s] = Step(h, s)
    BY <2>3, <2>6
  <2>8. \E e \in [Level(n + 1) -> A] : \A s \in Level(n + 1) : e[s] = Step(e, s)
    <3> HIDE DEF h, Level, Step
    <3> QED BY <2>5, <2>7
  <2>9. n + 1 \in Nat BY <2>2
  <2> QED BY <2>8, <2>9
<1>3. N = Nat
  <2> HIDE DEF N
  <2> SUFFICES ASSUME N # Nat PROVE FALSE
    OBVIOUS
  <2>1. N \subseteq Nat BY DEF N
  <2>2. PICK n \in Nat \ N : \A m \in Nat \ N : n <= m
    BY <2>1, LeastNatural
  <2>3. n # 0 BY <2>2, <1>1
  <2>4. n - 1 \in N BY <2>2, <2>3
  <2>5. n \in N
    <3>1. (n - 1) + 1 \in N BY <2>4, <1>2
    <3>2. (n - 1) + 1 = n BY <2>2
    <3> QED BY <3>1, <3>2
  <2> QED BY <2>2, <2>5
<1>4. Cardinality(S) \in N BY <1>0, <1>3
<1>5. Level(Cardinality(S)) = SUBSET S BY <1>0, FS_Subset
<1>6. PICK f \in [SUBSET S -> A] : \A s \in SUBSET S : f[s] = Step(f, s)
  BY <1>4, <1>5
<1>7. f[{}] = base BY <1>6
<1>8. \A s \in SUBSET S : s # {} => f[s] = g[<<f[s \ {c[s]}], c[s]>>] BY <1>6
<1> QED BY <1>6, <1>7, <1>8 DEF Folds

-----------------------------------------------------------------------------
(* The walks of Availability: over minutes, and over spans                 *)

\* A finite set whose members are ordered by R has a greatest member.
LEMMA GreatestExists ==
  ASSUME NEW S, IsFiniteSet(S), S # {}, NEW R,
         \A x, y \in S : <<x, y>> \in R \/ <<y, x>> \in R,
         \A x, y, z \in S : <<x, y>> \in R /\ <<y, z>> \in R => <<x, z>> \in R
  PROVE \E m \in S : \A x \in S : <<x, m>> \in R
<1> DEFINE Without == {s \in SUBSET S : s # {} /\ ~ \E m \in s : \A x \in s : <<x, m>> \in R}
<1> SUFFICES ASSUME Without # {} PROVE FALSE
  OBVIOUS
<1>1. PICK s \in Without : \A t \in Without : t \subseteq s => t = s
  <2>1. Without \subseteq SUBSET S OBVIOUS
  <2> HIDE DEF Without
  <2> QED BY <2>1, SmallestSet
<1>2. PICK e \in s : TRUE OBVIOUS
<1>3. CASE s \ {e} = {}
  <2>1. <<e, e>> \in R OBVIOUS
  <2> QED BY <1>3, <2>1
<1>4. CASE s \ {e} # {}
  <2>0. s \ {e} \subseteq s /\ s \ {e} # s BY <1>2
  <2>1. s \ {e} \notin Without
    <3> HIDE DEF Without
    <3> QED BY <1>1, <2>0
  <2>2. PICK m \in s \ {e} : \A x \in s \ {e} : <<x, m>> \in R BY <1>4, <2>1
  <2>3. m \in S /\ e \in S BY <1>2, <2>2
  <2>4. CASE <<e, m>> \in R
    BY <2>2, <2>4
  <2>5. CASE <<m, e>> \in R
    <3>1. \A x \in s : <<x, e>> \in R BY <2>2, <2>3, <2>5
    <3> QED BY <3>1, <1>2
  <2> QED BY <2>3, <2>4, <2>5
<1> QED BY <1>3, <1>4

\* The greatest of a finite set of instants is one of them.
LEMMA MaxIs ==
  ASSUME NEW S \in SUBSET Int, IsFiniteSet(S), S # {}
  PROVE Max(S) \in S /\ \A x \in S : x <= Max(S)
<1> DEFINE R == {p \in Int \X Int : p[1] <= p[2]}
<1>1. \A x, y \in S : <<x, y>> \in R \/ <<y, x>> \in R OBVIOUS
<1>2. \A x, y, z \in S : <<x, y>> \in R /\ <<y, z>> \in R => <<x, z>> \in R OBVIOUS
<1>3. \E m \in S : \A x \in S : <<x, m>> \in R
  <2> HIDE DEF R
  <2> QED BY <1>1, <1>2, GreatestExists
<1>4. \E m \in S : \A x \in S : m >= x BY <1>3
<1> QED BY <1>4 DEF Max

\* Lists of spans, as the sets they are.
Spans == Int \X Int

\* The last span of such a list starts last, and ends last among those that start then.
LEMMA LatestIs ==
  ASSUME NEW S \in SUBSET Spans, IsFiniteSet(S), S # {}
  PROVE /\ Latest(S) \in S
        /\ \A x \in S : x[1] <= Latest(S)[1]
        /\ \A x \in S : x[1] = Latest(S)[1] => x[2] <= Latest(S)[2]
<1> DEFINE R == {p \in Spans \X Spans : p[1][1] < p[2][1] \/ (p[1][1] = p[2][1] /\ p[1][2] <= p[2][2])}
<1>0. \A x, y \in S : <<x, y>> \in R <=> (x[1] < y[1] \/ (x[1] = y[1] /\ x[2] <= y[2]))
  <2> SUFFICES ASSUME NEW x \in S, NEW y \in S PROVE <<x, y>> \in R <=> (x[1] < y[1] \/ (x[1] = y[1] /\ x[2] <= y[2]))
    OBVIOUS
  <2>1. <<x, y>> \in Spans \X Spans OBVIOUS
  <2>2. <<x, y>>[1] = x /\ <<x, y>>[2] = y OBVIOUS
  <2> QED BY <2>1, <2>2
<1>s. \A x \in S : x[1] \in Int /\ x[2] \in Int BY DEF Spans
<1> HIDE DEF R
<1>1. \A x, y \in S : <<x, y>> \in R \/ <<y, x>> \in R 
  <2> SUFFICES ASSUME NEW x \in S, NEW y \in S PROVE <<x, y>> \in R \/ <<y, x>> \in R
    OBVIOUS
  <2>1. x[1] \in Int /\ x[2] \in Int /\ y[1] \in Int /\ y[2] \in Int BY <1>s
  <2>2. \/ x[1] < y[1] \/ (x[1] = y[1] /\ x[2] <= y[2])
        \/ y[1] < x[1] \/ (y[1] = x[1] /\ y[2] <= x[2]) BY <2>1
  <2> QED BY <1>0, <2>2
<1>2. \A x, y, z \in S : <<x, y>> \in R /\ <<y, z>> \in R => <<x, z>> \in R BY <1>0, <1>s
<1>3. \E m \in S : \A x \in S : <<x, m>> \in R
  BY <1>1, <1>2, GreatestExists
<1>4. \E m \in S : \A x \in S : x[1] < m[1] \/ (x[1] = m[1] /\ x[2] <= m[2]) BY <1>3, <1>0
<1> DEFINE L == Latest(S)
<1>5. L \in S /\ \A x \in S : x[1] < L[1] \/ (x[1] = L[1] /\ x[2] <= L[2]) BY <1>4 DEF Latest
<1> HIDE DEF L
<1>6. \A x \in S : x[1] <= L[1] BY <1>5, <1>s
<1>7. \A x \in S : x[1] = L[1] => x[2] <= L[2] BY <1>5, <1>s
<1> QED BY <1>5, <1>6, <1>7 DEF L

\* Finite sets of spans.
SpanSets == {x \in SUBSET Spans : IsFiniteSet(x)}

\* A walk over a list of spans has values,
LEMMA SpanFold ==
  ASSUME NEW S \in SpanSets, NEW A, NEW base \in A, NEW g, Takes(g, A, S)
  PROVE \E F : Folds(F, S, A, base, [t \in SUBSET S |-> Latest(t)], g)
<1>1. IsFiniteSet(S) BY DEF SpanSets
<1>2. Picks([t \in SUBSET S |-> Latest(t)], S)
  BY <1>1, LatestIs, FS_Subset DEF SpanSets, Picks
<1> QED BY <1>1, <1>2, FoldExists

\* and so has one over minutes.
LEMMA MinuteFold ==
  ASSUME NEW S \in SUBSET Int, IsFiniteSet(S), NEW A, NEW base \in A, NEW g, Takes(g, A, S)
  PROVE \E F : Folds(F, S, A, base, [t \in SUBSET S |-> Max(t)], g)
<1>2. Picks([t \in SUBSET S |-> Max(t)], S)
  BY MaxIs, FS_Subset DEF Picks
<1> QED BY <1>2, FoldExists

\* What holds of no spans, and of some when it holds of them without the latest, holds of every part of a list;
LEMMA SpansFromBelow ==
  ASSUME NEW S \in SpanSets, NEW U, U \subseteq SUBSET S, {} \in U,
         \A s \in SUBSET S : s # {} /\ s \ {Latest(s)} \in U => s \in U
  PROVE U = SUBSET S
<1>1. IsFiniteSet(S) BY DEF SpanSets
<1>2. \A s \in SUBSET S : s # {} => \E m \in s : s \ {m} \in U => s \in U
  BY <1>1, LatestIs, FS_Subset DEF SpanSets
<1> QED BY <1>1, <1>2, FromBelow

\* and the same with minutes and the greatest.
LEMMA MinutesFromBelow ==
  ASSUME NEW S \in SUBSET Int, IsFiniteSet(S), NEW U, U \subseteq SUBSET S, {} \in U,
         \A s \in SUBSET S : s # {} /\ s \ {Max(s)} \in U => s \in U
  PROVE U = SUBSET S
<1>2. \A s \in SUBSET S : s # {} => \E m \in s : s \ {m} \in U => s \in U
  BY MaxIs, FS_Subset
<1> QED BY <1>2, FromBelow

-----------------------------------------------------------------------------
(* mergeBusy                                                               *)

\* Spans that are not empty,
Proper(spans) == \A b \in spans : b[1] < b[2]
\* with a gap between any two;
Separate(spans) == \A b, c \in spans : b = c \/ b[2] < c[1] \/ c[2] < b[1]
\* that hold those of another list,
CoversAll(out, spans) == \A b \in spans : b[1] < b[2] => \E c \in out : c[1] <= b[1] /\ b[2] <= c[2]
\* start where one of them starts,
StartsOf(out, spans) == \A b \in out : \E c \in spans : c[1] = b[1]

\* and hold no instant that none of them holds.
Filled(out, spans) == \A b \in out : \A x \in Int : b[1] <= x /\ x < b[2] => \E c \in spans : c[1] <= x /\ x < c[2]

\* What mergeBusy makes of a list.
Merged(out, spans) ==
  /\ out \in SpanSets
  /\ Proper(out)
  /\ Separate(out)
  /\ CoversAll(out, spans)
  /\ StartsOf(out, spans)
  /\ Filled(out, spans)

\* Spans are pairs of instants.
LEMMA SpanParts ==
  /\ \A b \in Spans : b[1] \in Int /\ b[2] \in Int /\ b = <<b[1], b[2]>>
  /\ \A i, j \in Int : <<i, j>> \in Spans
BY DEF Spans

\* Lists of spans with one more, with one less, and their parts.
LEMMA SpanSetFacts ==
  /\ {} \in SpanSets
  /\ \A out \in SpanSets, b \in Spans : out \cup {b} \in SpanSets
  /\ \A out \in SpanSets : \A b : out \ {b} \in SpanSets
  /\ \A out \in SpanSets : out \subseteq Spans /\ IsFiniteSet(out)
  /\ \A out \in SpanSets : \A t : t \subseteq out => t \in SpanSets
<1>1. {} \in SpanSets BY FS_EmptySet DEF SpanSets
<1>2. \A out \in SpanSets, b \in Spans : out \cup {b} \in SpanSets
  BY FS_AddElement DEF SpanSets
<1>3. \A out \in SpanSets : \A b : out \ {b} \in SpanSets BY FS_RemoveElement DEF SpanSets
<1>4. \A out \in SpanSets : out \subseteq Spans /\ IsFiniteSet(out) BY DEF SpanSets
<1>5. \A out \in SpanSets : \A t : t \subseteq out => t \in SpanSets BY FS_Subset DEF SpanSets
<1> QED BY <1>1, <1>2, <1>3, <1>4, <1>5

\* The later of two instants is one of them.
LEMMA LaterIs ==
  ASSUME NEW a \in Int, NEW b \in Int
  PROVE /\ Later(a, b) \in Int /\ a <= Later(a, b) /\ b <= Later(a, b)
        /\ Later(a, b) = a \/ Later(a, b) = b
BY DEF Later

\* mergeBusy takes the next span: what is merged before is merged with it (mergeBusy, 424-433).
LEMMA AbsorbMerges ==
  ASSUME NEW spans \in SpanSets, spans # {}, NEW out, Merged(out, spans \ {Latest(spans)})
  PROVE Merged(Absorb(out, Latest(spans)), spans)
<1> DEFINE span == Latest(spans)
           last == Latest(out)
           new == Absorb(out, span)
<1>1. /\ span \in spans /\ span \in Spans
      /\ \A x \in spans : x[1] <= span[1]
  BY LatestIs, SpanSetFacts
<1>2. out \in SpanSets /\ Proper(out) /\ Separate(out) BY DEF Merged
<1>3. ASSUME out # {}
      PROVE /\ last \in out /\ last \in Spans
            /\ \A x \in out : x[1] <= last[1]
            /\ \A x \in out : x[1] = last[1] => x[2] <= last[2]
  BY <1>2, <1>3, LatestIs, SpanSetFacts
<1>4. new = IF span[2] <= span[1] THEN out
            ELSE IF out = {} \/ span[1] > last[2] THEN out \cup {span}
            ELSE (out \ {last}) \cup {<<last[1], Later(last[2], span[2])>>}
  BY DEF Absorb
<1>5. \A b \in out : b[1] <= span[1] /\ \E c \in spans : c[1] = b[1]
  <2> SUFFICES ASSUME NEW b \in out PROVE b[1] <= span[1] /\ \E c \in spans : c[1] = b[1]
    OBVIOUS
  <2>1. PICK c \in spans \ {span} : c[1] = b[1] BY DEF Merged, StartsOf
  <2> QED BY <2>1, <1>1
<1>6. \A b \in spans : b # span /\ b[1] < b[2] => \E c \in out : c[1] <= b[1] /\ b[2] <= c[2]
  BY DEF Merged, CoversAll
<1>i. /\ span[1] \in Int /\ span[2] \in Int
      /\ \A b \in out : b \in Spans /\ b[1] \in Int /\ b[2] \in Int
      /\ \A b \in spans : b \in Spans /\ b[1] \in Int /\ b[2] \in Int
  BY <1>1, <1>2, SpanParts, SpanSetFacts
<1>g. \A b \in out : \A x \in Int : b[1] <= x /\ x < b[2] => \E c \in spans : c[1] <= x /\ x < c[2]
  BY DEF Merged, Filled
<1> HIDE DEF span, last, new
<1>7. CASE span[2] <= span[1]
  <2>1. new = out BY <1>4, <1>7
  <2>2. CoversAll(new, spans)
    <3> SUFFICES ASSUME NEW b \in spans, b[1] < b[2] PROVE \E c \in new : c[1] <= b[1] /\ b[2] <= c[2]
      BY DEF CoversAll
    <3>1. b # span BY <1>7, <1>i
    <3> QED BY <3>1, <2>1, <1>6
  <2>3. StartsOf(new, spans) BY <2>1, <1>5 DEF StartsOf
  <2>4. Filled(new, spans) BY <2>1, <1>g DEF Filled
  <2> QED BY <1>2, <2>1, <2>2, <2>3, <2>4 DEF Merged, new, span
<1>8. CASE ~(span[2] <= span[1]) /\ (out = {} \/ span[1] > last[2])
  <2>1. new = out \cup {span} BY <1>4, <1>8
  <2>2. new \in SpanSets BY <2>1, <1>1, <1>2, SpanSetFacts
  <2>3. Proper(new) BY <2>1, <1>2, <1>8, <1>i DEF Proper
  <2>4. \A b \in out : b[2] < span[1]
    <3> SUFFICES ASSUME NEW b \in out PROVE b[2] < span[1]
      OBVIOUS
    <3>1. last \in out /\ span[1] > last[2] /\ b[1] <= last[1] /\ last[1] < last[2] /\ b[1] < b[2]
      BY <1>3, <1>8, <1>2 DEF Proper
    <3>2. b = last \/ b[2] < last[1] \/ last[2] < b[1] BY <3>1, <1>2 DEF Separate
    <3> QED BY <3>1, <3>2, <1>i
  <2>5. Separate(new)
    <3> SUFFICES ASSUME NEW b \in new, NEW c \in new PROVE b = c \/ b[2] < c[1] \/ c[2] < b[1]
      BY DEF Separate
    <3>1. CASE b \in out /\ c \in out BY <3>1, <1>2 DEF Separate
    <3>2. CASE b = span \/ c = span BY <3>2, <2>1, <2>4
    <3> QED BY <3>1, <3>2, <2>1
  <2>6. CoversAll(new, spans)
    <3> SUFFICES ASSUME NEW b \in spans, b[1] < b[2] PROVE \E c \in new : c[1] <= b[1] /\ b[2] <= c[2]
      BY DEF CoversAll
    <3>1. CASE b = span BY <3>1, <2>1, <1>i
    <3>2. CASE b # span BY <3>2, <2>1, <1>6
    <3> QED BY <3>1, <3>2
  <2>7. StartsOf(new, spans) BY <2>1, <1>5, <1>1 DEF StartsOf
  <2>8. Filled(new, spans) BY <2>1, <1>g, <1>1 DEF Filled
  <2> QED BY <2>2, <2>3, <2>5, <2>6, <2>7, <2>8 DEF Merged, new, span
<1>9. CASE ~(span[2] <= span[1]) /\ ~(out = {} \/ span[1] > last[2])
  <2> DEFINE end == Later(last[2], span[2])
             wide == <<last[1], end>>
  <2>0. /\ last \in out /\ last[1] \in Int /\ last[2] \in Int /\ last[1] < last[2] /\ last[1] <= span[1]
        /\ \A x \in out : x[1] <= last[1]
    BY <1>9, <1>3, <1>i, <1>2, <1>5 DEF Proper
  <2>e. end \in Int /\ last[2] <= end /\ span[2] <= end BY <2>0, <1>i, LaterIs
  <2>1. new = (out \ {last}) \cup {wide} BY <1>4, <1>9
  <2>w. wide[1] = last[1] /\ wide[2] = end /\ wide \in Spans BY <2>0, <2>e, SpanParts
  <2> HIDE DEF end, wide
  <2>2. new \in SpanSets BY <2>1, <2>w, <1>2, SpanSetFacts
  <2>3. Proper(new) BY <2>1, <2>w, <2>0, <2>e, <1>2 DEF Proper
  <2>4. \A b \in out : b # last => b[2] < last[1]
    <3> SUFFICES ASSUME NEW b \in out, b # last PROVE b[2] < last[1]
      OBVIOUS
    <3>1. b[2] < last[1] \/ last[2] < b[1] BY <2>0, <1>2 DEF Separate
    <3> QED BY <3>1, <2>0, <1>i
  <2>5. Separate(new)
    <3> SUFFICES ASSUME NEW b \in new, NEW c \in new PROVE b = c \/ b[2] < c[1] \/ c[2] < b[1]
      BY DEF Separate
    <3>1. CASE b # wide /\ c # wide BY <3>1, <2>1, <1>2 DEF Separate
    <3>2. CASE b = wide \/ c = wide BY <3>2, <2>1, <2>4, <2>w
    <3> QED BY <3>1, <3>2
  <2>6. CoversAll(new, spans)
    <3> SUFFICES ASSUME NEW b \in spans, b[1] < b[2] PROVE \E c \in new : c[1] <= b[1] /\ b[2] <= c[2]
      BY DEF CoversAll
    <3>1. CASE b = span BY <3>1, <2>1, <2>w, <2>0, <2>e
    <3>2. CASE b # span
      <4>1. PICK c \in out : c[1] <= b[1] /\ b[2] <= c[2] BY <3>2, <1>6
      <4>2. CASE c = last
        <5>1. wide[1] <= b[1] /\ b[2] <= wide[2] BY <4>1, <4>2, <2>w, <2>e, <2>0, <1>i
        <5> QED BY <5>1, <2>1
      <4>3. CASE c # last BY <4>1, <4>3, <2>1
      <4> QED BY <4>2, <4>3
    <3> QED BY <3>1, <3>2
  <2>7. StartsOf(new, spans)
    <3>1. \A b \in new : b[1] = last[1] \/ b \in out BY <2>1, <2>w
    <3> QED BY <3>1, <1>5, <2>0 DEF StartsOf
  <2>8. Filled(new, spans)
    <3> SUFFICES ASSUME NEW b \in new, NEW x \in Int, b[1] <= x, x < b[2] PROVE \E c \in spans : c[1] <= x /\ x < c[2]
      BY DEF Filled
    <3>1. CASE b \in out BY <3>1, <1>g
    <3>2. CASE b = wide
      <4>1. last[1] <= x /\ x < end BY <3>2, <2>w
      <4>2. end = last[2] \/ end = span[2] BY <2>0, <1>i, LaterIs DEF end
      <4>3. CASE x < last[2] BY <4>1, <4>3, <2>0, <1>g
      <4>4. CASE ~(x < last[2])
        <5>1. x < span[2] BY <4>1, <4>2, <4>4
        <5>2. span[1] <= x BY <4>4, <1>9, <2>0, <1>i
        <5> QED BY <5>1, <5>2, <1>1
      <4> QED BY <4>3, <4>4
    <3> QED BY <3>1, <3>2, <2>1
  <2> QED BY <2>2, <2>3, <2>5, <2>6, <2>7, <2>8 DEF Merged, new, span
<1> QED BY <1>7, <1>8, <1>9

\* The walk of mergeBusy as the community modules define it,
MergeWalk(F, base, S) == F = [s \in SUBSET S |-> IF s = {} THEN base ELSE Absorb(F[s \ {Latest(s)}], Latest(s))]

\* which is what MapThenFoldSet computes,
LEMMA MergeUnfolds ==
  ASSUME NEW S, NEW base, NEW F, MergeWalk(F, base, S)
  PROVE \E G : OverSpans(Absorb, base, S) = G[S] /\ MergeWalk(G, base, S)
BY DEF MergeWalk, OverSpans, MapThenFoldSet

\* and which takes the spans one after the other.
LEMMA MergeIsFold ==
  ASSUME NEW S \in SpanSets
  PROVE \E F : /\ MergeBusy(S) = F[S]
               /\ F[{}] = {}
               /\ \A s \in SUBSET S : s # {} => F[s] = Absorb(F[s \ {Latest(s)}], Latest(s))
<1> DEFINE g == [p \in SpanSets \X S |-> Absorb(p[1], p[2])]
           c == [t \in SUBSET S |-> Latest(t)]
<1>1. Takes(g, SpanSets, S)
  <2> SUFFICES ASSUME NEW a \in SpanSets, NEW x \in S PROVE g[<<a, x>>] \in SpanSets
    BY DEF Takes
  <2>1. g[<<a, x>>] = Absorb(a, x) OBVIOUS
  <2>2. x \in Spans BY SpanSetFacts
  <2>3. a = {} \/ (Latest(a) \in Spans)
    BY LatestIs, SpanSetFacts
  <2>4. a = {} \/ <<Latest(a)[1], Later(Latest(a)[2], x[2])>> \in Spans
    BY <2>2, <2>3, SpanParts, LaterIs
  <2>5. Absorb(a, x) \in SpanSets
    BY <2>2, <2>4, SpanSetFacts DEF Absorb
  <2> QED BY <2>1, <2>5
<1>2. PICK F : Folds(F, S, SpanSets, {}, c, g)
  <2> HIDE DEF g
  <2> QED BY <1>1, SpanFold, SpanSetFacts
<1>3. \A s \in SUBSET S : s # {} => F[s] = Absorb(F[s \ {Latest(s)}], Latest(s))
  <2> SUFFICES ASSUME NEW s \in SUBSET S, s # {} PROVE F[s] = Absorb(F[s \ {Latest(s)}], Latest(s))
    OBVIOUS
  <2>1. Latest(s) \in S BY LatestIs, SpanSetFacts, FS_Subset
  <2>2. F[s \ {Latest(s)}] \in SpanSets BY <1>2 DEF Folds
  <2> QED BY <1>2, <2>1, <2>2 DEF Folds
<1>4. F = [s \in SUBSET S |-> IF s = {} THEN {} ELSE Absorb(F[s \ {Latest(s)}], Latest(s))]
  BY <1>2, <1>3 DEF Folds
<1>5. MergeWalk(F, {}, S) BY <1>4 DEF MergeWalk
<1>6. PICK G : MergeBusy(S) = G[S] /\ MergeWalk(G, {}, S) BY <1>5, MergeUnfolds DEF MergeBusy
<1>7. G = [s \in SUBSET S |-> IF s = {} THEN {} ELSE Absorb(G[s \ {Latest(s)}], Latest(s))] BY <1>6 DEF MergeWalk
<1>8. G[{}] = {} /\ \A s \in SUBSET S : s # {} => G[s] = Absorb(G[s \ {Latest(s)}], Latest(s)) BY <1>7
<1> QED BY <1>6, <1>8

\* mergeBusy merges: its intervals have gaps between them and cover the same instants.
LEMMA MergeBusyMerges ==
  ASSUME NEW S \in SpanSets
  PROVE Merged(MergeBusy(S), S)
<1>1. PICK F : /\ MergeBusy(S) = F[S]
               /\ F[{}] = {}
               /\ \A s \in SUBSET S : s # {} => F[s] = Absorb(F[s \ {Latest(s)}], Latest(s))
  BY MergeIsFold
<1> DEFINE U == {s \in SUBSET S : Merged(F[s], s)}
<1>2. {} \in U
  BY <1>1, SpanSetFacts DEF Merged, Proper, Separate, CoversAll, StartsOf, Filled
<1>3. \A s \in SUBSET S : s # {} /\ s \ {Latest(s)} \in U => s \in U
  BY <1>1, AbsorbMerges, SpanSetFacts
<1>4. U = SUBSET S
  <2> HIDE DEF U
  <2>1. U \subseteq SUBSET S BY DEF U
  <2> QED BY <2>1, <1>2, <1>3, SpansFromBelow
<1>5. S \in U BY <1>4
<1> QED BY <1>1, <1>5

-----------------------------------------------------------------------------
(* subtractBusy                                                            *)

\* Spans that share no instant.
Off(f, t) == f[2] <= t[1] \/ t[2] <= f[1]
\* A span that is inside a window.
Inside(f, window) == window[1] <= f[1] /\ f[1] < f[2] /\ f[2] <= window[2]

\* Spans of a window that keep off a list and off each other,
Freed(free, window, spans) ==
  /\ free \in SpanSets
  /\ \A f \in free : Inside(f, window) /\ \A t \in spans : Off(f, t)
  /\ \A f, h \in free : f = h \/ Off(f, h)
\* and in which every span before the cursor is that does.
Remaining(free, cursor, window, spans) ==
  \A a \in Int, b \in Int :
    Inside(<<a, b>>, window) /\ (\A t \in spans : Off(<<a, b>>, t)) => cursor <= a \/ \E f \in free : f[1] <= a /\ b <= f[2]

\* The walk of subtractBusy,
Cuts == [free : SpanSets, cursor : Int]
\* and what holds of it after some of the spans.
Cutting(acc, window, spans) ==
  /\ acc \in Cuts
  /\ window[1] <= acc.cursor
  /\ Freed(acc.free, window, spans)
  /\ Remaining(acc.free, acc.cursor, window, spans)
  /\ \A t \in spans : t[2] <= acc.cursor \/ window[2] <= t[1]
  /\ \A f \in acc.free : f[2] <= acc.cursor /\ \E t \in spans : f[2] <= t[1]

\* subtractBusy takes the next span (440-452).
LEMMA CutCuts ==
  ASSUME NEW window \in Spans, NEW spans \in SpanSets, spans # {}, Proper(spans),
         NEW acc, Cutting(acc, window, spans \ {Latest(spans)})
  PROVE Cutting(Cut(window, acc, Latest(spans)), window, spans)
<1> DEFINE span == Latest(spans)
           before == spans \ {span}
           new == Cut(window, acc, span)
<1>1. /\ span \in spans /\ span \in Spans
      /\ \A x \in spans : x[1] <= span[1]
  BY LatestIs, SpanSetFacts
<1>2. /\ acc \in Cuts /\ window[1] <= acc.cursor
      /\ Freed(acc.free, window, before)
      /\ Remaining(acc.free, acc.cursor, window, before)
      /\ \A t \in before : t[2] <= acc.cursor \/ window[2] <= t[1]
      /\ \A f \in acc.free : f[2] <= acc.cursor /\ \E t \in before : f[2] <= t[1]
  BY DEF Cutting
<1>3. new = IF span[2] <= acc.cursor \/ span[1] >= window[2] THEN acc
            ELSE [free |-> IF span[1] > acc.cursor THEN acc.free \cup {<<acc.cursor, span[1]>>} ELSE acc.free, cursor |-> span[2]]
  BY DEF Cut
<1>i. /\ acc.free \in SpanSets /\ acc.cursor \in Int /\ window[1] \in Int /\ window[2] \in Int
      /\ span[1] \in Int /\ span[2] \in Int /\ span[1] < span[2]
      /\ \A b \in acc.free : b \in Spans /\ b[1] \in Int /\ b[2] \in Int
      /\ \A b \in spans : b \in Spans /\ b[1] \in Int /\ b[2] \in Int /\ b[1] < b[2]
      /\ spans = before \cup {span}
      /\ before \subseteq spans
  BY <1>1, <1>2, SpanParts, SpanSetFacts DEF Cuts, Proper
<1> HIDE DEF span, new, before
<1>f. \A f \in acc.free : Off(f, span)
  <2> SUFFICES ASSUME NEW f \in acc.free PROVE Off(f, span)
    OBVIOUS
  <2>1. PICK t \in before : f[2] <= t[1] BY <1>2
  <2>2. t[1] <= span[1] BY <1>1, <1>i
  <2> QED BY <2>1, <2>2, <1>i DEF Off
<1>w. \A a \in Int, b \in Int : <<a, b>>[1] = a /\ <<a, b>>[2] = b OBVIOUS
<1>4. CASE span[2] <= acc.cursor \/ span[1] >= window[2]
  <2>1. new = acc BY <1>3, <1>4
  <2>2. Freed(acc.free, window, spans) BY <1>2, <1>f, <1>i DEF Freed
  <2>3. Remaining(acc.free, acc.cursor, window, spans) BY <1>2, <1>i DEF Remaining
  <2>4. \A t \in spans : t[2] <= acc.cursor \/ window[2] <= t[1] BY <1>2, <1>4, <1>i
  <2>5. \A f \in acc.free : f[2] <= acc.cursor /\ \E t \in spans : f[2] <= t[1] BY <1>2, <1>i
  <2> QED BY <1>2, <2>1, <2>2, <2>3, <2>4, <2>5 DEF Cutting, new, span
<1>5. CASE ~(span[2] <= acc.cursor \/ span[1] >= window[2])
  <2> DEFINE gap == <<acc.cursor, span[1]>>
             free == IF span[1] > acc.cursor THEN acc.free \cup {gap} ELSE acc.free
  <2>0. span[2] > acc.cursor /\ span[1] < window[2] BY <1>5, <1>i
  <2>1. new = [free |-> free, cursor |-> span[2]] BY <1>3, <1>5
  <2>w. gap[1] = acc.cursor /\ gap[2] = span[1] /\ gap \in Spans BY <1>i, SpanParts
  <2>m. /\ \A f \in free : f \in acc.free \/ (f = gap /\ span[1] > acc.cursor)
        /\ acc.free \subseteq free
        /\ span[1] > acc.cursor => gap \in free
    OBVIOUS
  <2>s. free \in SpanSets BY <2>w, <1>i, SpanSetFacts
  <2> HIDE DEF gap, free
  <2>g. span[1] > acc.cursor => Inside(gap, window) /\ \A t \in spans : Off(gap, t)
    <3> SUFFICES ASSUME span[1] > acc.cursor PROVE Inside(gap, window) /\ \A t \in spans : Off(gap, t)
      OBVIOUS
    <3>1. Inside(gap, window) BY <2>0, <2>w, <1>2, <1>i DEF Inside
    <3>2. ASSUME NEW t \in spans PROVE Off(gap, t)
      <4>1. CASE t = span BY <4>1, <2>w, <1>i DEF Off
      <4>2. CASE t \in before
        <5>1. t[2] <= acc.cursor \/ window[2] <= t[1] BY <4>2, <1>2
        <5> QED BY <5>1, <2>0, <2>w, <1>i DEF Off
      <4> QED BY <4>1, <4>2, <1>i
    <3> QED BY <3>1, <3>2
  <2>2. Freed(free, window, spans)
    <3>1. ASSUME NEW f \in free PROVE Inside(f, window) /\ \A t \in spans : Off(f, t)
      <4>1. CASE f \in acc.free BY <4>1, <1>2, <1>f, <1>i DEF Freed
      <4> QED BY <4>1, <2>m, <2>g
    <3>2. ASSUME NEW f \in free, NEW h \in free PROVE f = h \/ Off(f, h)
      <4>1. CASE f \in acc.free /\ h \in acc.free BY <4>1, <1>2 DEF Freed
      <4>2. CASE f = gap /\ h \in acc.free BY <4>2, <1>2, <2>w DEF Off
      <4>3. CASE h = gap /\ f \in acc.free BY <4>3, <1>2, <2>w DEF Off
      <4> QED BY <4>1, <4>2, <4>3, <2>m
    <3> QED BY <2>s, <3>1, <3>2 DEF Freed
  <2>3. Remaining(free, span[2], window, spans)
    <3> SUFFICES ASSUME NEW a \in Int, NEW b \in Int, Inside(<<a, b>>, window), \A t \in spans : Off(<<a, b>>, t)
                 PROVE span[2] <= a \/ \E f \in free : f[1] <= a /\ b <= f[2]
      BY DEF Remaining
    <3>1. acc.cursor <= a \/ \E f \in acc.free : f[1] <= a /\ b <= f[2]
      BY <1>2, <1>i DEF Remaining
    <3>2. CASE acc.cursor <= a
      <4>1. b <= span[1] \/ span[2] <= a BY <1>1, <1>w DEF Off
      <4>2. a < b BY <1>w DEF Inside
      <4>3. CASE b <= span[1]
        <5>1. gap \in free BY <4>2, <4>3, <3>2, <2>m, <1>i
        <5>2. gap[1] <= a /\ b <= gap[2] BY <2>w, <3>2, <4>3
        <5> QED BY <5>1, <5>2
      <4> QED BY <4>1, <4>3
    <3>3. CASE \E f \in acc.free : f[1] <= a /\ b <= f[2]
      BY <3>3, <2>m
    <3> QED BY <3>1, <3>2, <3>3
  <2>4. \A t \in spans : t[2] <= span[2] \/ window[2] <= t[1]
    BY <1>2, <2>0, <1>i
  <2>5. \A f \in free : f[2] <= span[2] /\ \E t \in spans : f[2] <= t[1]
    <3> SUFFICES ASSUME NEW f \in free PROVE f[2] <= span[2] /\ \E t \in spans : f[2] <= t[1]
      OBVIOUS
    <3>1. CASE f \in acc.free
      <4>1. f[2] <= acc.cursor /\ \E t \in before : f[2] <= t[1] BY <3>1, <1>2
      <4>2. f[2] \in Int BY <3>1, <1>i
      <4> QED BY <4>1, <4>2, <2>0, <1>i
    <3>2. CASE f = gap BY <3>2, <2>w, <1>1, <1>i
    <3> QED BY <3>1, <3>2, <2>m
  <2>6. window[1] <= span[2] BY <1>2, <2>0, <1>i
  <2>7. new \in Cuts /\ new.free = free /\ new.cursor = span[2] BY <2>1, <2>s, <1>i DEF Cuts
  <2> QED BY <2>2, <2>3, <2>4, <2>5, <2>6, <2>7 DEF Cutting, new, span
<1> QED BY <1>4, <1>5

\* The walk of subtractBusy as the community modules define it,
CutWalk(F, base, window, S) == F = [s \in SUBSET S |-> IF s = {} THEN base ELSE Cut(window, F[s \ {Latest(s)}], Latest(s))]
\* the free interval after the last span,
LastFree(free, cursor, window) == IF cursor < window[2] THEN free \cup {<<cursor, window[2]>>} ELSE free

\* what MapThenFoldSet computes,
LEMMA CutUnfolds ==
  ASSUME NEW S, NEW window, NEW base, NEW F, CutWalk(F, base, window, S)
  PROVE \E G : CutAll(window, base, S) = G[S] /\ CutWalk(G, base, window, S)
BY DEF CutWalk, CutAll, OverSpans, MapThenFoldSet

\* and that the walk takes the spans one after the other.
LEMMA CutIsFold ==
  ASSUME NEW S \in SpanSets, NEW window \in Spans
  PROVE \E F : /\ SubtractBusy(window, S) = LastFree(F[S].free, F[S].cursor, window)
               /\ F[{}] = [free |-> {}, cursor |-> window[1]]
               /\ \A s \in SUBSET S : s # {} => F[s] = Cut(window, F[s \ {Latest(s)}], Latest(s))
<1> DEFINE g == [p \in Cuts \X S |-> Cut(window, p[1], p[2])]
           c == [t \in SUBSET S |-> Latest(t)]
           base == [free |-> {}, cursor |-> window[1]]
<1>0. base \in Cuts BY SpanParts, SpanSetFacts DEF Cuts
<1>1. Takes(g, Cuts, S)
  <2> SUFFICES ASSUME NEW a \in Cuts, NEW x \in S PROVE g[<<a, x>>] \in Cuts
    BY DEF Takes
  <2>1. g[<<a, x>>] = Cut(window, a, x) OBVIOUS
  <2>2. x[1] \in Int /\ x[2] \in Int BY SpanSetFacts, SpanParts
  <2>3. a.free \in SpanSets /\ a.cursor \in Int BY DEF Cuts
  <2>4. a.free \cup {<<a.cursor, x[1]>>} \in SpanSets BY <2>2, <2>3, SpanSetFacts, SpanParts
  <2>5. Cut(window, a, x) \in Cuts
    BY <2>2, <2>3, <2>4 DEF Cut, Cuts
  <2> QED BY <2>1, <2>5
<1>2. PICK F : Folds(F, S, Cuts, base, c, g)
  <2> HIDE DEF g, base
  <2> QED BY <1>0, <1>1, SpanFold
<1>3. \A s \in SUBSET S : s # {} => F[s] = Cut(window, F[s \ {Latest(s)}], Latest(s))
  <2> SUFFICES ASSUME NEW s \in SUBSET S, s # {} PROVE F[s] = Cut(window, F[s \ {Latest(s)}], Latest(s))
    OBVIOUS
  <2>1. Latest(s) \in S BY LatestIs, SpanSetFacts, FS_Subset
  <2>2. F[s \ {Latest(s)}] \in Cuts BY <1>2 DEF Folds
  <2> QED BY <1>2, <2>1, <2>2 DEF Folds
<1> HIDE DEF g, c
<1>4. F = [s \in SUBSET S |-> IF s = {} THEN base ELSE Cut(window, F[s \ {Latest(s)}], Latest(s))]
  BY <1>2, <1>3 DEF Folds
<1>5. CutWalk(F, base, window, S) BY <1>4 DEF CutWalk
<1>6. PICK G : CutAll(window, base, S) = G[S] /\ CutWalk(G, base, window, S) BY <1>5, CutUnfolds
<1>9. SubtractBusy(window, S) = LastFree(G[S].free, G[S].cursor, window) BY <1>6 DEF SubtractBusy, LastFree
<1>7. G = [s \in SUBSET S |-> IF s = {} THEN base ELSE Cut(window, G[s \ {Latest(s)}], Latest(s))] BY <1>6 DEF CutWalk
<1>8. G[{}] = base /\ \A s \in SUBSET S : s # {} => G[s] = Cut(window, G[s \ {Latest(s)}], Latest(s)) BY <1>7
<1> QED BY <1>8, <1>9

\* subtractBusy leaves what is free: its intervals keep off the list and each other, and every span of the window that
\* keeps off the list is in one of them.
LEMMA SubtractFrees ==
  ASSUME NEW S \in SpanSets, Proper(S), NEW window \in Spans
  PROVE /\ Freed(SubtractBusy(window, S), window, S)
        /\ Remaining(SubtractBusy(window, S), window[2], window, S)
<1>1. PICK F : /\ SubtractBusy(window, S) = LastFree(F[S].free, F[S].cursor, window)
               /\ F[{}] = [free |-> {}, cursor |-> window[1]]
               /\ \A s \in SUBSET S : s # {} => F[s] = Cut(window, F[s \ {Latest(s)}], Latest(s))
  BY CutIsFold
<1>w. window[1] \in Int /\ window[2] \in Int BY SpanParts
<1> DEFINE U == {s \in SUBSET S : Cutting(F[s], window, s)}
<1>2. {} \in U
  <2> DEFINE base == [free |-> {}, cursor |-> window[1]]
  <2>1. base \in Cuts /\ base.free = {} /\ base.cursor = window[1] BY <1>w, SpanSetFacts DEF Cuts
  <2>2. Freed({}, window, {}) BY SpanSetFacts DEF Freed
  <2>3. Remaining({}, window[1], window, {})
    <3> SUFFICES ASSUME NEW a \in Int, NEW b \in Int, Inside(<<a, b>>, window) PROVE window[1] <= a
      BY DEF Remaining
    <3> QED BY DEF Inside
  <2>4. Cutting(base, window, {}) BY <2>1, <2>2, <2>3, <1>w DEF Cutting
  <2> QED BY <2>4, <1>1
<1>3. \A s \in SUBSET S : s # {} /\ s \ {Latest(s)} \in U => s \in U
  BY <1>1, CutCuts, SpanSetFacts DEF Proper
<1>4. U = SUBSET S
  <2> HIDE DEF U
  <2>1. U \subseteq SUBSET S BY DEF U
  <2> QED BY <2>1, <1>2, <1>3, SpansFromBelow
<1>5. Cutting(F[S], window, S)
  <2>1. S \in U BY <1>4
  <2> QED BY <2>1
<1> DEFINE free == F[S].free
           cursor == F[S].cursor
           end == <<cursor, window[2]>>
           all == SubtractBusy(window, S)
<1>6. /\ free \in SpanSets /\ cursor \in Int /\ window[1] <= cursor
      /\ Freed(free, window, S)
      /\ Remaining(free, cursor, window, S)
      /\ \A t \in S : t[2] <= cursor \/ window[2] <= t[1]
      /\ \A f \in free : f[2] <= cursor
  BY <1>5 DEF Cutting, Cuts
<1>7. all = IF cursor < window[2] THEN free \cup {end} ELSE free BY <1>1 DEF LastFree
<1>8. end \in Spans /\ end[1] = cursor /\ end[2] = window[2] BY <1>6, <1>w, SpanParts
<1> HIDE DEF free, cursor, end, all, U
<1>9. all \in SpanSets BY <1>6, <1>7, <1>8, SpanSetFacts
<1>10. cursor < window[2] => Inside(end, window) /\ \A t \in S : Off(end, t)
  BY <1>6, <1>8, <1>w DEF Inside, Off
<1>11. \A f \in all : f \in free \/ (f = end /\ cursor < window[2]) BY <1>7
<1>12. \A f \in all : Inside(f, window) /\ \A t \in S : Off(f, t)
  BY <1>6, <1>10, <1>11 DEF Freed
<1>13. \A f, h \in all : f = h \/ Off(f, h)
  <2> SUFFICES ASSUME NEW f \in all, NEW h \in all PROVE f = h \/ Off(f, h)
    OBVIOUS
  <2>1. CASE f \in free /\ h \in free BY <2>1, <1>6 DEF Freed
  <2>2. CASE f = end /\ h \in free BY <2>2, <1>6, <1>8 DEF Off
  <2>3. CASE h = end /\ f \in free BY <2>3, <1>6, <1>8 DEF Off
  <2> QED BY <2>1, <2>2, <2>3, <1>11
<1>14. Remaining(all, window[2], window, S)
  <2> SUFFICES ASSUME NEW a \in Int, NEW b \in Int, Inside(<<a, b>>, window), \A t \in S : Off(<<a, b>>, t)
               PROVE \E f \in all : f[1] <= a /\ b <= f[2]
    BY DEF Remaining
  <2>1. cursor <= a \/ \E f \in free : f[1] <= a /\ b <= f[2] BY <1>6 DEF Remaining
  <2>2. CASE cursor <= a
    <3>1. a < b /\ b <= window[2] BY DEF Inside
    <3>2. end \in all BY <3>1, <2>2, <1>6, <1>7, <1>w
    <3> QED BY <3>1, <3>2, <2>2, <1>8
  <2>3. CASE \E f \in free : f[1] <= a /\ b <= f[2] BY <2>3, <1>7
  <2> QED BY <2>1, <2>2, <2>3
<1> QED BY <1>9, <1>12, <1>13, <1>14 DEF Freed, all

-----------------------------------------------------------------------------
(* Whole minutes                                                           *)

\* A minute has instants.
Sized == Minute \in Nat \ {0}

\* Minutes add up and keep the order of their numbers.
LEMMA MinutesAre ==
  ASSUME Sized
  PROVE /\ Minutes(0) = 0 /\ Minutes(1) = Minute
        /\ \A a \in Int : Minutes(a) \in Int
        /\ \A a, b \in Int : Minutes(a + b) = Minutes(a) + Minutes(b) /\ Minutes(a - b) = Minutes(a) - Minutes(b)
        /\ \A a, b \in Int : a <= b <=> Minutes(a) <= Minutes(b)
        /\ \A a, b \in Int : a < b <=> Minutes(a) < Minutes(b)
        /\ \A a, b \in Int : a < b => Minutes(a) + Minute <= Minutes(b)
        /\ \A a, b \in Int : a * Minutes(b) = Minutes(a * b)
<1> USE DEF Minutes, Sized
<1>1. Minutes(0) = 0 /\ Minutes(1) = Minute OBVIOUS
<1>2. \A a \in Int : Minutes(a) \in Int OBVIOUS
<1>3. \A a, b \in Int : Minutes(a + b) = Minutes(a) + Minutes(b) /\ Minutes(a - b) = Minutes(a) - Minutes(b) OBVIOUS
<1>4. \A a \in Int : a > 0 => Minutes(a) >= Minute
  OBVIOUS
<1>5. \A a, b \in Int : a < b => Minutes(a) + Minute <= Minutes(b)
  <2> SUFFICES ASSUME NEW a \in Int, NEW b \in Int, a < b PROVE Minutes(a) + Minute <= Minutes(b)
    OBVIOUS
  <2>1. Minutes(b - a) >= Minute BY <1>4
  <2>2. Minutes(b - a) = Minutes(b) - Minutes(a) BY <1>3
  <2> HIDE DEF Minutes
  <2> QED BY <2>1, <2>2, <1>2
<1>6. \A a, b \in Int : a < b => Minutes(a) < Minutes(b)
  <2> HIDE DEF Minutes
  <2> QED BY <1>2, <1>5
<1>7. \A a, b \in Int : a < b <=> Minutes(a) < Minutes(b)
  <2> SUFFICES ASSUME NEW a \in Int, NEW b \in Int PROVE a < b <=> Minutes(a) < Minutes(b)
    OBVIOUS
  <2>1. a < b \/ a = b \/ b < a OBVIOUS
  <2> HIDE DEF Minutes
  <2> QED BY <2>1, <1>2, <1>6
<1>8. \A a, b \in Int : a <= b <=> Minutes(a) <= Minutes(b)
  <2> HIDE DEF Minutes
  <2> QED BY <1>2, <1>7
<1>9. \A a, b \in Int : a * Minutes(b) = Minutes(a * b) OBVIOUS
<1> QED BY <1>1, <1>2, <1>3, <1>5, <1>7, <1>8, <1>9

\* Instants on a whole minute.
Whole(at) == \E k \in Int : at = Minutes(k)

\* They are those that no instants of a minute have passed of; cutting these off leaves one.
LEMMA WholeIs ==
  ASSUME Sized, NEW at \in Int
  PROVE /\ at % Minute \in 0..(Minute - 1)
        /\ Whole(at - (at % Minute))
        /\ Whole(at) <=> at % Minute = 0
<1> USE DEF Minutes, Sized
<1>1. at % Minute \in 0..(Minute - 1) OBVIOUS
<1>2. at = (at \div Minute) * Minute + (at % Minute) /\ at \div Minute \in Int OBVIOUS
<1>3. Whole(at - (at % Minute))
  <2>1. at - (at % Minute) = Minutes(at \div Minute) BY <1>1, <1>2
  <2> QED BY <2>1, <1>2 DEF Whole
<1>4. ASSUME NEW k \in Int, at = Minutes(k) PROVE at % Minute = 0
  BY <1>4
<1>5. at % Minute = 0 => Whole(at) BY <1>3
<1> QED BY <1>1, <1>3, <1>4, <1>5 DEF Whole

\* Their sums are such instants, and they are a minute apart.
LEMMA WholeSums ==
  ASSUME Sized
  PROVE /\ \A a \in Int : Whole(Minutes(a))
        /\ \A a, b : Whole(a) /\ Whole(b) => a \in Int /\ b \in Int /\ Whole(a + b) /\ Whole(a - b)
        /\ \A a, b : Whole(a) /\ Whole(b) /\ a < b => a + Minute <= b
<1>1. \A a \in Int : Whole(Minutes(a)) BY DEF Whole
<1>2. ASSUME NEW a, NEW b, Whole(a), Whole(b) PROVE a \in Int /\ b \in Int /\ Whole(a + b) /\ Whole(a - b)
  <2>1. PICK i \in Int : a = Minutes(i) BY <1>2 DEF Whole
  <2>2. PICK j \in Int : b = Minutes(j) BY <1>2 DEF Whole
  <2>3. a + b = Minutes(i + j) /\ a - b = Minutes(i - j) BY <2>1, <2>2, MinutesAre
  <2>4. i + j \in Int /\ i - j \in Int OBVIOUS
  <2> QED BY <2>1, <2>2, <2>3, <2>4, MinutesAre DEF Whole
<1>3. ASSUME NEW a, NEW b, Whole(a), Whole(b), a < b PROVE a + Minute <= b
  <2>1. PICK i \in Int : a = Minutes(i) BY <1>3 DEF Whole
  <2>2. PICK j \in Int : b = Minutes(j) BY <1>3 DEF Whole
  <2>3. i < j BY <1>3, <2>1, <2>2, MinutesAre
  <2> QED BY <2>1, <2>2, <2>3, MinutesAre
<1> QED BY <1>1, <1>2, <1>3

\* ceilMinute gives the first of them that is not before an instant.
LEMMA CeilIs ==
  ASSUME Sized, NEW at \in Int
  PROVE /\ Whole(CeilMinute(at)) /\ CeilMinute(at) \in Int
        /\ at <= CeilMinute(at) /\ CeilMinute(at) < at + Minute
<1>1. at % Minute \in 0..(Minute - 1) /\ Whole(at - (at % Minute)) /\ (Whole(at) <=> at % Minute = 0) BY WholeIs
<1>2. Minute \in Int /\ Whole(Minute)
  <2>1. Minute = Minutes(1) BY DEF Minutes, Sized
  <2> QED BY <2>1, WholeSums DEF Sized
<1>3. Whole((at - (at % Minute)) + Minute) BY <1>1, <1>2, WholeSums
<1> HIDE DEF Sized
<1>4. CeilMinute(at) = IF at % Minute = 0 THEN at ELSE (at - (at % Minute)) + Minute BY DEF CeilMinute
<1> DEFINE r == at % Minute
<1>5. r \in 0..(Minute - 1) BY <1>1
<1>6. CASE r = 0 BY <1>6, <1>1, <1>2, <1>4, <1>5
<1>7. CASE r # 0
  <2>1. CeilMinute(at) = (at - r) + Minute /\ Whole((at - r) + Minute) BY <1>3, <1>4, <1>7
  <2> HIDE DEF r
  <2> QED BY <2>1, <1>2, <1>5, <1>7
<1> QED BY <1>6, <1>7

\* A walk over minutes visits every instant from one to before another that is whole minutes after the first.
LEMMA GridIs ==
  ASSUME Sized, NEW from \in Int, NEW to \in Int
  PROVE /\ Grid(from, to) \subseteq Int /\ IsFiniteSet(Grid(from, to))
        /\ \A at \in Grid(from, to) : from <= at /\ at < to /\ Whole(at - from)
        /\ \A at \in Int : from <= at /\ at < to /\ Whole(at - from) => at \in Grid(from, to)
<1> DEFINE n == (to - from) \div Minute
<1>1. n \in Int /\ to - from < Minutes(n + 1) BY DEF Sized, Minutes
<1> HIDE DEF n
<1>2. Grid(from, to) = {at \in {from + Minutes(k) : k \in 0..n} : at < to} BY DEF Grid, n
<1>3. Grid(from, to) \subseteq {from + Minutes(k) : k \in 0..n} BY <1>2
<1>4. IsFiniteSet({from + Minutes(k) : k \in 0..n})
  <2>1. IsFiniteSet(0..n) BY <1>1, FS_Interval
  <2> DEFINE f == [k \in 0..n |-> from + Minutes(k)]
  <2>2. {from + Minutes(k) : k \in 0..n} = {f[k] : k \in 0..n} OBVIOUS
  <2>3. f \in Surjection(0..n, {from + Minutes(k) : k \in 0..n}) BY DEF Surjection
  <2> QED BY <2>1, <2>3, FS_Surjection
<1>5. ASSUME NEW at \in Grid(from, to) PROVE at \in Int /\ from <= at /\ at < to /\ Whole(at - from)
  <2>1. PICK k \in 0..n : at = from + Minutes(k) /\ at < to BY <1>2
  <2>2. k \in Int /\ Minutes(k) \in Int /\ Minutes(0) <= Minutes(k) /\ Minutes(0) = 0
    <3>1. k \in Int /\ 0 \in Int /\ 0 <= k BY <1>1
    <3> QED BY <3>1, MinutesAre
  <2>3. at - from = Minutes(k) BY <2>1, <2>2
  <2> QED BY <2>1, <2>2, <2>3 DEF Whole
<1>6. ASSUME NEW at \in Int, from <= at, at < to, Whole(at - from) PROVE at \in Grid(from, to)
  <2>1. PICK k \in Int : at - from = Minutes(k) BY <1>6 DEF Whole
  <2>2. Minutes(k) \in Int /\ Minutes(k) >= Minutes(0) /\ Minutes(k) < Minutes(n + 1)
    <3>1. Minutes(k) \in Int /\ Minutes(0) = 0 BY MinutesAre
    <3>2. n + 1 \in Int /\ Minutes(n + 1) \in Int BY <1>1, MinutesAre
    <3> QED BY <3>1, <3>2, <2>1, <1>1, <1>6
  <2>3. 0 <= k /\ k < n + 1 BY <2>2, <1>1, MinutesAre
  <2>4. k \in 0..n /\ at = from + Minutes(k) BY <2>1, <2>2, <2>3, <1>1
  <2> QED BY <2>4, <1>2, <1>6
<1>7. IsFiniteSet(Grid(from, to)) BY <1>3, <1>4, FS_Subset
<1> QED BY <1>5, <1>6, <1>7

-----------------------------------------------------------------------------
(* blockedIntervals                                                        *)

\* A minute as a number,
LEMMA MinuteIs ==
  ASSUME Sized
  PROVE Minute \in Int /\ 0 < Minute
BY DEF Sized

\* and some minutes.
LEMMA NatMinutes ==
  ASSUME Sized, NEW n \in Nat
  PROVE n \in Int /\ Minutes(n) \in Int /\ 0 <= Minutes(n)
<1>1. 0 \in Int /\ n \in Int /\ 0 <= n OBVIOUS
<1>2. Minutes(0) <= Minutes(n) /\ Minutes(n) \in Int BY <1>1, MinutesAre
<1> QED BY <1>1, <1>2, MinutesAre

\* The interval that is open in a walk, if any.
Open == {{}} \cup {{b} : b \in Spans}

\* It is a list of one span or of none, and Opens makes it so.
LEMMA OpenFacts ==
  /\ Open \subseteq SpanSets
  /\ \A open \in Open, from \in Int, to \in Int :
       /\ Opens(open, from, to) \in Open
       /\ open = {} => Opens(open, from, to) = {<<from, to>>}
       /\ \A b : open = {b} => Opens(open, from, to) = {<<b[1], to>>}
<1>1. \A b \in Spans : {b} \in SpanSets BY FS_Singleton DEF SpanSets
<1>2. Open \subseteq SpanSets BY <1>1, SpanSetFacts DEF Open
<1>3. ASSUME NEW open \in Open, NEW from \in Int, NEW to \in Int
      PROVE /\ Opens(open, from, to) \in Open
            /\ open = {} => Opens(open, from, to) = {<<from, to>>}
            /\ \A b : open = {b} => Opens(open, from, to) = {<<b[1], to>>}
  <2>1. CASE open = {} BY <2>1, SpanParts DEF Opens, Open
  <2>2. ASSUME NEW b \in Spans, open = {b} PROVE Opens(open, from, to) = {<<b[1], to>>} /\ <<b[1], to>> \in Spans
    BY <2>2, SpanParts DEF Opens
  <2>3. open # {} => \A b : open = {b} => b \in Spans BY DEF Open
  <2> QED BY <2>1, <2>2, <2>3 DEF Open
<1> QED BY <1>2, <1>3

\* The minutes of a walk up to one of them.
Prefix(minutes, walk) == \A at \in minutes, b \in walk : b <= at => b \in minutes
\* A walk without a gap.
Gapless(grid) == \A a, b \in grid : \A x : Whole(x) /\ a <= x /\ x <= b => x \in grid

\* The last minute of such a walk: what is before it is the walk so far, which ends a minute before.
LEMMA LastMinute ==
  ASSUME Sized, NEW grid \in SUBSET Int, IsFiniteSet(grid), \A x \in grid : Whole(x), Gapless(grid),
         NEW minutes \in SUBSET grid, Prefix(minutes, grid), minutes # {}
  PROVE /\ Max(minutes) \in minutes /\ Max(minutes) \in Int /\ Whole(Max(minutes))
        /\ \A x \in minutes : x <= Max(minutes)
        /\ \A x \in minutes \ {Max(minutes)} : x < Max(minutes)
        /\ Prefix(minutes \ {Max(minutes)}, grid)
        /\ minutes \ {Max(minutes)} # {} => Max(minutes \ {Max(minutes)}) = Max(minutes) - Minute
<1> DEFINE m == Max(minutes)
           before == minutes \ {m}
           n == Max(before)
           x == m - Minute
<1>1. m \in minutes /\ \A y \in minutes : y <= m
  <2>1. minutes \in SUBSET Int /\ IsFiniteSet(minutes) BY FS_Subset
  <2> QED BY <2>1, MaxIs
<1>2. m \in Int /\ Whole(m) /\ Minute \in Int /\ 0 < Minute /\ minutes \subseteq Int BY <1>1, MinuteIs
<1> HIDE DEF m
<1>3. \A y \in before : y < m /\ y \in minutes /\ y \in grid /\ Whole(y) /\ y \in Int BY <1>1, <1>2
<1>4. Prefix(before, grid)
  <2> SUFFICES ASSUME NEW y \in before, NEW b \in grid, b <= y PROVE b \in before
    BY DEF Prefix
  <2>1. b \in minutes BY <1>3 DEF Prefix
  <2>2. b # m BY <1>2, <1>3
  <2> QED BY <2>1, <2>2
<1>5. ASSUME before # {} PROVE n = x
  <2>1. n \in before /\ \A y \in before : y <= n
    <3>1. before \in SUBSET Int /\ IsFiniteSet(before) BY <1>2, FS_Subset
    <3> HIDE DEF before
    <3> QED BY <3>1, <1>5, MaxIs
  <2> HIDE DEF n
  <2>2. n < m /\ n + Minute <= m /\ n \in Int /\ Whole(n) /\ n \in grid BY <2>1, <1>2, <1>3, WholeSums
  <2>3. Whole(x) /\ x \in Int
    <3>1. Whole(Minute)
      <4>1. Minute = Minutes(1) /\ 1 \in Int BY MinutesAre
      <4> QED BY <4>1, WholeSums
    <3> QED BY <3>1, <1>2, WholeSums
  <2>4. n <= x /\ x < m BY <2>2, <1>2
  <2>5. x \in grid BY <2>2, <2>3, <2>4, <1>1, <1>2 DEF Gapless
  <2>6. x \in minutes BY <2>4, <2>5, <1>1, <1>2 DEF Prefix
  <2>7. x <= n BY <2>1, <2>4, <2>6, <1>2
  <2> QED BY <2>2, <2>3, <2>4, <2>7
<1> QED BY <1>1, <1>2, <1>3, <1>4, <1>5 DEF m

\* The walk of blockedIntervals.
BlockWalks == [done : SpanSets, open : Open]
\* An interval that holds a minute with the buffer before it,
Buffered(b, v, at) == b[1] <= at - Minutes(v.buffer) /\ at + Minute <= b[2]
\* an interval of which every minute after the buffer is blocked,
Tight(b, v, zone) ==
  /\ Whole(b[1]) /\ Whole(b[2]) /\ b[1] + Minutes(v.buffer) < b[2]
  /\ \A at : Whole(at) /\ b[1] + Minutes(v.buffer) <= at /\ at < b[2] => Blocked(v, zone, at)
\* and what holds of the walk after some of the minutes.
Blocking(acc, v, zone, minutes) ==
  /\ acc \in BlockWalks
  /\ Proper(acc.done) /\ Proper(acc.open)
  /\ \A b \in acc.open : \E at \in minutes : b[1] <= at - Minutes(v.buffer) /\ b[2] <= at + Minute
  /\ \A b \in acc.open : minutes # {} /\ b[2] = Max(minutes) + Minute
  /\ \A b \in acc.done \cup acc.open : Tight(b, v, zone)
  /\ \A at \in minutes : Blocked(v, zone, at) => \E b \in acc.done \cup acc.open : Buffered(b, v, at)

\* A minute that is blocked opens an interval or goes on with the one that is open; another closes it (398-416).
LEMMA BlockStepType ==
  ASSUME Sized, NEW v, v.buffer \in Nat, NEW zone, NEW acc \in BlockWalks, NEW at \in Int
  PROVE /\ BlockStep(v, zone, acc, at) \in BlockWalks
        /\ Blocked(v, zone, at) => /\ BlockStep(v, zone, acc, at).done = acc.done
                                   /\ BlockStep(v, zone, acc, at).open = Opens(acc.open, at - Minutes(v.buffer), at + Minute)
        /\ ~Blocked(v, zone, at) => /\ BlockStep(v, zone, acc, at).done = acc.done \cup acc.open
                                    /\ BlockStep(v, zone, acc, at).open = {}
<1> DEFINE from == at - Minutes(v.buffer)
           to == at + Minute
<1>1. from \in Int /\ to \in Int BY NatMinutes, MinuteIs
<1> HIDE DEF from, to
<1>2. acc.done \in SpanSets /\ acc.open \in Open /\ acc = [done |-> acc.done, open |-> acc.open] BY DEF BlockWalks
<1>3. Opens(acc.open, from, to) \in Open BY <1>1, <1>2, OpenFacts
<1>4. acc.done \cup acc.open \in SpanSets BY <1>2, OpenFacts, SpanSetFacts DEF Open
<1>5. {} \in Open BY DEF Open
<1>6. CASE Blocked(v, zone, at)
  <2>1. BlockStep(v, zone, acc, at) = [acc EXCEPT !.open = Opens(@, from, to)] BY <1>6 DEF BlockStep, from, to
  <2> QED BY <2>1, <1>2, <1>3, <1>6 DEF BlockWalks, from, to
<1>7. CASE ~Blocked(v, zone, at)
  <2>1. BlockStep(v, zone, acc, at) = [done |-> acc.done \cup acc.open, open |-> {}] BY <1>7 DEF BlockStep
  <2> QED BY <2>1, <1>4, <1>5, <1>7 DEF BlockWalks
<1> QED BY <1>6, <1>7

\* blockedIntervals takes the next minute.
LEMMA BlockStepBlocks ==
  ASSUME Sized, NEW v, v.buffer \in Nat, NEW zone,
         NEW grid \in SUBSET Int, IsFiniteSet(grid), \A x \in grid : Whole(x), Gapless(grid),
         NEW minutes \in SUBSET grid, Prefix(minutes, grid), minutes # {},
         NEW acc, Blocking(acc, v, zone, minutes \ {Max(minutes)})
  PROVE Blocking(BlockStep(v, zone, acc, Max(minutes)), v, zone, minutes)
<1> DEFINE at == Max(minutes)
           new == BlockStep(v, zone, acc, at)
           before == minutes \ {at}
           B == Minutes(v.buffer)
<1>1. /\ at \in minutes /\ at \in Int /\ Whole(at) /\ \A x \in minutes : x <= at
      /\ \A x \in before : x < at
      /\ before # {} => Max(before) = at - Minute
  BY LastMinute
<1>2. /\ acc \in BlockWalks /\ Proper(acc.done) /\ Proper(acc.open)
      /\ \A b \in acc.open : \E x \in before : b[1] <= x - B /\ b[2] <= x + Minute
      /\ \A b \in acc.open : before # {} /\ b[2] = Max(before) + Minute
      /\ \A b \in acc.done \cup acc.open : Tight(b, v, zone)
      /\ \A x \in before : Blocked(v, zone, x) => \E b \in acc.done \cup acc.open : Buffered(b, v, x)
  BY DEF Blocking
<1>3. /\ new \in BlockWalks
      /\ Blocked(v, zone, at) => new.done = acc.done /\ new.open = Opens(acc.open, at - B, at + Minute)
      /\ ~Blocked(v, zone, at) => new.done = acc.done \cup acc.open /\ new.open = {}
  BY <1>1, <1>2, BlockStepType
<1>i. /\ B \in Int /\ 0 <= B /\ Minute \in Int /\ 0 < Minute /\ minutes = before \cup {at} /\ before \subseteq Int
      /\ \A x \in before : x < at
  <2>1. B \in Int /\ 0 <= B /\ Minute \in Int /\ 0 < Minute BY NatMinutes, MinuteIs
  <2>2. minutes = before \cup {at} /\ before \subseteq Int BY <1>1
  <2> HIDE DEF before, at
  <2>3. \A x \in before : x < at BY <1>1
  <2> QED BY <2>1, <2>2, <2>3
<1>o. /\ acc.open \in Open
      /\ \A b \in acc.done \cup acc.open : b \in Spans /\ b[1] \in Int /\ b[2] \in Int
  <2>1. acc.open \in Open /\ acc.done \in SpanSets BY <1>2 DEF BlockWalks
  <2>2. acc.open \in SpanSets BY <2>1, OpenFacts
  <2> QED BY <2>1, <2>2, SpanSetFacts, SpanParts
<1> HIDE DEF at, new, before, B
<1>4. CASE ~Blocked(v, zone, at)
  <2>1. Proper(new.done) /\ Proper(new.open) BY <1>2, <1>3, <1>4 DEF Proper
  <2>2. \A x \in minutes : Blocked(v, zone, x) => \E b \in new.done \cup new.open : Buffered(b, v, x)
    <3> SUFFICES ASSUME NEW x \in minutes, Blocked(v, zone, x) PROVE \E b \in new.done \cup new.open : Buffered(b, v, x)
      OBVIOUS
    <3>1. x \in before BY <1>4, <1>i
    <3> QED BY <3>1, <1>2, <1>3, <1>4
  <2>3. \A b \in new.done \cup new.open : Tight(b, v, zone) BY <1>2, <1>3, <1>4
  <2>4. Blocking(new, v, zone, minutes) BY <1>3, <1>4, <2>1, <2>2, <2>3 DEF Blocking
  <2> QED BY <2>4 DEF new, at
<1>5. CASE Blocked(v, zone, at)
  <2> DEFINE to == at + Minute
  <2>0. new.done = acc.done /\ new.open = Opens(acc.open, at - B, to) /\ at - B \in Int /\ to \in Int BY <1>1, <1>3, <1>5, <1>i
  <2>1. PICK b \in Spans : /\ new.open = {b} /\ b[2] = to /\ b[1] <= at - B
                 /\ b[1] \in Int
                 /\ \A c \in acc.open : b[1] = c[1]
    <3>1. CASE acc.open = {}
      <4>1. new.open = {<<at - B, to>>} BY <2>0, <3>1, <1>o, OpenFacts
      <4>2. <<at - B, to>>[1] = at - B /\ <<at - B, to>>[2] = to /\ <<at - B, to>> \in Spans BY <2>0, SpanParts
      <4> QED BY <4>1, <4>2, <3>1, <2>0, <1>i, <1>1
    <3>2. ASSUME NEW c \in acc.open, acc.open = {c} 
          PROVE new.open = {<<c[1], to>>} /\ c[1] \in Int /\ c[1] <= at - B
      <4>1. new.open = {<<c[1], to>>} BY <2>0, <3>2, <1>o, OpenFacts
      <4>2. PICK x \in before : c[1] <= x - B BY <1>2, <3>2
      <4>3. c[1] \in Int /\ c[1] <= at - B BY <4>2, <1>o, <1>i, <1>1
      <4> QED BY <4>1, <4>3
    <3>3. CASE acc.open # {}
      <4>1. PICK c \in Spans : acc.open = {c} BY <3>3, <1>o DEF Open
      <4>2. new.open = {<<c[1], to>>} /\ c[1] \in Int /\ c[1] <= at - B BY <3>2, <4>1
      <4>3. <<c[1], to>>[1] = c[1] /\ <<c[1], to>>[2] = to /\ <<c[1], to>> \in Spans BY <4>2, <2>0, SpanParts
      <4> QED BY <4>1, <4>2, <4>3
    <3> QED BY <3>1, <3>3
  <2> HIDE DEF to
  <2>2. Proper(new.done) /\ Proper(new.open)
    <3>1. b[1] < b[2] BY <2>1, <1>i, <1>1, <2>0 DEF to
    <3> QED BY <3>1, <2>0, <2>1, <1>2 DEF Proper
  <2>3. \A d \in new.open : \E x \in minutes : d[1] <= x - B /\ d[2] <= x + Minute
    BY <2>1, <1>1, <2>0 DEF to
  <2>4. \A x \in minutes : Blocked(v, zone, x) => \E d \in new.done \cup new.open : Buffered(d, v, x)
    <3> SUFFICES ASSUME NEW x \in minutes, Blocked(v, zone, x) PROVE \E d \in new.done \cup new.open : Buffered(d, v, x)
      OBVIOUS
    <3>1. CASE x = at
      <4>1. Buffered(b, v, x) BY <3>1, <2>1, <2>0 DEF Buffered, B, to
      <4> QED BY <4>1, <2>1
    <3>2. CASE x \in before
      <4>1. PICK d \in acc.done \cup acc.open : Buffered(d, v, x) BY <3>2, <1>2
      <4>2. CASE d \in acc.done BY <4>1, <4>2, <2>0
      <4>3. CASE d \in acc.open
        <5>1. b[1] = d[1] BY <4>3, <2>1
        <5>2. x + Minute <= b[2] BY <2>1, <3>2, <1>i, <1>1, <2>0 DEF to
        <5>3. Buffered(b, v, x) BY <4>1, <5>1, <5>2 DEF Buffered
        <5> QED BY <5>3, <2>1
      <4> QED BY <4>1, <4>2, <4>3
    <3> QED BY <3>1, <3>2, <1>i
  <2>5. \A d \in new.open : minutes # {} /\ d[2] = Max(minutes) + Minute BY <2>1 DEF to, at
  <2>6. Tight(b, v, zone)
    <3>1. Whole(B) /\ Whole(Minute) /\ Whole(to) /\ Whole(at - B)
      <4>1. Minute = Minutes(1) /\ 1 \in Int BY MinutesAre
      <4>3. v.buffer \in Int BY NatMinutes
      <4>2. Whole(B) /\ Whole(Minute) BY <4>1, <4>3, WholeSums DEF B
      <4> QED BY <4>2, <1>1, WholeSums DEF to
    <3>2. CASE acc.open = {}
      <4>1. b[1] = at - B
        <5>1. new.open = {<<at - B, to>>} BY <2>0, <3>2, <1>o, OpenFacts
        <5> QED BY <5>1, <2>1
      <4>2. b[1] + B < b[2] /\ b[1] + B = at BY <4>1, <2>0, <2>1, <1>1, <1>i DEF to
      <4>3. ASSUME NEW x, Whole(x), b[1] + B <= x, x < b[2] PROVE Blocked(v, zone, x)
        <5>1. x \in Int BY <4>3, WholeSums
        <5>2. ~(at < x)
          <6> SUFFICES ASSUME at < x PROVE FALSE
            OBVIOUS
          <6>1. at + Minute <= x BY <4>3, <1>1, WholeSums
          <6> QED BY <6>1, <4>3, <5>1, <2>1, <1>1, <1>i DEF to
        <5>3. x = at BY <4>2, <4>3, <5>1, <5>2, <1>1
        <5> QED BY <5>3, <1>5
      <4> QED BY <3>1, <4>1, <4>2, <4>3, <2>1 DEF Tight, B
    <3>3. CASE acc.open # {}
      <4>1. PICK c \in acc.open : b[1] = c[1] BY <3>3, <2>1
      <4>2. Tight(c, v, zone) /\ c[2] = at /\ c[1] \in Int
        <5>1. before # {} /\ c[2] = Max(before) + Minute BY <4>1, <1>2
        <5> QED BY <5>1, <4>1, <1>1, <1>2, <1>i, <1>o
      <4>3. b[1] + B < b[2] BY <4>1, <4>2, <2>1, <1>1, <1>i DEF Tight, B, to
      <4>4. ASSUME NEW x, Whole(x), b[1] + B <= x, x < b[2] PROVE Blocked(v, zone, x)
        <5>1. x \in Int BY <4>4, WholeSums
        <5>2. ~(at < x)
          <6> SUFFICES ASSUME at < x PROVE FALSE
            OBVIOUS
          <6>1. at + Minute <= x BY <4>4, <1>1, WholeSums
          <6> QED BY <6>1, <4>4, <5>1, <2>1, <1>1, <1>i DEF to
        <5>3. CASE x = at BY <5>3, <1>5
        <5>4. CASE x < at
          <6>1. c[1] + Minutes(v.buffer) <= x /\ x < c[2] BY <4>1, <4>2, <4>4, <5>4 DEF B
          <6> QED BY <6>1, <4>2, <4>4 DEF Tight
        <5> QED BY <5>1, <5>2, <5>3, <5>4, <1>1
      <4>5. Whole(b[1]) /\ Whole(b[2]) BY <4>1, <4>2, <3>1, <2>1 DEF Tight
      <4> QED BY <4>3, <4>4, <4>5 DEF Tight, B
    <3> QED BY <3>2, <3>3
  <2>7. \A d \in new.done \cup new.open : Tight(d, v, zone) BY <2>0, <2>1, <2>6, <1>2
  <2>8. Blocking(new, v, zone, minutes) BY <1>3, <2>2, <2>3, <2>4, <2>5, <2>7 DEF Blocking, B
  <2> QED BY <2>8 DEF new, at
<1> QED BY <1>4, <1>5

\* The walk of blockedIntervals as the community modules define it,
BlockFold(F, base, v, zone, S) == F = [s \in SUBSET S |-> IF s = {} THEN base ELSE BlockStep(v, zone, F[s \ {Max(s)}], Max(s))]

\* what MapThenFoldSet computes,
LEMMA BlockUnfolds ==
  ASSUME NEW S, NEW v, NEW zone, NEW base, NEW F, BlockFold(F, base, v, zone, S)
  PROVE \E G : BlockWalk(v, zone, base, S) = G[S] /\ BlockFold(G, base, v, zone, S)
BY DEF BlockFold, BlockWalk, OverMinutes, MapThenFoldSet

\* its values, minute after minute,
BlockRun(F, base, v, zone, S) == F[{}] = base /\ \A s \in SUBSET S : s # {} => F[s] = BlockStep(v, zone, F[s \ {Max(s)}], Max(s))

\* and that it takes them so.
LEMMA BlockIsFold ==
  ASSUME Sized, NEW v, v.buffer \in Nat, NEW zone, NEW S \in SUBSET Int, IsFiniteSet(S), NEW base \in BlockWalks
  PROVE \E F : BlockWalk(v, zone, base, S) = F[S] /\ BlockRun(F, base, v, zone, S)
<1> DEFINE g == [p \in BlockWalks \X S |-> BlockStep(v, zone, p[1], p[2])]
           c == [t \in SUBSET S |-> Max(t)]
<1>1. Takes(g, BlockWalks, S)
  <2> SUFFICES ASSUME NEW a \in BlockWalks, NEW x \in S PROVE g[<<a, x>>] \in BlockWalks
    BY DEF Takes
  <2>1. g[<<a, x>>] = BlockStep(v, zone, a, x) OBVIOUS
  <2>2. BlockStep(v, zone, a, x) \in BlockWalks BY BlockStepType
  <2> QED BY <2>1, <2>2
<1>2. PICK F : Folds(F, S, BlockWalks, base, c, g)
  <2> HIDE DEF g
  <2> QED BY <1>1, MinuteFold
<1>3. \A s \in SUBSET S : s # {} => F[s] = BlockStep(v, zone, F[s \ {Max(s)}], Max(s))
  <2> SUFFICES ASSUME NEW s \in SUBSET S, s # {} PROVE F[s] = BlockStep(v, zone, F[s \ {Max(s)}], Max(s))
    OBVIOUS
  <2>1. Max(s) \in S BY MaxIs, FS_Subset
  <2>2. F[s \ {Max(s)}] \in BlockWalks BY <1>2 DEF Folds
  <2> QED BY <1>2, <2>1, <2>2 DEF Folds
<1> HIDE DEF g, c
<1>4. F = [s \in SUBSET S |-> IF s = {} THEN base ELSE BlockStep(v, zone, F[s \ {Max(s)}], Max(s))]
  BY <1>2, <1>3 DEF Folds
<1>5. BlockFold(F, base, v, zone, S) BY <1>4 DEF BlockFold
<1>6. PICK G : BlockWalk(v, zone, base, S) = G[S] /\ BlockFold(G, base, v, zone, S) BY <1>5, BlockUnfolds
<1>7. G = [s \in SUBSET S |-> IF s = {} THEN base ELSE BlockStep(v, zone, G[s \ {Max(s)}], Max(s))] BY <1>6 DEF BlockFold
<1>8. G[{}] = base /\ \A s \in SUBSET S : s # {} => G[s] = BlockStep(v, zone, G[s \ {Max(s)}], Max(s)) BY <1>7
<1> QED BY <1>6, <1>8 DEF BlockRun

\* blockedIntervals are right: every blocked minute is in one of them with the buffer before it, and every other minute of
\* one is blocked.
LEMMA BlockedIntervalsBlock ==
  ASSUME Sized, NEW v, v.buffer \in Nat, NEW zone, NEW from \in Int, NEW to \in Int
  PROVE /\ BlockedIntervals(v, zone, from, to) \in SpanSets
        /\ Proper(BlockedIntervals(v, zone, from, to))
        /\ \A b \in BlockedIntervals(v, zone, from, to) : Tight(b, v, zone)
        /\ \A at \in Grid(from - (from % Minute), to) :
             Blocked(v, zone, at) => \E b \in BlockedIntervals(v, zone, from, to) : Buffered(b, v, at)
<1> DEFINE S == Grid(from - (from % Minute), to)
           base == [done |-> {}, open |-> {}]
           end == BlockWalk(v, zone, base, S)
<1>1. from - (from % Minute) \in Int BY WholeIs DEF Sized
<1>2. S \in SUBSET Int /\ IsFiniteSet(S) BY <1>1, GridIs
<1>w. \A x \in S : Whole(x)
  <2> SUFFICES ASSUME NEW x \in S PROVE Whole(x)
    OBVIOUS
  <2> DEFINE f == from - (from % Minute)
  <2>1. Whole(x - f) /\ Whole(f) /\ f \in Int /\ x \in Int BY <1>1, <1>2, GridIs, WholeIs
  <2> HIDE DEF f
  <2>2. Whole((x - f) + f) /\ (x - f) + f = x BY <2>1, WholeSums
  <2> QED BY <2>2
<1>u. Gapless(S)
  <2> SUFFICES ASSUME NEW a \in S, NEW b \in S, NEW x, Whole(x), a <= x, x <= b PROVE x \in S
    BY DEF Gapless
  <2> DEFINE f == from - (from % Minute)
  <2>1. Whole(f) /\ f \in Int /\ x \in Int BY <1>1, WholeIs, WholeSums
  <2>2. f <= a /\ b < to /\ a \in Int /\ b \in Int BY <1>1, <1>2, GridIs
  <2>3. f <= x /\ x < to BY <2>1, <2>2
  <2>4. Whole(x - f) BY <2>1, WholeSums
  <2> QED BY <2>1, <2>3, <2>4, GridIs
<1>3. base \in BlockWalks /\ base.done = {} /\ base.open = {} BY SpanSetFacts DEF BlockWalks, Open
<1>4. BlockedIntervals(v, zone, from, to) = end.done \cup end.open BY DEF BlockedIntervals
<1> HIDE DEF S, base
<1> HIDE DEF end
<1>e. end = BlockWalk(v, zone, base, S) BY DEF end
<1>5. PICK F : BlockWalk(v, zone, base, S) = F[S] /\ BlockRun(F, base, v, zone, S)
  BY <1>2, <1>3, BlockIsFold
<1>f. F[{}] = base /\ \A s \in SUBSET S : s # {} => F[s] = BlockStep(v, zone, F[s \ {Max(s)}], Max(s)) BY <1>5 DEF BlockRun
<1> DEFINE U == {s \in SUBSET S : Prefix(s, S) => Blocking(F[s], v, zone, s)}
<1>6. {} \in U
  <2>1. Blocking(base, v, zone, {}) BY <1>3 DEF Blocking, Proper
  <2> QED BY <2>1, <1>f
<1>7. \A s \in SUBSET S : s # {} /\ s \ {Max(s)} \in U => s \in U
  <2> SUFFICES ASSUME NEW s \in SUBSET S, s # {}, s \ {Max(s)} \in U PROVE s \in U
    OBVIOUS
  <2> SUFFICES ASSUME Prefix(s, S) PROVE Blocking(F[s], v, zone, s)
    OBVIOUS
  <2>1. Prefix(s \ {Max(s)}, S) BY <1>2, <1>w, <1>u, LastMinute
  <2>2. Blocking(F[s \ {Max(s)}], v, zone, s \ {Max(s)}) BY <2>1
  <2>3. Blocking(BlockStep(v, zone, F[s \ {Max(s)}], Max(s)), v, zone, s) BY <1>2, <1>w, <1>u, <2>2, BlockStepBlocks
  <2>4. F[s] = BlockStep(v, zone, F[s \ {Max(s)}], Max(s)) BY <1>f
  <2> QED BY <2>3, <2>4
<1>8. U = SUBSET S
  <2> HIDE DEF U
  <2>1. U \subseteq SUBSET S BY DEF U
  <2> QED BY <2>1, <1>2, <1>6, <1>7, MinutesFromBelow
<1>9. Blocking(end, v, zone, S)
  <2>1. S \in U /\ Prefix(S, S) BY <1>8 DEF Prefix
  <2> QED BY <2>1, <1>5, <1>e
<1>10. end.done \in SpanSets /\ end.open \in SpanSets /\ end.open \in Open BY <1>9, OpenFacts DEF Blocking, BlockWalks
<1>11. end.done \cup end.open \in SpanSets BY <1>10, SpanSetFacts DEF Open
<1>12. Proper(end.done \cup end.open) BY <1>9 DEF Blocking, Proper
<1> QED BY <1>4, <1>9, <1>11, <1>12 DEF Blocking, S

-----------------------------------------------------------------------------
(* The clock of a zone                                                     *)

\* The scale of the clock.
Scaled == Sized /\ DayMinutes \in Nat \ {0} /\ Reach \in Nat

\* Quotient and remainder of a number that is written with both.
LEMMA DivIs ==
  ASSUME NEW d \in Nat \ {0}, NEW q \in Int, NEW r \in 0..(d - 1)
  PROVE (q * d + r) \div d = q /\ (q * d + r) % d = r
<1> DEFINE x == q * d + r
           p == x \div d
           s == x % d
<1>1. p \in Int /\ s \in 0..(d - 1) /\ x = p * d + s OBVIOUS
<1> HIDE DEF x, p, s
<1>2. x = q * d + r BY DEF x
<1>3. (p - q) * d = r - s
  <2>1. p * d \in Int /\ q * d \in Int BY <1>1
  <2>2. p * d - q * d = r - s BY <1>1, <1>2, <2>1
  <2>3. (p - q) * d = p * d - q * d BY <1>1
  <2> QED BY <2>2, <2>3
<1>4. p = q
  <2>1. CASE p - q >= 1
    <3>1. (p - q) * d >= d BY <1>1, <2>1
    <3> QED BY <3>1, <1>1, <1>3
  <2>2. CASE p - q <= -1
    <3>1. (p - q) * d <= -d BY <1>1, <2>2
    <3> QED BY <3>1, <1>1, <1>3
  <2> QED BY <2>1, <2>2, <1>1
<1>5. s = r BY <1>1, <1>2, <1>4
<1> QED BY <1>4, <1>5 DEF x, p, s

\* A zone's offsets are whole minutes,
LEMMA ZoneIs ==
  ASSUME Sized, NEW zone, RealZone(zone)
  PROVE zone.change \in Int /\ Whole(zone.before) /\ Whole(zone.after)
BY WholeIs DEF RealZone

\* and so are the offset of a zone and the time of its wall clock, in whole minutes,
LEMMA OffsetIs ==
  ASSUME Sized, NEW zone, RealZone(zone), NEW at \in Int
  PROVE /\ Offset(zone, at) \in Int /\ Whole(Offset(zone, at))
        /\ Offset(zone, at) = IF at < zone.change THEN zone.before ELSE zone.after
        /\ Wall(zone, at) \in Int /\ Wall(zone, at) = at + Offset(zone, at)
        /\ Whole(at) => Whole(Wall(zone, at))
<1>1. Whole(zone.before) /\ Whole(zone.after) /\ zone.before \in Int /\ zone.after \in Int
  BY ZoneIs, WholeSums DEF RealZone
<1>2. Offset(zone, at) = IF at < zone.change THEN zone.before ELSE zone.after BY DEF Offset
<1>3. Offset(zone, at) \in Int /\ Whole(Offset(zone, at)) BY <1>1, <1>2
<1>4. Wall(zone, at) = at + Offset(zone, at) BY DEF Wall
<1>5. Whole(at) => Whole(at + Offset(zone, at)) BY <1>3, WholeSums
<1> QED BY <1>2, <1>3, <1>4, <1>5

\* which jumps by Reach at most.
LEMMA OffsetsDiffer ==
  ASSUME Sized, Reach \in Nat, NEW zone, RealZone(zone), NEW a \in Int, NEW b \in Int
  PROVE /\ Offset(zone, a) - Offset(zone, b) <= Minutes(Reach)
        /\ \E k \in -Reach..Reach : Offset(zone, a) - Offset(zone, b) = Minutes(k)
<1>1. Whole(Offset(zone, a)) /\ Whole(Offset(zone, b)) /\ Offset(zone, a) \in Int /\ Offset(zone, b) \in Int BY OffsetIs
<1>2. PICK k \in Int : Offset(zone, a) - Offset(zone, b) = Minutes(k)
  <2>1. Whole(Offset(zone, a) - Offset(zone, b)) BY <1>1, WholeSums
  <2> QED BY <2>1 DEF Whole
<1>m. Reach \in Int /\ Minutes(Reach) \in Int /\ 0 <= Minutes(Reach) /\ -Reach \in Int /\ Minutes(-Reach) = -Minutes(Reach)
  <2>1. Reach \in Int /\ Minutes(Reach) \in Int /\ 0 <= Minutes(Reach) BY NatMinutes
  <2>2. Minutes(0 - Reach) = Minutes(0) - Minutes(Reach) /\ Minutes(0) = 0 BY <2>1, MinutesAre
  <2>3. 0 - Reach = -Reach BY <2>1
  <2> QED BY <2>1, <2>2, <2>3
<1>3. zone.before \in Int /\ zone.after \in Int /\ zone.before - zone.after <= Minutes(Reach) /\ zone.after - zone.before <= Minutes(Reach)
  BY ZoneIs, WholeSums DEF RealZone
<1>4. /\ Offset(zone, a) = zone.before \/ Offset(zone, a) = zone.after
      /\ Offset(zone, b) = zone.before \/ Offset(zone, b) = zone.after
  BY OffsetIs
<1>5. /\ Offset(zone, a) - Offset(zone, b) <= Minutes(Reach)
      /\ Offset(zone, b) - Offset(zone, a) <= Minutes(Reach)
  BY <1>3, <1>4, <1>m
<1>6. Minutes(-Reach) <= Minutes(k) /\ Minutes(k) <= Minutes(Reach) BY <1>1, <1>2, <1>5, <1>m
<1>7. -Reach <= k /\ k <= Reach BY <1>6, <1>m, MinutesAre
<1>8. k \in -Reach..Reach BY <1>7, <1>m
<1> QED BY <1>2, <1>5, <1>8

\* The wall clock shows a date and a minute of it, which make up the time.
LEMMA ClockIs ==
  ASSUME Scaled, NEW zone, RealZone(zone), NEW at, Whole(at)
  PROVE /\ DateOf(zone, at) \in Int /\ MinuteOf(zone, at) \in 0..(DayMinutes - 1)
        /\ Wall(zone, at) = Minutes(DateOf(zone, at) * DayMinutes + MinuteOf(zone, at))
<1> DEFINE d == DayMinutes
           D == Minutes(DayMinutes)
<1>0. Sized /\ d \in Nat \ {0} /\ at \in Int /\ Minute \in Nat \ {0} BY WholeSums DEF Scaled, Sized
<1>1. PICK w \in Int : Wall(zone, at) = Minutes(w) BY <1>0, OffsetIs DEF Whole
<1> DEFINE q == w \div d
           r == w % d
<1>2. q \in Int /\ r \in 0..(d - 1) /\ w = q * d + r BY <1>0
<1>3. D = d * Minute /\ D \in Nat \ {0} BY <1>0 DEF Minutes
<1>4. Minutes(w) = q * D + r * Minute /\ Minutes(w) = w * Minute
  <2>1. Minutes(w) = w * Minute BY DEF Minutes
  <2>2. (q * d + r) * Minute = q * (d * Minute) + r * Minute BY <1>0, <1>2
  <2> QED BY <2>1, <2>2, <1>2, <1>3
<1>5. r * Minute \in 0..(D - 1)
  <2>1. r * Minute \in Int /\ 0 <= r * Minute BY <1>0, <1>2
  <2>2. r + 1 <= d BY <1>0, <1>2
  <2>3. (r + 1) * Minute <= d * Minute
    <3>1. Minutes(r + 1) <= Minutes(d) BY <2>2, <1>0, <1>2, MinutesAre
    <3> QED BY <3>1 DEF Minutes
  <2>4. (r + 1) * Minute = r * Minute + Minute BY <1>0, <1>2
  <2> QED BY <2>1, <2>3, <2>4, <1>0, <1>3
<1> HIDE DEF q, r, d, D
<1>6. Minutes(w) \div D = q /\ Minutes(w) % D = r * Minute BY <1>2, <1>3, <1>4, <1>5, DivIs
<1>7. DateOf(zone, at) = q BY <1>1, <1>6 DEF DateOf, D
<1>8. MinuteOf(zone, at) = r
  <2>1. MinuteOf(zone, at) = (r * Minute) \div Minute BY <1>1, <1>6 DEF MinuteOf, D
  <2>2. 0 \in 0..(Minute - 1) /\ r \in Int /\ r * Minute + 0 = r * Minute BY <1>0, <1>2
  <2>3. (r * Minute + 0) \div Minute = r BY <1>0, <2>2, DivIs
  <2> QED BY <2>1, <2>2, <2>3
<1> QED BY <1>1, <1>2, <1>7, <1>8 DEF d

\* Instants of the same wall time are of the same date and minute; on a date, wall times differ as their minutes do.
LEMMA SameClock ==
  ASSUME Scaled, NEW zone, RealZone(zone), NEW a, NEW b, Whole(a), Whole(b)
  PROVE /\ Wall(zone, a) = Wall(zone, b) => DateOf(zone, a) = DateOf(zone, b) /\ MinuteOf(zone, a) = MinuteOf(zone, b)
        /\ DateOf(zone, a) = DateOf(zone, b) =>
             Wall(zone, b) - Wall(zone, a) = Minutes(MinuteOf(zone, b) - MinuteOf(zone, a))
<1>1. Wall(zone, a) = Wall(zone, b) => DateOf(zone, a) = DateOf(zone, b) /\ MinuteOf(zone, a) = MinuteOf(zone, b)
  BY DEF DateOf, MinuteOf
<1>2. ASSUME DateOf(zone, a) = DateOf(zone, b) 
      PROVE Wall(zone, b) - Wall(zone, a) = Minutes(MinuteOf(zone, b) - MinuteOf(zone, a))
  <2> DEFINE q == DateOf(zone, a) * DayMinutes
             m == MinuteOf(zone, a)
             n == MinuteOf(zone, b)
  <2>1. q \in Int /\ m \in Int /\ n \in Int
    <3>1. DateOf(zone, a) \in Int /\ m \in 0..(DayMinutes - 1) /\ n \in 0..(DayMinutes - 1) BY ClockIs
    <3> QED BY <3>1 DEF Scaled
  <2>2. Wall(zone, a) = Minutes(q + m) /\ Wall(zone, b) = Minutes(q + n) BY <1>2, ClockIs
  <2> HIDE DEF q, m, n
  <2>3. Sized /\ q + m \in Int /\ q + n \in Int /\ (q + n) - (q + m) = n - m BY <2>1 DEF Scaled
  <2>4. Minutes((q + n) - (q + m)) = Minutes(q + n) - Minutes(q + m) BY <2>3, MinutesAre
  <2> QED BY <2>2, <2>3, <2>4 DEF m, n
<1> QED BY <1>1, <1>2

\* time.Date gives the instant of a wall time by an offset of the zone.
LEMMA DayIs ==
  ASSUME Scaled, NEW zone, RealZone(zone), NEW date \in Int, NEW minute \in Int
  PROVE /\ InZone(zone, date, minute) \in Int /\ Whole(InZone(zone, date, minute))
        /\ \E g \in Int : InZone(zone, date, minute) = Minutes(date * DayMinutes + minute) - Offset(zone, g)
<1> DEFINE wall == Minutes(date * DayMinutes + minute)
           guess == wall - Offset(zone, wall)
<1>1. Sized /\ date * DayMinutes + minute \in Int BY DEF Scaled
<1>2. wall \in Int /\ Whole(wall) BY <1>1, MinutesAre, WholeSums
<1> HIDE DEF wall
<1>3. guess \in Int BY <1>1, <1>2, OffsetIs
<1> HIDE DEF guess
<1>4. InZone(zone, date, minute) = wall - Offset(zone, guess) BY DEF InZone, FromWall, wall, guess
<1>5. Whole(Offset(zone, guess)) /\ Offset(zone, guess) \in Int BY <1>1, <1>3, OffsetIs
<1>6. Whole(wall - Offset(zone, guess)) /\ wall - Offset(zone, guess) \in Int BY <1>1, <1>2, <1>5, WholeSums
<1> QED BY <1>3, <1>4, <1>6 DEF wall

\* The walk over a date visits every minute of which the clock shows that date, although it looks from Reach before the
\* day to as long after it.
LEMMA WalkIs ==
  ASSUME Scaled, NEW zone, RealZone(zone), NEW date \in Int
  PROVE /\ DayWalk(zone, date) \subseteq Int /\ IsFiniteSet(DayWalk(zone, date))
        /\ \A at \in DayWalk(zone, date) : Whole(at) /\ DateOf(zone, at) = date
        /\ \A a, b \in DayWalk(zone, date) : \A at : Whole(at) /\ a <= at /\ at <= b /\ DateOf(zone, at) = date => at \in DayWalk(zone, date)
        /\ \A at : Whole(at) /\ DateOf(zone, at) = date => at \in DayWalk(zone, date)
<1> DEFINE day == InZone(zone, date, 0)
           from == day - Minutes(Reach)
           n == DayMinutes + 2 * Reach
           to == day + Minutes(n)
           walk == DayWalk(zone, date)
<1>0. Sized /\ Reach \in Nat /\ Reach \in Int /\ DayMinutes \in Int /\ n \in Int BY DEF Scaled
<1>1. day \in Int /\ Whole(day) BY DayIs
<1>2. PICK g \in Int : day = Minutes(date * DayMinutes) - Offset(zone, g)
  <2>1. date * DayMinutes + 0 = date * DayMinutes BY <1>0
  <2> QED BY <2>1, DayIs
<1>3. from \in Int /\ to \in Int /\ Whole(from) /\ Minutes(Reach) \in Int /\ Minutes(n) \in Int
  <2>1. Minutes(Reach) \in Int /\ Whole(Minutes(Reach)) /\ Minutes(n) \in Int BY <1>0, MinutesAre, WholeSums
  <2> QED BY <2>1, <1>0, <1>1, WholeSums
<1>4. walk = {at \in Grid(from, to) : DateOf(zone, at) = date} BY DEF DayWalk
<1> HIDE DEF day, from, to, walk, n
<1>5. /\ Grid(from, to) \subseteq Int /\ IsFiniteSet(Grid(from, to))
      /\ \A at \in Grid(from, to) : from <= at /\ at < to /\ Whole(at - from)
      /\ \A at \in Int : from <= at /\ at < to /\ Whole(at - from) => at \in Grid(from, to)
  BY <1>0, <1>3, GridIs
<1>6. walk \subseteq Int /\ IsFiniteSet(walk) BY <1>4, <1>5, FS_Subset
<1>7. \A at \in walk : Whole(at) /\ DateOf(zone, at) = date
  <2> SUFFICES ASSUME NEW at \in walk PROVE Whole(at) /\ DateOf(zone, at) = date
    OBVIOUS
  <2>1. Whole(at - from) /\ at \in Int BY <1>4, <1>5
  <2>2. Whole((at - from) + from) BY <2>1, <1>0, <1>3, WholeSums
  <2>3. (at - from) + from = at BY <2>1, <1>3
  <2> QED BY <2>2, <2>3, <1>4
<1>8. \A at : Whole(at) /\ DateOf(zone, at) = date => at \in walk
  <2> SUFFICES ASSUME NEW at, Whole(at), DateOf(zone, at) = date PROVE at \in walk
    OBVIOUS
  <2>1. at \in Int /\ Whole(at - from) BY <1>0, <1>3, WholeSums
  <2> DEFINE q == date * DayMinutes
             m == MinuteOf(zone, at)
  <2>2. q \in Int /\ m \in 0..(DayMinutes - 1) /\ Wall(zone, at) = Minutes(q + m) BY <1>0, ClockIs
  <2>3. Wall(zone, at) = at + Offset(zone, at) /\ Offset(zone, at) \in Int /\ Offset(zone, g) \in Int BY <2>1, <1>0, OffsetIs
  <2>4. /\ Offset(zone, at) - Offset(zone, g) <= Minutes(Reach)
        /\ Offset(zone, g) - Offset(zone, at) <= Minutes(Reach) BY <2>1, <1>0, OffsetsDiffer
  <2> HIDE DEF q, m
  <2>m. m \in Int /\ 0 <= m /\ m < DayMinutes BY <2>2, <1>0
  <2>5. Minutes(q + m) = Minutes(q) + Minutes(m) /\ 0 <= Minutes(m) /\ Minutes(m) < Minutes(DayMinutes)
        /\ Minutes(q) \in Int /\ Minutes(m) \in Int /\ Minutes(DayMinutes) \in Int
    <3>1. Minutes(0) <= Minutes(m) /\ Minutes(0) = 0 /\ 0 \in Int BY <2>m, <1>0, MinutesAre
    <3>2. Minutes(m) < Minutes(DayMinutes) BY <2>m, <1>0, MinutesAre
    <3>3. Minutes(q + m) = Minutes(q) + Minutes(m) BY <2>2, <2>m, <1>0, MinutesAre
    <3>4. Minutes(q) \in Int /\ Minutes(m) \in Int /\ Minutes(DayMinutes) \in Int BY <2>2, <2>m, <1>0, MinutesAre
    <3> QED BY <3>1, <3>2, <3>3, <3>4
  <2>6. day = Minutes(q) - Offset(zone, g) BY <1>2 DEF q
  <2>7. Minutes(DayMinutes) + Minutes(Reach) <= Minutes(n)
    <3>1. DayMinutes + Reach \in Int /\ DayMinutes + Reach <= n BY <1>0 DEF n
    <3>2. Minutes(DayMinutes + Reach) <= Minutes(n) BY <3>1, <1>0, MinutesAre
    <3> QED BY <3>2, <1>0, MinutesAre
  <2>8. from <= at /\ at < to
    <3>1. at = Minutes(q) + Minutes(m) - Offset(zone, at) BY <2>1, <2>2, <2>3, <2>5
    <3>2. from = day - Minutes(Reach) /\ to = day + Minutes(n) BY DEF from, to
    <3> QED BY <3>1, <3>2, <2>1, <2>3, <2>4, <2>5, <2>6, <2>7, <1>1, <1>3
  <2> QED BY <2>1, <2>8, <1>4, <1>5
<1> QED BY <1>6, <1>7, <1>8 DEF walk

\* On that walk, minutes that follow one another on the clock and in the walk follow one another.
LEMMA AdjacentMinutes ==
  ASSUME Scaled, NEW zone, RealZone(zone), NEW date \in Int,
         NEW a \in DayWalk(zone, date), NEW b \in DayWalk(zone, date), a < b,
         \A x \in DayWalk(zone, date) : x <= a \/ b <= x,
         MinuteOf(zone, b) = MinuteOf(zone, a) + 1
  PROVE b = a + Minute
<1> DEFINE walk == DayWalk(zone, date)
           y == a + Minute
           z == b - Minute
<1>0. Sized /\ Minute \in Int /\ 0 < Minute /\ zone.change \in Int BY MinuteIs DEF Scaled, RealZone
<1>1. /\ a \in Int /\ b \in Int /\ Whole(a) /\ Whole(b) /\ DateOf(zone, a) = date /\ DateOf(zone, b) = date
      /\ \A at : Whole(at) /\ DateOf(zone, at) = date => at \in walk
  BY WalkIs
<1>2. Wall(zone, b) - Wall(zone, a) = Minute
  <2>1. MinuteOf(zone, b) - MinuteOf(zone, a) = 1
    <3>1. MinuteOf(zone, a) \in 0..(DayMinutes - 1) BY <1>1, ClockIs
    <3> QED BY <3>1 DEF Scaled
  <2>2. Wall(zone, b) - Wall(zone, a) = Minutes(1) BY <2>1, <1>1, SameClock
  <2> QED BY <2>2, <1>0, MinutesAre
<1>3. Whole(y) /\ Whole(z) /\ y \in Int /\ z \in Int /\ Whole(Minute)
  <2>1. Minute = Minutes(1) /\ 1 \in Int BY <1>0, MinutesAre
  <2>2. Whole(Minute) BY <2>1, <1>0, WholeSums
  <2> QED BY <2>2, <1>0, <1>1, WholeSums
<1>4. y <= b BY <1>0, <1>1, WholeSums
<1> SUFFICES ASSUME y # b PROVE FALSE
  OBVIOUS
<1> HIDE DEF y, z
<1>5. y < b /\ y + Minute <= b
  <2>1. y < b BY <1>1, <1>3, <1>4
  <2> QED BY <2>1, <1>0, <1>1, <1>3, WholeSums
<1>yz. y = a + Minute /\ z = b - Minute BY DEF y, z
<1>6. a < y /\ a < z /\ z < b /\ y <= z BY <1>0, <1>1, <1>3, <1>5, <1>yz
<1>w. /\ Wall(zone, a) = a + Offset(zone, a) /\ Wall(zone, b) = b + Offset(zone, b)
      /\ Wall(zone, y) = y + Offset(zone, y) /\ Wall(zone, z) = z + Offset(zone, z)
      /\ Offset(zone, a) \in Int /\ Offset(zone, b) \in Int /\ Offset(zone, y) \in Int /\ Offset(zone, z) \in Int
      /\ Offset(zone, a) = (IF a < zone.change THEN zone.before ELSE zone.after)
      /\ Offset(zone, b) = (IF b < zone.change THEN zone.before ELSE zone.after)
      /\ Offset(zone, y) = (IF y < zone.change THEN zone.before ELSE zone.after)
      /\ Offset(zone, z) = (IF z < zone.change THEN zone.before ELSE zone.after)
  BY <1>0, <1>1, <1>3, OffsetIs
<1>7. a < zone.change /\ ~(b < zone.change)
  <2>1. Offset(zone, a) # Offset(zone, b) BY <1>0, <1>1, <1>2, <1>5, <1>w, <1>yz
  <2> QED BY <2>1, <1>0, <1>1, <1>w
<1>8. CASE y < zone.change
  <2>1. Wall(zone, y) = Wall(zone, b) BY <1>0, <1>1, <1>2, <1>7, <1>8, <1>w, <1>yz
  <2>2. DateOf(zone, y) = date BY <2>1, <1>1, <1>3, SameClock
  <2>3. y \in walk BY <2>2, <1>1, <1>3
  <2> QED BY <2>3, <1>1, <1>3, <1>5, <1>6
<1>9. CASE ~(y < zone.change)
  <2>1. Wall(zone, z) = Wall(zone, a) BY <1>0, <1>1, <1>2, <1>3, <1>6, <1>7, <1>9, <1>w, <1>yz
  <2>2. DateOf(zone, z) = date BY <2>1, <1>1, <1>3, SameClock
  <2>3. z \in walk BY <2>2, <1>1, <1>3
  <2> QED BY <2>3, <1>1, <1>3, <1>6
<1> QED BY <1>8, <1>9

-----------------------------------------------------------------------------
(* workingWindows: one period                                              *)

\* A minute that is in a period and that no clock shows twice (362-369).
Valid(zone, walk, period, at) ==
  Once(zone, walk, at) /\ period[1] <= MinuteOf(zone, at) /\ MinuteOf(zone, at) < period[2]
\* An interval of such minutes, on a clock that keeps its offset.
Worked(b, zone, walk, period) ==
  /\ b[1] < b[2] /\ Whole(b[1]) /\ Whole(b[2])
  /\ \A at : Whole(at) /\ b[1] <= at /\ at < b[2] =>
       at \in walk /\ Valid(zone, walk, period, at) /\ Offset(zone, at) = Offset(zone, b[1])
\* An interval that holds a minute,
Holds(b, at) == b[1] <= at /\ at + Minute <= b[2]
\* and minutes that go on with an interval.
FollowsOn(zone, walk, period, at) ==
  /\ Valid(zone, walk, period, at) /\ Valid(zone, walk, period, at + Minute)
  /\ MinuteOf(zone, at + Minute) = MinuteOf(zone, at) + 1

\* The walk of workingWindows,
WindowWalks == [done : SpanSets, open : Open, previous : Int]
\* and what holds of it after some of the minutes.
Windowing(acc, zone, walk, period, minutes) ==
  /\ acc \in WindowWalks
  /\ acc.previous = IF minutes = {} THEN -2 ELSE MinuteOf(zone, Max(minutes))
  /\ \A b \in acc.done \cup acc.open : Worked(b, zone, walk, period) /\ \E at \in minutes : b[2] = at + Minute
  /\ \A b \in acc.open : minutes # {} /\ b[2] = Max(minutes) + Minute
  /\ \A b, c \in acc.done \cup acc.open : b = c \/ Off(b, c)
  /\ \A b \in acc.done, c \in acc.open : b[2] <= c[1]
  /\ minutes # {} /\ Valid(zone, walk, period, Max(minutes)) => acc.open # {}
  /\ \A at \in minutes : Valid(zone, walk, period, at) => \E b \in acc.done \cup acc.open : Holds(b, at)
  /\ \A at \in minutes : at + Minute \in minutes /\ FollowsOn(zone, walk, period, at) =>
       \E b \in acc.done \cup acc.open : Holds(b, at) /\ Holds(b, at + Minute)

\* Whether a minute goes on with the interval that is open,
Continues(zone, walk, period, acc, at) == Valid(zone, walk, period, at) /\ MinuteOf(zone, at) = acc.previous + 1
\* and what the walk makes of it.
Stepped(new, acc, goesOn, valid, zone, at) ==
  /\ new \in WindowWalks
  /\ new.previous = MinuteOf(zone, at)
  /\ goesOn => new.done = acc.done /\ new.open = Opens(acc.open, at, at + Minute)
  /\ ~goesOn => new.done = acc.done \cup acc.open
  /\ ~goesOn /\ valid => new.open = {<<at, at + Minute>>}
  /\ ~valid => new.open = {}

\* workingWindows closes and opens its intervals so (366-386).
LEMMA WindowStepType ==
  ASSUME Scaled, NEW zone, RealZone(zone), NEW walk, NEW period, NEW acc \in WindowWalks, NEW at, Whole(at)
  PROVE Stepped(WindowStep(zone, walk, period, acc, at), acc, Continues(zone, walk, period, acc, at), Valid(zone, walk, period, at), zone, at)
<1> DEFINE new == WindowStep(zone, walk, period, acc, at)
           valid == Valid(zone, walk, period, at)
           minute == MinuteOf(zone, at)
           goesOn == valid /\ minute = acc.previous + 1
           to == at + Minute
           done == IF goesOn THEN acc.done ELSE acc.done \cup acc.open
           kept == IF goesOn THEN acc.open ELSE {}
           open == IF valid THEN Opens(kept, at, to) ELSE {}
<1>0. Sized /\ at \in Int /\ to \in Int /\ minute \in Int
  <2>1. Sized /\ at \in Int BY WholeSums DEF Scaled
  <2>2. Minute \in Int BY <2>1, MinuteIs
  <2>3. minute \in 0..(DayMinutes - 1) BY ClockIs
  <2> QED BY <2>1, <2>2, <2>3 DEF Scaled
<1>1. acc.done \in SpanSets /\ acc.open \in Open /\ acc.previous \in Int BY DEF WindowWalks
<1>2. new = [done |-> done, open |-> open, previous |-> minute] BY DEF WindowStep, Valid
<1>3. acc.done \cup acc.open \in SpanSets BY <1>1, SpanSetFacts DEF Open
<1>4. {} \in Open /\ kept \in Open BY <1>1 DEF Open
<1> HIDE DEF valid, minute, to, new
<1>5. Opens(kept, at, to) \in Open BY <1>0, <1>4, OpenFacts
<1>6. done \in SpanSets /\ open \in Open BY <1>1, <1>3, <1>4, <1>5
<1>7. new \in WindowWalks BY <1>0, <1>2, <1>6 DEF WindowWalks
<1>8. Opens({}, at, to) = {<<at, to>>} BY <1>0, <1>4, OpenFacts
<1>9. new.previous = minute /\ new.done = done /\ new.open = open BY <1>2
<1>10. ~goesOn /\ valid => new.open = {<<at, to>>} BY <1>8, <1>9
<1>11. goesOn = Continues(zone, walk, period, acc, at) BY DEF Continues, valid, minute
<1> QED BY <1>7, <1>9, <1>10, <1>11 DEF Stepped, new, valid, minute, to

\* workingWindows takes the next minute.
LEMMA WindowStepWorks ==
  ASSUME Scaled, NEW zone, RealZone(zone), NEW date \in Int, NEW period,
         NEW minutes \in SUBSET DayWalk(zone, date), minutes # {}, Prefix(minutes, DayWalk(zone, date)),
         NEW acc, Windowing(acc, zone, DayWalk(zone, date), period, minutes \ {Max(minutes)})
  PROVE Windowing(WindowStep(zone, DayWalk(zone, date), period, acc, Max(minutes)), zone, DayWalk(zone, date), period, minutes)
<1> DEFINE walk == DayWalk(zone, date)
           at == Max(minutes)
           before == minutes \ {at}
           new == WindowStep(zone, walk, period, acc, at)
           valid == Valid(zone, walk, period, at)
           minute == MinuteOf(zone, at)
           goesOn == valid /\ minute = acc.previous + 1
           to == at + Minute
           fresh == <<at, to>>
<1>0. Sized /\ Minute \in Int /\ 0 < Minute BY MinuteIs DEF Scaled
<1>1. walk \subseteq Int /\ IsFiniteSet(walk) /\ \A x \in walk : Whole(x) BY WalkIs
<1>2. minutes \in SUBSET Int /\ IsFiniteSet(minutes) BY <1>1, FS_Subset
<1>3. at \in minutes /\ at \in walk /\ at \in Int /\ Whole(at) /\ \A x \in minutes : x <= at
  <2>1. at \in minutes /\ \A x \in minutes : x <= at BY <1>2, MaxIs
  <2> QED BY <2>1, <1>1
<1>4. before \subseteq minutes /\ minutes = before \cup {at} /\ \A x \in before : x < at /\ x \in Int /\ x \in walk
  <2>1. before \subseteq minutes /\ minutes = before \cup {at} BY <1>3
  <2>2. ASSUME NEW x \in before PROVE x < at /\ x \in Int /\ x \in walk
    <3>1. x \in minutes /\ x # at OBVIOUS
    <3>2. x <= at /\ x \in Int BY <3>1, <1>2, <1>3
    <3> HIDE DEF at, before
    <3> QED BY <3>1, <3>2, <1>3
  <2> QED BY <2>1, <2>2
<1>5. /\ acc \in WindowWalks
      /\ acc.previous = IF before = {} THEN -2 ELSE MinuteOf(zone, Max(before))
      /\ \A b \in acc.done \cup acc.open : Worked(b, zone, walk, period) /\ \E x \in before : b[2] = x + Minute
      /\ \A b \in acc.open : before # {} /\ b[2] = Max(before) + Minute
      /\ \A b, c \in acc.done \cup acc.open : b = c \/ Off(b, c)
      /\ \A b \in acc.done, c \in acc.open : b[2] <= c[1]
      /\ before # {} /\ Valid(zone, walk, period, Max(before)) => acc.open # {}
      /\ \A x \in before : Valid(zone, walk, period, x) => \E b \in acc.done \cup acc.open : Holds(b, x)
      /\ \A x \in before : x + Minute \in before /\ FollowsOn(zone, walk, period, x) =>
           \E b \in acc.done \cup acc.open : Holds(b, x) /\ Holds(b, x + Minute)
  BY DEF Windowing
<1>6. /\ new \in WindowWalks /\ new.previous = minute
      /\ goesOn => new.done = acc.done /\ new.open = Opens(acc.open, at, to)
      /\ ~goesOn => new.done = acc.done \cup acc.open
      /\ ~goesOn /\ valid => new.open = {fresh}
      /\ ~valid => new.open = {}
  <2>1. Stepped(new, acc, Continues(zone, walk, period, acc, at), valid, zone, at)
    BY <1>3, <1>5, WindowStepType
  <2> QED BY <2>1 DEF Stepped, Continues
<1>7. /\ acc.open \in Open
      /\ \A b \in acc.done \cup acc.open : b \in Spans /\ b[1] \in Int /\ b[2] \in Int /\ b[1] < b[2] /\ b[2] <= at
  <2>1. acc.open \in Open /\ acc.done \in SpanSets /\ acc.open \in SpanSets BY <1>5, OpenFacts DEF WindowWalks
  <2>2. \A b \in acc.done \cup acc.open : b \in Spans /\ b[1] \in Int /\ b[2] \in Int BY <2>1, SpanSetFacts, SpanParts
  <2>3. \A b \in acc.done \cup acc.open : b[1] < b[2] BY <1>5 DEF Worked
  <2>4. ASSUME NEW b \in acc.done \cup acc.open PROVE b[2] <= at
    <3>1. PICK x \in before : b[2] = x + Minute BY <1>5
    <3>2. x < at /\ Whole(x) BY <3>1, <1>1, <1>4
    <3>3. x + Minute <= at BY <3>2, <1>0, <1>3, WholeSums
    <3> QED BY <3>1, <3>3
  <2> QED BY <2>1, <2>2, <2>3, <2>4
<1>8. to \in Int /\ Whole(to) /\ at < to /\ fresh \in Spans /\ fresh[1] = at /\ fresh[2] = to
  <2>1. to \in Int /\ at < to BY <1>0, <1>3
  <2>2. Minute = Minutes(1) /\ 1 \in Int BY <1>0, MinutesAre
  <2>3. Whole(to) BY <2>2, <1>0, <1>3, WholeSums
  <2> QED BY <2>1, <2>3, <1>3, SpanParts
<1>9. \A x : Whole(x) /\ at <= x /\ x < to => x = at
  <2> SUFFICES ASSUME NEW x, Whole(x), at <= x, x < to, x # at PROVE FALSE
    OBVIOUS
  <2>0. x \in Int BY <1>0, WholeSums
  <2> HIDE DEF at, to
  <2>1. x \in Int /\ at < x BY <2>0, <1>3
  <2>2. at + Minute <= x BY <2>1, <1>0, <1>3, WholeSums
  <2> QED BY <2>1, <2>2, <1>8 DEF to
<1>10. valid => Worked(fresh, zone, walk, period)
  BY <1>3, <1>8, <1>9 DEF Worked
<1> HIDE DEF walk, at, before, new, valid, minute, to, fresh
<1>11. new.previous = IF minutes = {} THEN -2 ELSE MinuteOf(zone, Max(minutes)) BY <1>6 DEF minute, at
<1>v. valid = Valid(zone, walk, period, at) BY DEF valid
<1>k. Holds(fresh, at) BY <1>3, <1>8 DEF Holds, to
<1>p. \A x \in minutes : x + Minute \in minutes => x \in before /\ (x + Minute \in before \/ (x + Minute = at /\ x = Max(before)))
  <2> SUFFICES ASSUME NEW x \in minutes, x + Minute \in minutes PROVE x \in before /\ (x + Minute \in before \/ (x + Minute = at /\ x = Max(before)))
    OBVIOUS
  <2>1. x < at
    <3>1. x + Minute <= at /\ x \in Int BY <1>2, <1>3
    <3> QED BY <3>1, <1>0, <1>3
  <2>2. x \in before BY <2>1, <1>3, <1>4
  <2>3. CASE x + Minute = at
    <3>1. before \in SUBSET Int /\ IsFiniteSet(before) BY <1>2, <1>4, FS_Subset
    <3>2. Max(before) \in before /\ x <= Max(before) BY <2>2, <3>1, MaxIs
    <3>3. Max(before) < at /\ Whole(Max(before)) BY <3>2, <1>1, <1>4
    <3>4. Max(before) + Minute <= at BY <3>3, <1>0, <1>3, WholeSums
    <3>5. Max(before) \in Int /\ x \in Int BY <3>1, <3>2, <1>2
    <3> QED BY <2>2, <2>3, <3>2, <3>4, <3>5, <1>0, <1>3
  <2>4. CASE x + Minute # at BY <2>2, <2>4, <1>4
  <2> QED BY <2>3, <2>4
<1>q. \A x \in minutes : x + Minute = at /\ x + Minute \in minutes /\ FollowsOn(zone, walk, period, x) => goesOn /\ acc.open # {}
  <2> SUFFICES ASSUME NEW x \in minutes, x + Minute = at, x + Minute \in minutes, FollowsOn(zone, walk, period, x) PROVE goesOn /\ acc.open # {}
    OBVIOUS
  <2>1. x \in before /\ x = Max(before)
    <3>1. at \notin before BY DEF before
    <3> QED BY <3>1, <1>p
  <2>2. valid /\ minute = MinuteOf(zone, x) + 1 /\ Valid(zone, walk, period, x) BY <1>v DEF FollowsOn, minute
  <2>3. acc.previous = MinuteOf(zone, x) BY <1>5, <2>1
  <2> QED BY <1>5, <2>1, <2>2, <2>3
<1> DEFINE Held(sets) == \A x \in minutes : Valid(zone, walk, period, x) => \E b \in sets : Holds(b, x)
             Joined(sets) == \A x \in minutes : x + Minute \in minutes /\ FollowsOn(zone, walk, period, x) =>
                               \E b \in sets : Holds(b, x) /\ Holds(b, x + Minute)
<1>12. CASE ~goesOn
  <2>1. \A b \in new.done \cup new.open : b \in acc.done \cup acc.open \/ (b = fresh /\ valid) BY <1>6, <1>12
  <2>2. \A b \in new.open : b = fresh BY <1>6, <1>12
  <2>3. ASSUME NEW b \in new.done \cup new.open PROVE Worked(b, zone, walk, period) /\ \E x \in minutes : b[2] = x + Minute
    <3>1. CASE b \in acc.done \cup acc.open BY <3>1, <1>4, <1>5
    <3>2. CASE b = fresh /\ valid BY <3>2, <1>3, <1>8, <1>10 DEF to
    <3> QED BY <3>1, <3>2, <2>1
  <2>4. \A b \in new.open : minutes # {} /\ b[2] = Max(minutes) + Minute BY <2>2, <1>8 DEF to, at
  <2>5. \A b, c \in new.done \cup new.open : b = c \/ Off(b, c)
    <3> SUFFICES ASSUME NEW b \in new.done \cup new.open, NEW c \in new.done \cup new.open PROVE b = c \/ Off(b, c)
      OBVIOUS
    <3>1. CASE b \in acc.done \cup acc.open /\ c \in acc.done \cup acc.open BY <3>1, <1>5
    <3>2. CASE b \in acc.done \cup acc.open /\ c = fresh BY <3>2, <1>7, <1>8 DEF Off
    <3>3. CASE c \in acc.done \cup acc.open /\ b = fresh BY <3>3, <1>7, <1>8 DEF Off
    <3> QED BY <3>1, <3>2, <3>3, <2>1
  <2>7. \A b \in new.done, c \in new.open : b[2] <= c[1] BY <2>2, <1>6, <1>12, <1>7, <1>8
  <2>8. minutes # {} /\ Valid(zone, walk, period, Max(minutes)) => new.open # {} BY <1>6, <1>12, <1>v DEF at
  <2>m. acc.done \cup acc.open \subseteq new.done \cup new.open /\ (valid => fresh \in new.done \cup new.open) BY <1>6, <1>12
  <2>9. Held(new.done \cup new.open)
    <3> SUFFICES ASSUME NEW x \in minutes, Valid(zone, walk, period, x) PROVE \E b \in new.done \cup new.open : Holds(b, x)
      OBVIOUS
    <3>1. CASE x = at BY <3>1, <2>m, <1>v, <1>k
    <3>2. CASE x \in before BY <3>2, <2>m, <1>5
    <3> QED BY <3>1, <3>2, <1>4
  <2>10. Joined(new.done \cup new.open)
    <3> SUFFICES ASSUME NEW x \in minutes, x + Minute \in minutes, FollowsOn(zone, walk, period, x)
                 PROVE \E b \in new.done \cup new.open : Holds(b, x) /\ Holds(b, x + Minute)
      OBVIOUS
    <3>1. x \in before /\ x + Minute \in before BY <1>p, <1>q, <1>12
    <3> QED BY <3>1, <2>m, <1>5
  <2>6. Windowing(new, zone, walk, period, minutes) BY <1>6, <1>11, <2>3, <2>4, <2>5, <2>7, <2>8, <2>9, <2>10 DEF Windowing
  <2> QED BY <2>6 DEF new, walk, at
<1>13. CASE goesOn
  <2>0. valid /\ minute = acc.previous + 1 /\ new.done = acc.done /\ new.open = Opens(acc.open, at, to) BY <1>6, <1>13
  <2>1. before # {}
    <3> SUFFICES ASSUME before = {} PROVE FALSE
      OBVIOUS
    <3>1. acc.previous = -2 BY <1>5
    <3>2. minute \in 0..(DayMinutes - 1) BY <1>3, ClockIs DEF minute
    <3> QED BY <3>1, <3>2, <2>0 DEF Scaled
  <2> DEFINE x == Max(before)
  <2>2. x \in before /\ \A y \in before : y <= x
    <3>1. before \in SUBSET Int /\ IsFiniteSet(before) BY <1>2, <1>4, FS_Subset
    <3> QED BY <3>1, <2>1, MaxIs
  <2>3. acc.previous = MinuteOf(zone, x) BY <1>5, <2>1
  <2> HIDE DEF x
  <2>4. at = x + Minute
    <3>1. x \in walk /\ x < at /\ x \in Int BY <2>2, <1>4
    <3>2. \A y \in walk : y <= x \/ at <= y
      <4> SUFFICES ASSUME NEW y \in walk, ~(at <= y) PROVE y <= x
        OBVIOUS
      <4>1. y \in Int /\ y <= at /\ y # at BY <1>1, <1>3
      <4>2. y \in minutes BY <4>1, <1>3 DEF Prefix, walk
      <4> QED BY <4>1, <4>2, <1>4, <2>2
    <3>3. MinuteOf(zone, at) = MinuteOf(zone, x) + 1 BY <2>0, <2>3 DEF minute
    <3> QED BY <3>1, <3>2, <3>3, <1>3, AdjacentMinutes DEF walk
  <2>5. CASE acc.open = {}
    <3>1. new.open = {fresh} BY <2>0, <2>5, <1>3, <1>7, <1>8, OpenFacts DEF fresh
    <3>2. \A b \in new.done \cup new.open : b \in acc.done \cup acc.open \/ b = fresh BY <2>0, <3>1
    <3>3. ASSUME NEW b \in new.done \cup new.open PROVE Worked(b, zone, walk, period) /\ \E y \in minutes : b[2] = y + Minute
      <4>1. CASE b \in acc.done \cup acc.open BY <4>1, <1>4, <1>5
      <4>2. CASE b = fresh BY <4>2, <1>3, <1>8, <1>10, <2>0 DEF to
      <4> QED BY <4>1, <4>2, <3>2
    <3>4. \A b \in new.open : minutes # {} /\ b[2] = Max(minutes) + Minute BY <3>1, <1>8 DEF to, at
    <3>5. \A b, c \in new.done \cup new.open : b = c \/ Off(b, c)
      <4> SUFFICES ASSUME NEW b \in new.done \cup new.open, NEW c \in new.done \cup new.open PROVE b = c \/ Off(b, c)
        OBVIOUS
      <4>1. CASE b \in acc.done \cup acc.open /\ c \in acc.done \cup acc.open BY <4>1, <1>5
      <4>2. CASE b \in acc.done \cup acc.open /\ c = fresh BY <4>2, <1>7, <1>8 DEF Off
      <4>3. CASE c \in acc.done \cup acc.open /\ b = fresh BY <4>3, <1>7, <1>8 DEF Off
      <4> QED BY <4>1, <4>2, <4>3, <3>2
    <3>7. \A b \in new.done, c \in new.open : b[2] <= c[1] BY <2>0, <3>1, <1>7, <1>8
    <3>8. minutes # {} /\ Valid(zone, walk, period, Max(minutes)) => new.open # {} BY <3>1
    <3>m. acc.done \cup acc.open \subseteq new.done \cup new.open /\ fresh \in new.done \cup new.open BY <2>0, <2>5, <3>1
    <3>9. Held(new.done \cup new.open)
      <4> SUFFICES ASSUME NEW y \in minutes, Valid(zone, walk, period, y) PROVE \E b \in new.done \cup new.open : Holds(b, y)
        OBVIOUS
      <4>1. CASE y = at BY <4>1, <3>m, <1>k
      <4>2. CASE y \in before BY <4>2, <3>m, <1>5
      <4> QED BY <4>1, <4>2, <1>4
    <3>10. Joined(new.done \cup new.open)
      <4> SUFFICES ASSUME NEW y \in minutes, y + Minute \in minutes, FollowsOn(zone, walk, period, y)
                   PROVE \E b \in new.done \cup new.open : Holds(b, y) /\ Holds(b, y + Minute)
        OBVIOUS
      <4>1. y \in before /\ y + Minute \in before BY <1>p, <1>q, <2>5
      <4> QED BY <4>1, <3>m, <1>5
    <3>6. Windowing(new, zone, walk, period, minutes) BY <1>6, <1>11, <3>3, <3>4, <3>5, <3>7, <3>8, <3>9, <3>10 DEF Windowing
    <3> QED BY <3>6 DEF new, walk, at
  <2>6. CASE acc.open # {}
    <3>1. PICK o \in Spans : acc.open = {o} BY <2>6, <1>7 DEF Open
    <3> DEFINE wide == <<o[1], to>>
    <3>2. new.open = {wide} BY <2>0, <3>1, <1>3, <1>7, <1>8, OpenFacts
    <3>3. o[1] \in Int /\ o[2] \in Int /\ o[1] < o[2] /\ o[2] = at /\ Worked(o, zone, walk, period)
      <4>1. o \in acc.open BY <3>1
      <4>2. o[2] = x + Minute BY <4>1, <1>5 DEF x
      <4> QED BY <4>1, <4>2, <2>4, <1>5, <1>7
    <3>4. wide \in Spans /\ wide[1] = o[1] /\ wide[2] = to BY <3>3, <1>8, SpanParts
    <3> HIDE DEF wide
    <3>5. Worked(wide, zone, walk, period)
      <4>1. wide[1] < wide[2] /\ Whole(wide[1]) /\ Whole(wide[2]) BY <3>3, <3>4, <1>3, <1>8 DEF Worked
      <4>3. Offset(zone, at) = Offset(zone, o[1])
        <5>1. x \in walk /\ Whole(x) /\ x \in Int BY <2>2, <1>1, <1>4
        <5>2. DateOf(zone, x) = date /\ DateOf(zone, at) = date BY <5>1, <1>3, WalkIs DEF walk
        <5>3. MinuteOf(zone, at) - MinuteOf(zone, x) = 1
          <6>1. MinuteOf(zone, x) \in 0..(DayMinutes - 1) BY <5>1, ClockIs
          <6> QED BY <6>1, <2>0, <2>3 DEF minute, Scaled
        <5>4. Wall(zone, at) - Wall(zone, x) = Minute
          <6>1. Wall(zone, at) - Wall(zone, x) = Minutes(1) BY <5>1, <5>2, <5>3, <1>3, SameClock
          <6> QED BY <6>1, <1>0, MinutesAre
        <5>5. Offset(zone, at) = Offset(zone, x)
          <6>1. Wall(zone, at) = at + Offset(zone, at) /\ Wall(zone, x) = x + Offset(zone, x) /\ Offset(zone, at) \in Int /\ Offset(zone, x) \in Int
            BY <5>1, <1>0, <1>3, OffsetIs
          <6> QED BY <6>1, <5>1, <5>4, <2>4, <1>0
        <5>6. o[1] <= x /\ x < o[2]
          <6>1. Whole(o[1]) /\ Whole(o[2]) BY <3>3 DEF Worked
          <6>2. o[1] + Minute <= o[2] BY <6>1, <3>3, <1>0, WholeSums
          <6> QED BY <6>2, <5>1, <3>3, <2>4, <1>0
        <5> QED BY <5>1, <5>5, <5>6, <3>3 DEF Worked
      <4>2. ASSUME NEW y, Whole(y), wide[1] <= y, y < wide[2]
            PROVE y \in walk /\ Valid(zone, walk, period, y) /\ Offset(zone, y) = Offset(zone, wide[1])
        <5>0. y \in Int BY <4>2, <1>0, WholeSums
        <5>1. CASE y < at BY <5>1, <4>2, <3>3, <3>4 DEF Worked
        <5>2. CASE at <= y
          <6>1. y = at BY <5>2, <4>2, <3>4, <1>9
          <6> QED BY <6>1, <4>3, <3>4, <1>3, <2>0 DEF valid
        <5> QED BY <5>0, <5>1, <5>2, <1>3
      <4> QED BY <4>1, <4>2 DEF Worked
    <3>6. \A b \in new.done \cup new.open : b \in acc.done \/ b = wide BY <2>0, <3>2
    <3>7. ASSUME NEW b \in new.done \cup new.open PROVE Worked(b, zone, walk, period) /\ \E y \in minutes : b[2] = y + Minute
      <4>1. CASE b \in acc.done BY <4>1, <1>4, <1>5
      <4>2. CASE b = wide BY <4>2, <3>4, <3>5, <1>3 DEF to
      <4> QED BY <4>1, <4>2, <3>6
    <3>8. \A b \in new.open : minutes # {} /\ b[2] = Max(minutes) + Minute BY <3>2, <3>4 DEF to, at
    <3>12. \A b \in new.done, c \in new.open : b[2] <= c[1] BY <2>0, <3>1, <3>2, <3>4, <1>5
    <3>9. \A b \in acc.done : Off(b, wide) /\ Off(wide, b) BY <2>0, <3>2, <3>12 DEF Off
    <3>10. \A b, c \in new.done \cup new.open : b = c \/ Off(b, c)
      BY <3>6, <3>9, <1>5
    <3>13. minutes # {} /\ Valid(zone, walk, period, Max(minutes)) => new.open # {} BY <3>2
    <3>m. /\ wide \in new.done \cup new.open
          /\ \A b \in acc.done \cup acc.open : b = o \/ b \in new.done \cup new.open
          /\ Holds(wide, at)
          /\ \A y \in Int : Holds(o, y) => Holds(wide, y)
      BY <2>0, <3>1, <3>2, <3>3, <3>4, <1>0, <1>3, <1>8 DEF Holds, to
    <3>14. Held(new.done \cup new.open)
      <4> SUFFICES ASSUME NEW y \in minutes, Valid(zone, walk, period, y) PROVE \E b \in new.done \cup new.open : Holds(b, y)
        OBVIOUS
      <4>1. CASE y = at BY <4>1, <3>m
      <4>2. CASE y \in before
        <5>1. PICK b \in acc.done \cup acc.open : Holds(b, y) BY <4>2, <1>5
        <5> QED BY <5>1, <3>m, <1>2
      <4> QED BY <4>1, <4>2, <1>4
    <3>15. Joined(new.done \cup new.open)
      <4> SUFFICES ASSUME NEW y \in minutes, y + Minute \in minutes, FollowsOn(zone, walk, period, y)
                   PROVE \E b \in new.done \cup new.open : Holds(b, y) /\ Holds(b, y + Minute)
        OBVIOUS
      <4>0. y \in Int /\ y + Minute \in Int BY <1>0, <1>2
      <4>1. CASE y \in before /\ y + Minute \in before
        <5>1. PICK b \in acc.done \cup acc.open : Holds(b, y) /\ Holds(b, y + Minute) BY <4>1, <1>5
        <5> QED BY <5>1, <4>0, <3>m
      <4>2. CASE y + Minute = at /\ y = Max(before)
        <5>1. y = x BY <4>2 DEF x
        <5>2. o[2] = y + Minute BY <5>1, <2>4, <3>3
        <5>3. o[1] <= y
          <6>1. Whole(o[1]) /\ Whole(o[2]) BY <3>3 DEF Worked
          <6>2. o[1] + Minute <= o[2] BY <6>1, <3>3, <1>0, WholeSums
          <6> QED BY <6>2, <5>2, <3>3, <4>0, <1>0
        <5>4. Holds(wide, y) BY <5>3, <4>0, <4>2, <3>4, <1>0, <1>3, <1>8 DEF Holds
        <5> QED BY <5>4, <4>2, <3>m
      <4> QED BY <4>1, <4>2, <1>p
    <3>11. Windowing(new, zone, walk, period, minutes) BY <1>6, <1>11, <3>7, <3>8, <3>10, <3>12, <3>13, <3>14, <3>15 DEF Windowing
    <3> QED BY <3>11 DEF new, walk, at
  <2> QED BY <2>5, <2>6
<1> QED BY <1>12, <1>13

\* The walk of workingWindows as the community modules define it,
WindowFold(F, base, zone, walk, period, S) ==
  F = [s \in SUBSET S |-> IF s = {} THEN base ELSE WindowStep(zone, walk, period, F[s \ {Max(s)}], Max(s))]

\* what MapThenFoldSet computes,
LEMMA WindowUnfolds ==
  ASSUME NEW S, NEW zone, NEW walk, NEW period, NEW base, NEW F, WindowFold(F, base, zone, walk, period, S)
  PROVE \E G : OverMinutes(LAMBDA acc, at : WindowStep(zone, walk, period, acc, at), base, S) = G[S] /\ WindowFold(G, base, zone, walk, period, S)
BY DEF WindowFold, OverMinutes, MapThenFoldSet

\* its values, minute after minute,
WindowRun(F, base, zone, walk, period, S) ==
  F[{}] = base /\ \A s \in SUBSET S : s # {} => F[s] = WindowStep(zone, walk, period, F[s \ {Max(s)}], Max(s))

\* and that it takes them so.
LEMMA WindowIsFold ==
  ASSUME Scaled, NEW zone, RealZone(zone), NEW walk \in SUBSET Int, IsFiniteSet(walk), \A x \in walk : Whole(x),
         NEW period, NEW base \in WindowWalks
  PROVE \E F : WindowWalk(zone, walk, period, base) = F[walk] /\ WindowRun(F, base, zone, walk, period, walk)
<1> DEFINE S == walk
           g == [p \in WindowWalks \X S |-> WindowStep(zone, walk, period, p[1], p[2])]
           c == [t \in SUBSET S |-> Max(t)]
<1>1. Takes(g, WindowWalks, S)
  <2> SUFFICES ASSUME NEW a \in WindowWalks, NEW x \in S PROVE g[<<a, x>>] \in WindowWalks
    BY DEF Takes
  <2>1. g[<<a, x>>] = WindowStep(zone, walk, period, a, x) OBVIOUS
  <2>2. Stepped(WindowStep(zone, walk, period, a, x), a, Continues(zone, walk, period, a, x), Valid(zone, walk, period, x), zone, x)
    BY WindowStepType
  <2> QED BY <2>1, <2>2 DEF Stepped
<1>2. PICK F : Folds(F, S, WindowWalks, base, c, g)
  <2> HIDE DEF g
  <2> QED BY <1>1, MinuteFold
<1>3. \A s \in SUBSET S : s # {} => F[s] = WindowStep(zone, walk, period, F[s \ {Max(s)}], Max(s))
  <2> SUFFICES ASSUME NEW s \in SUBSET S, s # {} PROVE F[s] = WindowStep(zone, walk, period, F[s \ {Max(s)}], Max(s))
    OBVIOUS
  <2>1. Max(s) \in S BY MaxIs, FS_Subset
  <2>2. F[s \ {Max(s)}] \in WindowWalks BY <1>2 DEF Folds
  <2> QED BY <1>2, <2>1, <2>2 DEF Folds
<1> HIDE DEF g, c
<1>4. F = [s \in SUBSET S |-> IF s = {} THEN base ELSE WindowStep(zone, walk, period, F[s \ {Max(s)}], Max(s))]
  BY <1>2, <1>3 DEF Folds
<1>5. WindowFold(F, base, zone, walk, period, S) BY <1>4 DEF WindowFold
<1>6. PICK G : /\ OverMinutes(LAMBDA acc, at : WindowStep(zone, walk, period, acc, at), base, S) = G[S]
               /\ WindowFold(G, base, zone, walk, period, S)
  BY <1>5, WindowUnfolds
<1>7. G = [s \in SUBSET S |-> IF s = {} THEN base ELSE WindowStep(zone, walk, period, G[s \ {Max(s)}], Max(s))] BY <1>6 DEF WindowFold
<1>8. G[{}] = base /\ \A s \in SUBSET S : s # {} => G[s] = WindowStep(zone, walk, period, G[s \ {Max(s)}], Max(s)) BY <1>7
<1>9. WindowWalk(zone, walk, period, base) = G[walk] BY <1>6 DEF WindowWalk
<1> QED BY <1>9, <1>8 DEF WindowRun

\* Intervals that hold exactly the minutes of a period.
Windowed(R, zone, walk, period) ==
  /\ R \in SpanSets
  /\ \A b \in R : Worked(b, zone, walk, period)
  /\ \A b, c \in R : b = c \/ Off(b, c)
  /\ \A at \in walk : Valid(zone, walk, period, at) => \E b \in R : Holds(b, at)
  /\ \A at \in walk : at + Minute \in walk /\ FollowsOn(zone, walk, period, at) =>
       \E b \in R : Holds(b, at) /\ Holds(b, at + Minute)

\* workingWindows makes such intervals of a period.
LEMMA WindowsOfWindow ==
  ASSUME Scaled, NEW zone, RealZone(zone), NEW date \in Int, NEW period
  PROVE Windowed(WindowsOf(zone, DayWalk(zone, date), period), zone, DayWalk(zone, date), period)
<1> DEFINE walk == DayWalk(zone, date)
           base == [done |-> {}, open |-> {}, previous |-> -2]
           end == WindowWalk(zone, walk, period, base)
<1>1. walk \in SUBSET Int /\ IsFiniteSet(walk) /\ \A x \in walk : Whole(x) BY WalkIs
<1>2. base \in WindowWalks /\ base.done = {} /\ base.open = {} /\ base.previous = -2 BY SpanSetFacts DEF WindowWalks, Open
<1>3. WindowsOf(zone, walk, period) = end.done \cup end.open BY DEF WindowsOf
<1>w. walk = DayWalk(zone, date) OBVIOUS
<1>e. end = WindowWalk(zone, walk, period, base) OBVIOUS
<1> HIDE DEF walk, base, end
<1>4. PICK F : WindowWalk(zone, walk, period, base) = F[walk] /\ WindowRun(F, base, zone, walk, period, walk)
  BY <1>1, <1>2, WindowIsFold
<1>f. F[{}] = base /\ \A s \in SUBSET walk : s # {} => F[s] = WindowStep(zone, walk, period, F[s \ {Max(s)}], Max(s)) BY <1>4 DEF WindowRun
<1> DEFINE U == {s \in SUBSET walk : Prefix(s, walk) => Windowing(F[s], zone, walk, period, s)}
<1>6. {} \in U
  <2>1. Windowing(base, zone, walk, period, {}) BY <1>2 DEF Windowing
  <2> QED BY <2>1, <1>f
<1>7. \A s \in SUBSET walk : s # {} /\ s \ {Max(s)} \in U => s \in U
  <2> SUFFICES ASSUME NEW s \in SUBSET walk, s # {}, s \ {Max(s)} \in U PROVE s \in U
    OBVIOUS
  <2> SUFFICES ASSUME Prefix(s, walk) PROVE Windowing(F[s], zone, walk, period, s)
    OBVIOUS
  <2>m. Max(s) \in s /\ \A x \in s : x <= Max(s)
    <3>1. s \in SUBSET Int /\ IsFiniteSet(s) BY <1>1, FS_Subset
    <3> QED BY <3>1, MaxIs
  <2> DEFINE m == Max(s)
             before == s \ {m}
  <2> HIDE DEF m, before
  <2>n. m \in s /\ (\A x \in s : x <= m) /\ before = s \ {m} BY <2>m DEF m, before
  <2>1. Prefix(before, walk)
    <3> SUFFICES ASSUME NEW y \in before, NEW b \in walk, b <= y PROVE b \in before
      BY DEF Prefix
    <3>1. y \in s /\ y # m BY <2>n
    <3>2. b \in s BY <3>1 DEF Prefix
    <3>3. y \in Int /\ b \in Int /\ m \in Int BY <3>1, <1>1, <2>n
    <3>4. b # m BY <3>1, <3>3, <2>n
    <3> QED BY <3>2, <3>4, <2>n
  <2>2. Windowing(F[before], zone, walk, period, before) BY <2>1 DEF before, m
  <2>3. Windowing(WindowStep(zone, walk, period, F[before], m), zone, walk, period, s)
    BY <2>2, <1>w, WindowStepWorks DEF before, m
  <2>4. F[s] = WindowStep(zone, walk, period, F[before], m) BY <1>f DEF before, m
  <2> QED BY <2>3, <2>4
<1>8. U = SUBSET walk
  <2> HIDE DEF U
  <2>1. U \subseteq SUBSET walk BY DEF U
  <2> QED BY <2>1, <1>1, <1>6, <1>7, MinutesFromBelow
<1>9. Windowing(end, zone, walk, period, walk)
  <2>1. walk \in U /\ Prefix(walk, walk) BY <1>8 DEF Prefix
  <2> QED BY <2>1, <1>4, <1>e
<1> DEFINE R == end.done \cup end.open
<1>10. end.done \in SpanSets /\ end.open \in SpanSets /\ end.open \in Open BY <1>9, OpenFacts DEF Windowing, WindowWalks
<1>11. R \in SpanSets BY <1>10, SpanSetFacts DEF Open
<1>12. /\ \A b \in R : Worked(b, zone, walk, period)
       /\ \A b, c \in R : b = c \/ Off(b, c)
       /\ \A at \in walk : Valid(zone, walk, period, at) => \E b \in R : Holds(b, at)
       /\ \A at \in walk : at + Minute \in walk /\ FollowsOn(zone, walk, period, at) =>
            \E b \in R : Holds(b, at) /\ Holds(b, at + Minute)
  BY <1>9 DEF Windowing
<1> HIDE DEF R
<1>13. Windowed(R, zone, walk, period) BY <1>11, <1>12 DEF Windowed
<1> QED BY <1>3, <1>13, <1>w DEF R

-----------------------------------------------------------------------------
(* workingWindows: the periods of a date                                   *)

\* Openings that validateSettings accepts (93-104, 123-135),
Openings == {h \in (0..(DayMinutes - 1)) \X (0..(DayMinutes - 1)) : h[1] < h[2]}
\* those of a period,
OpeningOf(p) == <<p.start, p.end>>
\* and settings with such periods, of which weekly ones of the same weekday do not overlap (105-113).
RealSettings(v) ==
  /\ v.slot \in Nat \ {0} /\ v.buffer \in Nat /\ v.external \in Nat /\ v.notice \in Nat /\ v.horizon \in Nat
  /\ \E n \in Nat : DOMAIN v.weekly = 1..n
  /\ \A i \in DOMAIN v.weekly : OpeningOf(v.weekly[i]) \in Openings
  /\ \A i, j \in DOMAIN v.weekly :
       i # j /\ v.weekly[i].weekday = v.weekly[j].weekday => Off(OpeningOf(v.weekly[i]), OpeningOf(v.weekly[j]))
  /\ DOMAIN v.exceptions \subseteq Nat
  /\ \A k \in DOMAIN v.exceptions : v.exceptions[k].closed \/ OpeningOf(v.exceptions[k]) \in Openings

\* The image of a finite set is finite.
LEMMA ImageFinite ==
  ASSUME NEW S, IsFiniteSet(S), NEW f
  PROVE IsFiniteSet({f[x] : x \in S})
<1> DEFINE T == {f[x] : x \in S}
           g == [x \in S |-> f[x]]
<1>1. g \in [S -> T] /\ \A t \in T : \E x \in S : g[x] = t OBVIOUS
<1>2. g \in Surjection(S, T) BY <1>1 DEF Surjection
<1> QED BY <1>2, FS_Surjection

\* The periods of a date do not overlap.
LEMMA PeriodsAre ==
  ASSUME Scaled, NEW v, RealSettings(v), NEW date \in Int
  PROVE /\ PeriodsOn(v, date) \in SpanSets
        /\ \A p \in PeriodsOn(v, date) : p[1] \in 0..(DayMinutes - 1) /\ p[2] \in 0..(DayMinutes - 1) /\ p[1] < p[2]
        /\ \A p, q \in PeriodsOn(v, date) : p = q \/ Off(p, q)
<1> DEFINE exceptions == {k \in DOMAIN v.exceptions : v.exceptions[k].date = date}
           first == v.exceptions[CHOOSE k \in exceptions : \A j \in exceptions : k <= j]
           days == {w \in ToSet(v.weekly) : w.weekday = Weekday(date)}
           periods == PeriodsOn(v, date)
<1>1. periods = IF exceptions = {} THEN {OpeningOf(w) : w \in days}
                ELSE IF first.closed THEN {} ELSE {OpeningOf(first)}
  BY DEF PeriodsOn, OpeningOf
<1>2. \A h \in Openings : h \in Spans /\ h[1] \in 0..(DayMinutes - 1) /\ h[2] \in 0..(DayMinutes - 1) /\ h[1] < h[2]
  BY DEF Openings, Spans, Scaled
<1>3. CASE exceptions = {}
  <2>1. PICK n \in Nat : DOMAIN v.weekly = 1..n BY DEF RealSettings
  <2>2. IsFiniteSet(1..n) BY <2>1, FS_Interval
  <2> DEFINE listed == {v.weekly[i] : i \in 1..n}
             hours == {OpeningOf(w) : w \in days}
  <2>3. ToSet(v.weekly) = listed BY <2>1 DEF ToSet
  <2>4. IsFiniteSet(listed) BY <2>2, ImageFinite
  <2>5. IsFiniteSet(days) BY <2>3, <2>4, FS_Subset
  <2>6. IsFiniteSet(hours)
    <3> HIDE DEF days
    <3> DEFINE f == [w \in days |-> OpeningOf(w)]
    <3>1. hours = {f[w] : w \in days} OBVIOUS
    <3> HIDE DEF f
    <3> QED BY <3>1, <2>5, ImageFinite
  <2>7. \A p \in hours : \E i \in DOMAIN v.weekly : p = OpeningOf(v.weekly[i]) /\ v.weekly[i].weekday = Weekday(date)
    BY <2>1, <2>3
  <2>8. \A p \in hours : p \in Openings BY <2>7 DEF RealSettings
  <2>9. \A p, q \in hours : p = q \/ Off(p, q)
    <3> SUFFICES ASSUME NEW p \in hours, NEW q \in hours PROVE p = q \/ Off(p, q)
      OBVIOUS
    <3>1. PICK i \in DOMAIN v.weekly : p = OpeningOf(v.weekly[i]) /\ v.weekly[i].weekday = Weekday(date) BY <2>7
    <3>2. PICK j \in DOMAIN v.weekly : q = OpeningOf(v.weekly[j]) /\ v.weekly[j].weekday = Weekday(date) BY <2>7
    <3>3. CASE i = j BY <3>1, <3>2, <3>3
    <3>4. CASE i # j BY <3>1, <3>2, <3>4 DEF RealSettings
    <3> QED BY <3>3, <3>4
  <2> HIDE DEF hours
  <2>10. hours \in SpanSets BY <2>6, <2>8, <1>2 DEF SpanSets
  <2>11. periods = hours BY <1>1, <1>3 DEF hours
  <2> QED BY <2>8, <2>9, <2>10, <2>11, <1>2
<1>4. CASE exceptions # {} /\ first.closed
  <2>1. periods = {} BY <1>1, <1>4
  <2> QED BY <2>1, SpanSetFacts
<1>5. CASE exceptions # {} /\ ~first.closed
  <2> DEFINE k == CHOOSE k \in exceptions : \A j \in exceptions : k <= j
  <2>1. exceptions \in SUBSET Nat BY DEF RealSettings
  <2>2. \E n \in exceptions : \A m \in exceptions : n <= m BY <2>1, <1>5, LeastNatural
  <2>3. k \in exceptions BY <2>2
  <2>4. OpeningOf(first) \in Openings BY <2>3, <1>5 DEF RealSettings
  <2> HIDE DEF first
  <2>5. periods = {OpeningOf(first)} BY <1>1, <1>5
  <2>6. periods \in SpanSets BY <2>4, <2>5, <1>2, FS_Singleton DEF SpanSets
  <2> QED BY <2>4, <2>5, <2>6, <1>2
<1> QED BY <1>3, <1>4, <1>5

\* Windows that are made of the periods of a date.
Hired(W, v, zone, date) ==
  /\ W \in SpanSets
  /\ \A w \in W : \E p \in PeriodsOn(v, date) : Worked(w, zone, DayWalk(zone, date), p)
  /\ \A w, x \in W : w = x \/ Off(w, x)
  /\ \A p \in PeriodsOn(v, date) : \E R \in SUBSET W : Windowed(R, zone, DayWalk(zone, date), p)

\* Intervals of periods that do not overlap do not overlap.
LEMMA WorkedApart ==
  ASSUME Scaled, NEW zone, NEW walk, NEW p, NEW q, Off(p, q),
         p[1] \in Int, p[2] \in Int, q[1] \in Int, q[2] \in Int,
         \A at \in walk : MinuteOf(zone, at) \in Int,
         NEW w \in Spans, NEW x \in Spans, Worked(w, zone, walk, p), Worked(x, zone, walk, q)
  PROVE Off(w, x)
<1> SUFFICES ASSUME ~Off(w, x) PROVE FALSE
  OBVIOUS
<1> DEFINE at == Later(w[1], x[1])
<1>1. w[1] \in Int /\ w[2] \in Int /\ x[1] \in Int /\ x[2] \in Int BY SpanParts
<1>2. w[1] < x[2] /\ x[1] < w[2] BY <1>1 DEF Off
<1>3. at \in Int /\ w[1] <= at /\ x[1] <= at /\ (at = w[1] \/ at = x[1]) BY <1>1, LaterIs
<1> HIDE DEF at
<1>4. Whole(at) /\ at < w[2] /\ at < x[2] BY <1>1, <1>2, <1>3 DEF Worked
<1>5. at \in walk /\ Valid(zone, walk, p, at) /\ Valid(zone, walk, q, at) BY <1>3, <1>4 DEF Worked
<1> QED BY <1>5 DEF Valid, Off

\* workingWindows makes such windows.
LEMMA WorkingIs ==
  ASSUME Scaled, NEW v, RealSettings(v), NEW zone, RealZone(zone), NEW date \in Int
  PROVE Hired(WorkingWindows(v, zone, date), v, zone, date)
<1> DEFINE walk == DayWalk(zone, date)
           periods == PeriodsOn(v, date)
           W == WorkingWindows(v, zone, date)
           parts == {WindowsOf(zone, walk, p) : p \in periods}
<1>1. /\ periods \in SpanSets /\ IsFiniteSet(periods)
      /\ \A p \in periods : p[1] \in Int /\ p[2] \in Int
      /\ \A p, q \in periods : p = q \/ Off(p, q)
  <2>1. periods \in SpanSets /\ IsFiniteSet(periods) BY PeriodsAre, SpanSetFacts
  <2>2. \A p \in periods : p[1] \in Int /\ p[2] \in Int BY <2>1, SpanSetFacts, SpanParts
  <2>3. \A p, q \in periods : p = q \/ Off(p, q) BY PeriodsAre
  <2> QED BY <2>1, <2>2, <2>3
<1>2. \A p : Windowed(WindowsOf(zone, walk, p), zone, walk, p) BY WindowsOfWindow
<1>3. W = UNION parts BY DEF WorkingWindows
<1>m. \A at \in walk : MinuteOf(zone, at) \in Int
  <2> SUFFICES ASSUME NEW at \in walk PROVE MinuteOf(zone, at) \in Int
    OBVIOUS
  <2>1. Whole(at) BY WalkIs
  <2>2. MinuteOf(zone, at) \in 0..(DayMinutes - 1) BY <2>1, ClockIs
  <2> QED BY <2>2 DEF Scaled
<1> HIDE DEF walk, periods, W
<1>4. IsFiniteSet(parts)
  <2> DEFINE f == [p \in periods |-> WindowsOf(zone, walk, p)]
  <2>1. parts = {f[p] : p \in periods} OBVIOUS
  <2> HIDE DEF f
  <2> QED BY <2>1, <1>1, ImageFinite
<1>5. \A R \in parts : \E p \in periods : R = WindowsOf(zone, walk, p) /\ Windowed(R, zone, walk, p) BY <1>2
<1>6. \A p \in periods : WindowsOf(zone, walk, p) \in parts OBVIOUS
<1> HIDE DEF parts
<1>7. \A R \in parts : R \in SpanSets /\ R \subseteq Spans /\ IsFiniteSet(R) BY <1>5, SpanSetFacts DEF Windowed
<1>8. IsFiniteSet(W) BY <1>3, <1>4, <1>7, FS_UNION
<1>9. W \in SpanSets BY <1>3, <1>7, <1>8 DEF SpanSets
<1>10. \A w \in W : \E p \in periods : w \in WindowsOf(zone, walk, p) /\ Worked(w, zone, walk, p) BY <1>3, <1>5 DEF Windowed
<1>11. ASSUME NEW w \in W, NEW x \in W PROVE w = x \/ Off(w, x)
  <2>1. PICK p \in periods : w \in WindowsOf(zone, walk, p) /\ Worked(w, zone, walk, p) BY <1>10
  <2>2. PICK q \in periods : x \in WindowsOf(zone, walk, q) /\ Worked(x, zone, walk, q) BY <1>10
  <2>3. CASE p = q
    <3>1. x \in WindowsOf(zone, walk, p) BY <2>2, <2>3
    <3> QED BY <3>1, <2>1, <1>2 DEF Windowed
  <2>4. CASE p # q
    <3>1. Off(p, q) BY <2>4, <1>1
    <3>2. w \in Spans /\ x \in Spans BY <1>9, SpanSetFacts
    <3> QED BY <3>1, <3>2, <2>1, <2>2, <1>1, <1>m, WorkedApart
  <2> QED BY <2>3, <2>4
<1>12. \A p \in periods : \E R \in SUBSET W : Windowed(R, zone, walk, p)
  <2> SUFFICES ASSUME NEW p \in periods PROVE \E R \in SUBSET W : Windowed(R, zone, walk, p)
    OBVIOUS
  <2>1. WindowsOf(zone, walk, p) \in SUBSET W BY <1>3, <1>6
  <2> QED BY <2>1, <1>2
<1>13. \A w \in W : \E p \in periods : Worked(w, zone, walk, p) BY <1>10
<1>14. \A w, x \in W : w = x \/ Off(w, x) BY <1>11
<1> QED BY <1>9, <1>12, <1>13, <1>14 DEF Hired, walk, periods, W

-----------------------------------------------------------------------------
(* wallInstant, and the starts that are certain                            *)

\* An instant whose wall time no other shows.
Single(zone, at) == \A b : Whole(b) /\ Wall(zone, b) = Wall(zone, at) => b = at

\* Wall times are the same when date and minute are, and then the instants are within Reach,
LEMMA WallIs ==
  ASSUME Scaled, NEW zone, RealZone(zone), NEW a, NEW b, Whole(a), Whole(b)
  PROVE /\ Wall(zone, a) = Wall(zone, b) <=> DateOf(zone, a) = DateOf(zone, b) /\ MinuteOf(zone, a) = MinuteOf(zone, b)
        /\ Wall(zone, a) = Wall(zone, b) => \E j \in -Reach..Reach : b = a + Minutes(j)
<1>0. Sized /\ Reach \in Nat /\ a \in Int /\ b \in Int BY WholeSums DEF Scaled
<1>1. Wall(zone, a) = Wall(zone, b) => DateOf(zone, a) = DateOf(zone, b) /\ MinuteOf(zone, a) = MinuteOf(zone, b)
  BY SameClock
<1>2. DateOf(zone, a) = DateOf(zone, b) /\ MinuteOf(zone, a) = MinuteOf(zone, b) => Wall(zone, a) = Wall(zone, b)
  BY ClockIs
<1>3. ASSUME Wall(zone, a) = Wall(zone, b) PROVE \E j \in -Reach..Reach : b = a + Minutes(j)
  <2>1. PICK j \in -Reach..Reach : Offset(zone, a) - Offset(zone, b) = Minutes(j) BY <1>0, OffsetsDiffer
  <2>2. /\ Wall(zone, a) = a + Offset(zone, a) /\ Wall(zone, b) = b + Offset(zone, b)
        /\ Offset(zone, a) \in Int /\ Offset(zone, b) \in Int
    BY <1>0, OffsetIs
  <2> DEFINE p == Offset(zone, a)
             q == Offset(zone, b)
  <2>3. a + p = b + q /\ p \in Int /\ q \in Int /\ p - q = Minutes(j) /\ a \in Int /\ b \in Int BY <1>0, <1>3, <2>1, <2>2
  <2> HIDE DEF p, q
  <2>4. b = a + (p - q) BY <2>3
  <2> QED BY <2>3, <2>4
<1> QED BY <1>1, <1>2, <1>3

\* so looking that far is enough (wallInstant, 247-265),
LEMMA AloneIs ==
  ASSUME Scaled, NEW zone, RealZone(zone), NEW at, Whole(at)
  PROVE Single(zone, at) <=> \A j \in -Reach..Reach : j # 0 => Wall(zone, at) # Wall(zone, at + Minutes(j))
<1>0. Sized /\ at \in Int /\ Reach \in Nat BY WholeSums DEF Scaled
<1>1. \A j \in -Reach..Reach : j \in Int /\ Whole(at + Minutes(j)) /\ (j # 0 => at + Minutes(j) # at) /\ (j = 0 => at + Minutes(j) = at)
  <2> SUFFICES ASSUME NEW j \in -Reach..Reach
               PROVE j \in Int /\ Whole(at + Minutes(j)) /\ (j # 0 => at + Minutes(j) # at) /\ (j = 0 => at + Minutes(j) = at)
    OBVIOUS
  <2>1. j \in Int BY <1>0
  <2>2. Whole(Minutes(j)) /\ Minutes(j) \in Int BY <2>1, <1>0, MinutesAre, WholeSums
  <2>3. Whole(at + Minutes(j)) BY <2>2, <1>0, WholeSums
  <2>4. j # 0 => Minutes(j) # 0
    <3>1. 0 \in Int /\ Minutes(0) = 0 BY <1>0, MinutesAre
    <3>2. j < 0 => Minutes(j) < 0 BY <3>1, <2>1, <1>0, MinutesAre
    <3>3. 0 < j => 0 < Minutes(j) BY <3>1, <2>1, <1>0, MinutesAre
    <3> QED BY <3>2, <3>3, <2>1, <2>2
  <2>5. j = 0 => Minutes(j) = 0 BY <1>0, MinutesAre
  <2> QED BY <2>1, <2>2, <2>3, <2>4, <2>5, <1>0
<1>2. ASSUME Single(zone, at), NEW j \in -Reach..Reach, j # 0 PROVE Wall(zone, at) # Wall(zone, at + Minutes(j))
  BY <1>1, <1>2 DEF Single
<1>3. ASSUME \A j \in -Reach..Reach : j # 0 => Wall(zone, at) # Wall(zone, at + Minutes(j)) PROVE Single(zone, at)
  <2> SUFFICES ASSUME NEW b, Whole(b), Wall(zone, b) = Wall(zone, at) PROVE b = at
    BY DEF Single
  <2>1. PICK j \in -Reach..Reach : b = at + Minutes(j) BY WallIs
  <2> QED BY <2>1, <1>1, <1>3
<1> QED BY <1>2, <1>3

\* and so is looking on the date (workingWindows, 362-365).
LEMMA OnceIs ==
  ASSUME Scaled, NEW zone, RealZone(zone), NEW date \in Int, NEW at \in DayWalk(zone, date)
  PROVE Once(zone, DayWalk(zone, date), at) <=> Single(zone, at)
<1> DEFINE walk == DayWalk(zone, date)
           same == {b \in walk : MinuteOf(zone, b) = MinuteOf(zone, at)}
<1>1. /\ IsFiniteSet(walk)
      /\ \A b \in walk : Whole(b) /\ DateOf(zone, b) = date
      /\ \A b : Whole(b) /\ DateOf(zone, b) = date => b \in walk
  BY WalkIs
<1>2. Once(zone, walk, at) <=> Cardinality(same) = 1 BY DEF Once
<1>3. IsFiniteSet(same) /\ at \in same BY <1>1, FS_Subset
<1>4. Cardinality(same) = 1 <=> same = {at}
  <2> HIDE DEF same
  <2>1. Cardinality(same) = 1 <=> \E x : same = {x} BY <1>3, FS_Singleton
  <2> QED BY <2>1, <1>3
<1>5. same = {at} <=> \A b : Whole(b) /\ Wall(zone, b) = Wall(zone, at) => b = at
  <2>1. \A b : b \in same <=> Whole(b) /\ Wall(zone, b) = Wall(zone, at)
    <3> SUFFICES ASSUME NEW b PROVE b \in same <=> Whole(b) /\ Wall(zone, b) = Wall(zone, at)
      OBVIOUS
    <3>1. ASSUME b \in same PROVE Whole(b) /\ Wall(zone, b) = Wall(zone, at) BY <3>1, <1>1, WallIs
    <3>2. ASSUME Whole(b), Wall(zone, b) = Wall(zone, at) PROVE b \in same BY <3>2, <1>1, WallIs
    <3> QED BY <3>1, <3>2
  <2> HIDE DEF same
  <2> QED BY <2>1, <1>3
<1> QED BY <1>2, <1>4, <1>5 DEF Single

\* wallInstant finds an instant exactly when no other shows its wall time,
LEMMA InstantsAre ==
  ASSUME Scaled, NEW zone, RealZone(zone), NEW at, Whole(at), NEW date, NEW minute,
         DateOf(zone, at) = date, MinuteOf(zone, at) = minute
  PROVE WallInstant(zone, date, minute) = {at} <=> Single(zone, at)
<1> DEFINE guess == InZone(zone, date, minute)
           near == {guess + Minutes(k) : k \in -Reach..Reach}
           matches == {x \in near : DateOf(zone, x) = date /\ MinuteOf(zone, x) = minute}
<1>0. Sized /\ Reach \in Nat /\ at \in Int /\ Whole(at) /\ date \in Int /\ minute \in Int
  <2>1. DateOf(zone, at) \in Int /\ MinuteOf(zone, at) \in 0..(DayMinutes - 1) BY ClockIs
  <2> QED BY <2>1, WholeSums DEF Scaled
<1>1. guess \in Int /\ Whole(guess) BY <1>0, DayIs
<1>2. PICK g \in Int : guess = Minutes(date * DayMinutes + minute) - Offset(zone, g) BY <1>0, DayIs
<1>3. WallInstant(zone, date, minute) = IF Cardinality(matches) = 1 THEN matches ELSE {} BY DEF WallInstant
<1> HIDE DEF guess
<1>4. \A x : x \in matches <=> Whole(x) /\ Wall(zone, x) = Wall(zone, at)
  <2> SUFFICES ASSUME NEW x PROVE x \in matches <=> Whole(x) /\ Wall(zone, x) = Wall(zone, at)
    OBVIOUS
  <2>1. ASSUME x \in matches PROVE Whole(x) /\ Wall(zone, x) = Wall(zone, at)
    <3>1. PICK k \in -Reach..Reach : x = guess + Minutes(k) BY <2>1
    <3>2. k \in Int BY <1>0
    <3>3. Whole(x) BY <3>1, <3>2, <1>0, <1>1, WholeSums
    <3> QED BY <3>3, <2>1, WallIs
  <2>2. ASSUME Whole(x), Wall(zone, x) = Wall(zone, at) PROVE x \in matches
    <3>1. DateOf(zone, x) = date /\ MinuteOf(zone, x) = minute BY <2>2, WallIs
    <3>2. Wall(zone, x) = Minutes(date * DayMinutes + minute) BY <2>2, <3>1, ClockIs
    <3>3. PICK k \in -Reach..Reach : Offset(zone, g) - Offset(zone, x) = Minutes(k)
      <4>1. x \in Int BY <2>2, <1>0, WholeSums
      <4> QED BY <4>1, <1>0, OffsetsDiffer
    <3>4. Wall(zone, x) = x + Offset(zone, x) /\ Offset(zone, x) \in Int /\ Offset(zone, g) \in Int /\ x \in Int
      <4>1. x \in Int BY <2>2, <1>0, WholeSums
      <4> QED BY <4>1, <1>0, OffsetIs
    <3>5. x = guess + (Offset(zone, g) - Offset(zone, x)) BY <3>2, <3>4, <1>2, <1>1
    <3>6. x \in near BY <3>3, <3>5
    <3> QED BY <3>1, <3>6
  <2> QED BY <2>1, <2>2
<1>5. IsFiniteSet(matches)
  <2>1. IsFiniteSet(-Reach..Reach)
    <3>1. -Reach \in Int /\ Reach \in Int BY <1>0
    <3> QED BY <3>1, FS_Interval
  <2> DEFINE f == [k \in -Reach..Reach |-> guess + Minutes(k)]
  <2>2. near = {f[k] : k \in -Reach..Reach} OBVIOUS
  <2> HIDE DEF f
  <2>3. IsFiniteSet(near) BY <2>1, <2>2, ImageFinite
  <2> HIDE DEF near
  <2> QED BY <2>3, FS_Subset
<1> HIDE DEF matches
<1>6. at \in matches BY <1>0, <1>4
<1>7. Cardinality(matches) = 1 <=> matches = {at}
  <2>1. Cardinality(matches) = 1 <=> \E x : matches = {x} BY <1>5, FS_Singleton
  <2> QED BY <2>1, <1>6
<1>8. matches = {at} <=> Single(zone, at) BY <1>4, <1>6 DEF Single
<1>9. WallInstant(zone, date, minute) = {at} <=> matches = {at} BY <1>3, <1>7
<1> QED BY <1>8, <1>9

\* and what it finds shows the wall time.
LEMMA InstantShows ==
  ASSUME Scaled, NEW zone, RealZone(zone), NEW date \in Int, NEW at, NEW minute \in Int, WallInstant(zone, date, minute) = {at}
  PROVE DateOf(zone, at) = date /\ MinuteOf(zone, at) = minute
<1> DEFINE guess == InZone(zone, date, minute)
           matches == {x \in {guess + Minutes(k) : k \in -Reach..Reach} : DateOf(zone, x) = date /\ MinuteOf(zone, x) = minute}
<1>1. WallInstant(zone, date, minute) = IF Cardinality(matches) = 1 THEN matches ELSE {} BY DEF WallInstant
<1>2. at \in matches BY <1>1
<1> QED BY <1>2

\* The offset does not change between two instants with the same.
LEMMA SteadyOffset ==
  ASSUME Sized, NEW zone, RealZone(zone), NEW a \in Int, NEW b \in Int, Offset(zone, a) = Offset(zone, b),
         NEW x \in Int, a <= x, x <= b
  PROVE Offset(zone, x) = Offset(zone, a)
BY OffsetIs DEF RealZone

\* A start is certain when the wall times of start and end are shown once, on the date, by a clock that did not jump.
LEMMA CertainIs ==
  ASSUME Scaled, NEW v, RealSettings(v), NEW zone, RealZone(zone), NEW date \in Int, NEW start, Whole(start)
  PROVE Certain(v, zone, date, start) <=>
          /\ Single(zone, start) /\ Single(zone, start + Minutes(v.slot))
          /\ DateOf(zone, start) = date /\ DateOf(zone, start + Minutes(v.slot)) = date
          /\ Offset(zone, start) = Offset(zone, start + Minutes(v.slot))
<1> DEFINE end == start + Minutes(v.slot)
           m == MinuteOf(zone, start)
           n == MinuteOf(zone, end)
<1>0. Sized /\ v.slot \in Int /\ Minutes(v.slot) \in Int /\ start \in Int
  <2>1. Sized /\ v.slot \in Int BY DEF Scaled, RealSettings
  <2> QED BY <2>1, MinutesAre, WholeSums
<1>1. Whole(end) /\ end \in Int BY <1>0, WholeSums
<1> HIDE DEF end
<1>2. m \in Int /\ n \in Int
  <2>1. m \in 0..(DayMinutes - 1) /\ n \in 0..(DayMinutes - 1) BY <1>1, ClockIs
  <2> QED BY <2>1 DEF Scaled
<1>3. Certain(v, zone, date, start) <=>
        WallInstant(zone, date, m) = {start} /\ WallInstant(zone, date, n) = {end} /\ n - m = v.slot
  BY DEF Certain, end
<1> HIDE DEF m, n
<1>4. WallInstant(zone, date, m) = {start} <=> DateOf(zone, start) = date /\ Single(zone, start)
  BY <1>2, InstantsAre, InstantShows DEF m
<1>5. WallInstant(zone, date, n) = {end} <=> DateOf(zone, end) = date /\ Single(zone, end)
  BY <1>1, <1>2, InstantsAre, InstantShows DEF n
<1>6. ASSUME DateOf(zone, start) = date, DateOf(zone, end) = date PROVE n - m = v.slot <=> Offset(zone, start) = Offset(zone, end)
  <2>1. Wall(zone, end) - Wall(zone, start) = Minutes(n - m) BY <1>1, <1>6, SameClock DEF m, n
  <2>2. /\ Wall(zone, end) = end + Offset(zone, end) /\ Wall(zone, start) = start + Offset(zone, start)
        /\ Offset(zone, end) \in Int /\ Offset(zone, start) \in Int
    BY <1>0, <1>1, OffsetIs
  <2>3. end - start = Minutes(v.slot) BY <1>0 DEF end
  <2>4. n - m \in Int /\ Minutes(n - m) \in Int BY <1>0, <1>2, MinutesAre
  <2>5. n - m = v.slot <=> Minutes(n - m) = Minutes(v.slot)
    <3> DEFINE d == n - m
    <3> HIDE DEF d
    <3>1. d \in Int BY <2>4 DEF d
    <3>2. d < v.slot <=> Minutes(d) < Minutes(v.slot) BY <3>1, <1>0, MinutesAre
    <3>3. v.slot < d <=> Minutes(v.slot) < Minutes(d) BY <3>1, <1>0, MinutesAre
    <3>4. Minutes(d) \in Int BY <2>4 DEF d
    <3>5. d = v.slot <=> Minutes(d) = Minutes(v.slot) BY <3>1, <3>2, <3>3, <3>4, <1>0
    <3> QED BY <3>5 DEF d
  <2>6. Minutes(n - m) = Minutes(v.slot) <=> Offset(zone, start) = Offset(zone, end) BY <2>1, <2>2, <2>3, <2>4, <1>0, <1>1
  <2> QED BY <2>5, <2>6
<1> QED BY <1>3, <1>4, <1>5, <1>6 DEF end

-----------------------------------------------------------------------------
(* What is protected: the calendars and blocked time                       *)

\* Spans that protect the calendars' events with their buffers, and hold nothing else.
Kept(kept, v, external, business) ==
  /\ kept \in SpanSets
  /\ Proper(kept)
  /\ \A b \in external : \E c \in kept : c[1] <= b[1] - Minutes(v.external) /\ b[2] + Minutes(v.external) <= c[2]
  /\ \A b \in business : \E c \in kept : c[1] <= b[1] - Minutes(v.buffer) /\ b[2] <= c[2]
  /\ \A c \in kept : \A x \in Int : c[1] <= x /\ x < c[2] =>
       \/ \E b \in external : b[1] - Minutes(v.external) <= x /\ x < b[2] + Minutes(v.external)
       \/ \E b \in business : b[1] - Minutes(v.buffer) <= x /\ x < b[2]

\* A list of which every span is changed,
LEMMA Shifted ==
  ASSUME NEW S \in SpanSets, NEW f, \A b \in S : f[b] \in Spans
  PROVE {f[b] : b \in S} \in SpanSets
<1>1. IsFiniteSet(S) BY SpanSetFacts
<1>2. IsFiniteSet({f[b] : b \in S}) BY <1>1, ImageFinite
<1> QED BY <1>2 DEF SpanSets

\* and two lists together.
LEMMA SpanUnion ==
  ASSUME NEW S \in SpanSets, NEW T \in SpanSets
  PROVE S \cup T \in SpanSets
BY FS_Union DEF SpanSets

\* calendarProtection protects them (bookings.go, 246-256).
LEMMA ProtectionIs ==
  ASSUME Sized, NEW v, v.external \in Nat, v.buffer \in Nat,
         NEW external \in SpanSets, NEW business \in SpanSets, Proper(external), Proper(business)
  PROVE Kept(CalendarProtection(v, external, business), v, external, business)
<1> DEFINE X == Minutes(v.external)
           B == Minutes(v.buffer)
           f == [b \in external |-> <<b[1] - X, b[2] + X>>]
           g == [b \in business |-> <<b[1] - B, b[2]>>]
           E == {f[b] : b \in external}
           G == {g[b] : b \in business}
           P == E \cup G
           C == CalendarProtection(v, external, business)
<1>0. X \in Int /\ 0 <= X /\ B \in Int /\ 0 <= B BY NatMinutes
<1>1. \A b \in external : b[1] \in Int /\ b[2] \in Int /\ b[1] < b[2] BY SpanSetFacts, SpanParts DEF Proper
<1>2. \A b \in business : b[1] \in Int /\ b[2] \in Int /\ b[1] < b[2] BY SpanSetFacts, SpanParts DEF Proper
<1>3. C = MergeBusy(P)
  <2>1. E = {<<b[1] - X, b[2] + X>> : b \in external} /\ G = {<<b[1] - B, b[2]>> : b \in business} OBVIOUS
  <2> HIDE DEF E, G
  <2> QED BY <2>1 DEF CalendarProtection
<1>4. \A b \in external : f[b] = <<b[1] - X, b[2] + X>> OBVIOUS
<1>5. \A b \in business : g[b] = <<b[1] - B, b[2]>> OBVIOUS
<1> HIDE DEF X, B, f, g
<1>p. \A i, j \in Int : <<i, j>> \in Spans /\ <<i, j>>[1] = i /\ <<i, j>>[2] = j BY SpanParts
<1>6. \A b \in external : f[b] \in Spans /\ f[b][1] = b[1] - X /\ f[b][2] = b[2] + X /\ f[b][1] < f[b][2]
  <2> SUFFICES ASSUME NEW b \in external
               PROVE f[b] \in Spans /\ f[b][1] = b[1] - X /\ f[b][2] = b[2] + X /\ f[b][1] < f[b][2]
    OBVIOUS
  <2> DEFINE i == b[1] - X
             j == b[2] + X
  <2>1. i \in Int /\ j \in Int /\ i < j BY <1>0, <1>1
  <2>2. f[b] = <<i, j>> BY <1>4
  <2> HIDE DEF i, j
  <2>3. f[b] \in Spans /\ f[b][1] = i /\ f[b][2] = j BY <2>1, <2>2, <1>p
  <2> QED BY <2>1, <2>3 DEF i, j
<1>7. \A b \in business : g[b] \in Spans /\ g[b][1] = b[1] - B /\ g[b][2] = b[2] /\ g[b][1] < g[b][2]
  <2> SUFFICES ASSUME NEW b \in business
               PROVE g[b] \in Spans /\ g[b][1] = b[1] - B /\ g[b][2] = b[2] /\ g[b][1] < g[b][2]
    OBVIOUS
  <2> DEFINE i == b[1] - B
             j == b[2]
  <2>1. i \in Int /\ j \in Int /\ i < j BY <1>0, <1>2
  <2>2. g[b] = <<i, j>> BY <1>5
  <2> HIDE DEF i, j
  <2>3. g[b] \in Spans /\ g[b][1] = i /\ g[b][2] = j BY <2>1, <2>2, <1>p
  <2> QED BY <2>1, <2>3 DEF i, j
<1>8. E \in SpanSets /\ G \in SpanSets BY <1>6, <1>7, Shifted
<1>9. P \in SpanSets BY <1>8, SpanUnion
<1>e. /\ \A b \in external : f[b] \in P
      /\ \A b \in business : g[b] \in P
      /\ \A p \in P : (\E b \in external : p = f[b]) \/ (\E b \in business : p = g[b])
  OBVIOUS
<1> HIDE DEF P, C
<1>10. Merged(C, P) BY <1>3, <1>9, MergeBusyMerges
<1>11. C \in SpanSets /\ Proper(C) /\ CoversAll(C, P) /\ Filled(C, P) BY <1>10 DEF Merged
<1>12. \A b \in external : \E c \in C : c[1] <= b[1] - X /\ b[2] + X <= c[2]
  <2> SUFFICES ASSUME NEW b \in external PROVE \E c \in C : c[1] <= b[1] - X /\ b[2] + X <= c[2]
    OBVIOUS
  <2>1. \E c \in C : c[1] <= f[b][1] /\ f[b][2] <= c[2] BY <1>e, <1>6, <1>11 DEF CoversAll
  <2> QED BY <2>1, <1>6
<1>13. \A b \in business : \E c \in C : c[1] <= b[1] - B /\ b[2] <= c[2]
  <2> SUFFICES ASSUME NEW b \in business PROVE \E c \in C : c[1] <= b[1] - B /\ b[2] <= c[2]
    OBVIOUS
  <2>1. \E c \in C : c[1] <= g[b][1] /\ g[b][2] <= c[2] BY <1>e, <1>7, <1>11 DEF CoversAll
  <2> QED BY <2>1, <1>7
<1>14. \A c \in C : \A x \in Int : c[1] <= x /\ x < c[2] =>
         \/ \E b \in external : b[1] - X <= x /\ x < b[2] + X
         \/ \E b \in business : b[1] - B <= x /\ x < b[2]
  <2> SUFFICES ASSUME NEW c \in C, NEW x \in Int, c[1] <= x, x < c[2]
               PROVE \/ \E b \in external : b[1] - X <= x /\ x < b[2] + X
                     \/ \E b \in business : b[1] - B <= x /\ x < b[2]
    OBVIOUS
  <2>1. PICK p \in P : p[1] <= x /\ x < p[2] BY <1>11 DEF Filled
  <2>2. CASE \E b \in external : p = f[b] BY <2>1, <2>2, <1>6
  <2>3. CASE \E b \in business : p = g[b] BY <2>1, <2>3, <1>7
  <2> QED BY <2>2, <2>3, <1>e
<1> QED BY <1>11, <1>12, <1>13, <1>14 DEF Kept, C, X, B

\* Spans that protect blocked time too, between two instants.
Guarded(guarded, kept, v, zone, from, to) ==
  /\ guarded \in SpanSets
  /\ Proper(guarded)
  /\ \A c \in kept : \E d \in guarded : d[1] <= c[1] /\ c[2] <= d[2]
  /\ \A at : Whole(at) /\ from <= at /\ at < to /\ Blocked(v, zone, at) => \E d \in guarded : Buffered(d, v, at)
  /\ \A d \in guarded : \A x \in Int : d[1] <= x /\ x < d[2] =>
       \/ \E c \in kept : c[1] <= x /\ x < c[2]
       \/ \E t \in Spans : Tight(t, v, zone) /\ t[1] <= x /\ x < t[2]

\* Merged with the blocked intervals they do.
LEMMA ProtectedIs ==
  ASSUME Sized, NEW v, v.buffer \in Nat, NEW zone, NEW from \in Int, NEW to \in Int, NEW kept \in SpanSets, Proper(kept)
  PROVE Guarded(MergeBusy(kept \cup BlockedIntervals(v, zone, from, to)), kept, v, zone, from, to)
<1> DEFINE I == BlockedIntervals(v, zone, from, to)
           P == kept \cup I
           D == MergeBusy(P)
           grid == Grid(from - (from % Minute), to)
<1>1. /\ I \in SpanSets /\ Proper(I) /\ \A b \in I : Tight(b, v, zone)
      /\ \A at \in grid : Blocked(v, zone, at) => \E b \in I : Buffered(b, v, at)
  BY BlockedIntervalsBlock
<1> HIDE DEF I
<1>2. P \in SpanSets BY <1>1, SpanUnion
<1>e. kept \subseteq P /\ I \subseteq P /\ \A p \in P : p \in kept \/ p \in I OBVIOUS
<1>3. I \subseteq Spans /\ kept \subseteq Spans BY <1>1, SpanSetFacts
<1> HIDE DEF P
<1>4. Merged(D, P) BY <1>2, MergeBusyMerges
<1> HIDE DEF D
<1>5. D \in SpanSets /\ Proper(D) /\ CoversAll(D, P) /\ Filled(D, P) BY <1>4 DEF Merged
<1>s. D \subseteq Spans BY <1>5, SpanSetFacts
<1>6. \A c \in kept : \E d \in D : d[1] <= c[1] /\ c[2] <= d[2] BY <1>e, <1>5 DEF CoversAll, Proper
<1>7. \A at : Whole(at) /\ from <= at /\ at < to /\ Blocked(v, zone, at) => \E d \in D : Buffered(d, v, at)
  <2> SUFFICES ASSUME NEW at, Whole(at), from <= at, at < to, Blocked(v, zone, at) PROVE \E d \in D : Buffered(d, v, at)
    OBVIOUS
  <2>1. at \in grid
    <3> DEFINE g == from - (from % Minute)
    <3>1. Whole(g) /\ g \in Int /\ g <= from
      <4>1. from % Minute \in 0..(Minute - 1) /\ Whole(g) BY WholeIs
      <4>2. g \in Int BY <4>1, WholeSums
      <4>3. from % Minute \in Int /\ 0 <= from % Minute BY <4>1, MinuteIs
      <4> QED BY <4>1, <4>2, <4>3
    <3> HIDE DEF g
    <3>2. at \in Int /\ Whole(at - g) BY <3>1, WholeSums
    <3>3. g <= at BY <3>1, <3>2
    <3>4. at \in Grid(g, to) BY <3>1, <3>2, <3>3, GridIs
    <3> QED BY <3>4 DEF g
  <2>2. PICK b \in I : Buffered(b, v, at) BY <2>1, <1>1
  <2>3. b[1] < b[2] /\ b \in P BY <1>1, <1>e DEF Proper
  <2>4. PICK d \in D : d[1] <= b[1] /\ b[2] <= d[2] BY <2>3, <1>5 DEF CoversAll
  <2>5. b[1] \in Int /\ b[2] \in Int /\ d[1] \in Int /\ d[2] \in Int BY <1>3, <1>s, SpanParts
  <2>6. Minutes(v.buffer) \in Int /\ at \in Int /\ Minute \in Int BY NatMinutes, WholeSums, MinuteIs
  <2>7. b[1] <= at - Minutes(v.buffer) /\ at + Minute <= b[2] BY <2>2 DEF Buffered
  <2>8. d[1] <= at - Minutes(v.buffer) BY <2>4, <2>5, <2>6, <2>7
  <2>9. at + Minute <= d[2] BY <2>4, <2>5, <2>6, <2>7
  <2> QED BY <2>8, <2>9 DEF Buffered
<1>8. \A d \in D : \A x \in Int : d[1] <= x /\ x < d[2] =>
        \/ \E c \in kept : c[1] <= x /\ x < c[2]
        \/ \E t \in Spans : Tight(t, v, zone) /\ t[1] <= x /\ x < t[2]
  <2> SUFFICES ASSUME NEW d \in D, NEW x \in Int, d[1] <= x, x < d[2]
               PROVE \/ \E c \in kept : c[1] <= x /\ x < c[2]
                     \/ \E t \in Spans : Tight(t, v, zone) /\ t[1] <= x /\ x < t[2]
    OBVIOUS
  <2>1. PICK p \in P : p[1] <= x /\ x < p[2] BY <1>5 DEF Filled
  <2>2. CASE p \in kept BY <2>1, <2>2
  <2>3. CASE p \in I BY <2>1, <2>3, <1>1, <1>3
  <2> QED BY <2>2, <2>3, <1>e
<1> QED BY <1>5, <1>6, <1>7, <1>8 DEF Guarded, D, P, I

-----------------------------------------------------------------------------
(* The starts that are tried                                               *)

\* The starts that are tried in a free interval are rungs of a ladder (312-318),
Rung(v, base, k) == base + Minutes(k * (v.slot + v.buffer))
\* which ends where a slot would not be free any more,
Ladder(starts, v, base, free) ==
  /\ \A s \in starts : \E k \in Nat : s = Rung(v, base, k) /\ s + Minutes(v.slot) <= free[2]
  /\ \A k \in 0..DayMinutes : Rung(v, base, k) + Minutes(v.slot) <= free[2] => Rung(v, base, k) \in starts
\* and begins at the first minute of the interval that is late enough.
BaseOf(free, notBefore) == Later(CeilMinute(free[1]), notBefore)

\* They are.
LEMMA StartsAre ==
  ASSUME Scaled, NEW v, RealSettings(v), NEW free \in Spans, NEW notBefore, Whole(notBefore)
  PROVE /\ Whole(BaseOf(free, notBefore)) /\ BaseOf(free, notBefore) \in Int
        /\ free[1] <= BaseOf(free, notBefore) /\ notBefore <= BaseOf(free, notBefore)
        /\ \A a : Whole(a) /\ free[1] <= a /\ notBefore <= a => BaseOf(free, notBefore) <= a
        /\ Ladder(Starts(v, free, notBefore), v, BaseOf(free, notBefore), free)
<1> DEFINE ceil == CeilMinute(free[1])
           base == BaseOf(free, notBefore)
           n == v.slot + v.buffer
<1>0. Sized /\ Minute \in Int /\ 0 < Minute /\ notBefore \in Int /\ free[1] \in Int /\ free[2] \in Int /\ n \in Nat /\ DayMinutes \in Nat
  <2>1. Sized BY DEF Scaled
  <2>2. Minute \in Int /\ 0 < Minute BY <2>1, MinuteIs
  <2>3. notBefore \in Int BY <2>1, WholeSums
  <2>4. free[1] \in Int /\ free[2] \in Int BY SpanParts
  <2>5. n \in Nat /\ DayMinutes \in Nat BY DEF Scaled, RealSettings
  <2> QED BY <2>1, <2>2, <2>3, <2>4, <2>5
<1>1. Whole(ceil) /\ ceil \in Int /\ free[1] <= ceil /\ ceil < free[1] + Minute BY <1>0, CeilIs
<1>2. base = Later(ceil, notBefore) BY DEF BaseOf
<1> HIDE DEF ceil, base
<1>3. base \in Int /\ ceil <= base /\ notBefore <= base /\ (base = ceil \/ base = notBefore) BY <1>0, <1>1, <1>2, LaterIs
<1>4. Whole(base) /\ free[1] <= base BY <1>0, <1>1, <1>3
<1>5. ASSUME NEW a, Whole(a), free[1] <= a, notBefore <= a PROVE base <= a
  <2>0. a \in Int BY <1>0, <1>5, WholeSums
  <2>1. ceil <= a
    <3> SUFFICES ASSUME a < ceil PROVE FALSE
      BY <2>0, <1>1
    <3>1. a + Minute <= ceil BY <1>0, <1>1, <1>5, WholeSums
    <3> QED BY <3>1, <2>0, <1>0, <1>1, <1>5
  <2> QED BY <2>1, <1>3, <1>5
<1>6. \A k \in Nat : k * Minutes(n) = Minutes(k * n)
  <2> SUFFICES ASSUME NEW k \in Nat PROVE k * (n * Minute) = (k * n) * Minute
    BY DEF Minutes
  <2> HIDE DEF n
  <2> QED BY <1>0
<1>7. Starts(v, free, notBefore) = {start \in {base + k * Minutes(n) : k \in 0..DayMinutes} : start + Minutes(v.slot) <= free[2]}
  BY <1>2 DEF Starts, ceil
<1>8. \A k \in 0..DayMinutes : k \in Nat /\ base + k * Minutes(n) = Rung(v, base, k)
  <2> SUFFICES ASSUME NEW k \in 0..DayMinutes PROVE k \in Nat /\ base + k * Minutes(n) = Rung(v, base, k)
    OBVIOUS
  <2>1. k \in Nat BY <1>0
  <2> QED BY <2>1, <1>6 DEF Rung
<1> HIDE DEF n
<1>9. Ladder(Starts(v, free, notBefore), v, base, free) BY <1>7, <1>8 DEF Ladder
<1> QED BY <1>3, <1>4, <1>5, <1>9 DEF base

\* A slot and its buffer fit between two rungs.
LEMMA RungIs ==
  ASSUME Scaled, NEW v, RealSettings(v), NEW base, Whole(base), NEW k \in Nat
  PROVE /\ Whole(Rung(v, base, k)) /\ Rung(v, base, k) \in Int /\ base <= Rung(v, base, k)
        /\ \A j \in Nat : k < j => Rung(v, base, k) + Minutes(v.slot) + Minutes(v.buffer) <= Rung(v, base, j)
<1> DEFINE n == v.slot + v.buffer
<1>0. Sized /\ v.slot \in Int /\ v.buffer \in Int /\ n \in Nat /\ base \in Int
  <2>1. Sized BY DEF Scaled
  <2>2. base \in Int BY <2>1, WholeSums
  <2> QED BY <2>1, <2>2 DEF RealSettings
<1>n. Minutes(n) = Minutes(v.slot) + Minutes(v.buffer) /\ Minutes(v.slot) \in Int /\ Minutes(v.buffer) \in Int BY <1>0, MinutesAre
<1>1. \A j \in Nat : Rung(v, base, j) = base + Minutes(j * n) BY DEF Rung
<1> HIDE DEF n
<1>2. \A j \in Nat : j * n \in Int /\ 0 <= j * n BY <1>0
<1>3. k * n \in Int /\ Minutes(k * n) \in Int /\ 0 <= Minutes(k * n)
  <2>1. k * n \in Nat BY <1>0
  <2> QED BY <2>1, <1>0, NatMinutes
<1>4. Whole(Minutes(k * n)) BY <1>0, <1>3, WholeSums
<1>5. Whole(Rung(v, base, k)) /\ Rung(v, base, k) \in Int /\ base <= Rung(v, base, k)
  <2>1. Whole(base + Minutes(k * n)) BY <1>0, <1>4, WholeSums
  <2> QED BY <2>1, <1>0, <1>1, <1>3
<1>6. ASSUME NEW j \in Nat, k < j PROVE Rung(v, base, k) + Minutes(v.slot) + Minutes(v.buffer) <= Rung(v, base, j)
  <2>1. k * n + n <= j * n
    <3>1. k + 1 <= j /\ k + 1 \in Nat BY <1>6
    <3>2. (k + 1) * n <= j * n BY <3>1, <1>0
    <3>3. (k + 1) * n = k * n + n BY <1>0
    <3> QED BY <3>2, <3>3
  <2>2. j * n \in Int /\ k * n + n \in Int /\ n \in Int BY <1>0, <1>2
  <2>3. Minutes(k * n + n) <= Minutes(j * n) BY <2>1, <2>2, <1>0, MinutesAre
  <2>4. Minutes(k * n + n) = Minutes(k * n) + Minutes(n) BY <2>2, <1>0, <1>3, MinutesAre
  <2>5. Minutes(j * n) \in Int BY <2>2, <1>0, MinutesAre
  <2> QED BY <2>3, <2>4, <2>5, <1>0, <1>1, <1>3, <1>n
<1> QED BY <1>5, <1>6

\* The first and the last window of a day are the ends of it.
LEMMA EdgesAre ==
  ASSUME NEW W \in SpanSets, W # {}, Proper(W), \A w, x \in W : w = x \/ Off(w, x)
  PROVE LET first == CHOOSE w \in W : \A x \in W : w[1] <= x[1]
            last == CHOOSE w \in W : \A x \in W : x[1] <= w[1]
        IN /\ first \in W /\ last \in W
           /\ \A w \in W : first[1] <= w[1] /\ w[2] <= last[2]
<1> DEFINE first == CHOOSE w \in W : \A x \in W : w[1] <= x[1]
           last == CHOOSE w \in W : \A x \in W : x[1] <= w[1]
           R == {p \in W \X W : p[2][1] <= p[1][1]}
<1>1. IsFiniteSet(W) /\ W \subseteq Spans BY SpanSetFacts
<1>2. \A w \in W : w[1] \in Int /\ w[2] \in Int /\ w[1] < w[2] BY <1>1, SpanParts DEF Proper
<1>r. \A x, y \in W : <<x, y>> \in R <=> y[1] <= x[1] OBVIOUS
<1>3. \E m \in W : \A x \in W : <<x, m>> \in R
  <2> HIDE DEF R
  <2>i. \A x \in W : x[1] \in Int BY <1>2
  <2>1. ASSUME NEW x \in W, NEW y \in W PROVE <<x, y>> \in R \/ <<y, x>> \in R
    <3>1. y[1] <= x[1] \/ x[1] <= y[1] BY <2>i
    <3> QED BY <3>1, <1>r
  <2>2. ASSUME NEW x \in W, NEW y \in W, NEW z \in W, <<x, y>> \in R, <<y, z>> \in R PROVE <<x, z>> \in R
    <3>1. y[1] <= x[1] /\ z[1] <= y[1] BY <2>2, <1>r
    <3>2. z[1] <= x[1] BY <3>1, <2>i
    <3> QED BY <3>2, <1>r
  <2> QED BY <2>1, <2>2, <1>1, GreatestExists
<1>4. \E m \in W : \A x \in W : m[1] <= x[1] BY <1>3, <1>r
<1>5. first \in W /\ \A x \in W : first[1] <= x[1]
  BY <1>4
<1>6. \E m \in W : \A x \in W : x[1] <= m[1]
  <2>0. W \in SUBSET Spans /\ IsFiniteSet(W) /\ W # {} BY <1>1
  <2>1. Latest(W) \in W /\ \A x \in W : x[1] <= Latest(W)[1] BY ONLY <2>0, LatestIs
  <2> QED BY <2>1
<1>7. last \in W /\ \A x \in W : x[1] <= last[1]
  BY <1>6
<1> HIDE DEF first, last
<1>8. \A w \in W : w[2] <= last[2]
  <2> SUFFICES ASSUME NEW w \in W PROVE w[2] <= last[2]
    OBVIOUS
  <2>1. CASE w = last BY <2>1, <1>2
  <2>2. CASE w # last
    <3>1. Off(w, last) BY <2>2, <1>7
    <3>2. w[1] <= last[1] BY <1>7
    <3> QED BY <3>1, <3>2, <1>2, <1>7 DEF Off
  <2> QED BY <2>1, <2>2
<1> QED BY <1>5, <1>7, <1>8 DEF first, last

-----------------------------------------------------------------------------
(* What is offered fits                                                    *)

\* The length of a slot.
LEMMA SlotIs ==
  ASSUME Scaled, NEW v, RealSettings(v), NEW s, Whole(s)
  PROVE /\ s \in Int /\ v.slot \in Int /\ 0 < v.slot /\ v.buffer \in Int /\ 0 <= v.buffer
        /\ Minutes(v.slot) \in Int /\ Minute <= Minutes(v.slot) /\ Minutes(v.buffer) \in Int /\ 0 <= Minutes(v.buffer)
        /\ s + Minutes(v.slot) \in Int /\ Whole(s + Minutes(v.slot))
        /\ ((s + Minutes(v.slot)) - s) \div Minute = v.slot
        /\ Minutes(v.slot + v.buffer) = Minutes(v.slot) + Minutes(v.buffer)
<1>0. Sized /\ s \in Int /\ Minute \in Int /\ 0 < Minute
  <2>1. Sized BY DEF Scaled
  <2> QED BY <2>1, MinuteIs, WholeSums
<1>1. v.slot \in Int /\ 0 < v.slot /\ v.buffer \in Int /\ 0 <= v.buffer /\ v.buffer \in Nat BY DEF RealSettings
<1>2. Minutes(v.slot) \in Int /\ Minute <= Minutes(v.slot)
  <2>1. 1 \in Int /\ 1 <= v.slot BY <1>1
  <2>2. Minutes(1) <= Minutes(v.slot) /\ Minutes(1) = Minute BY <2>1, <1>0, <1>1, MinutesAre
  <2> QED BY <2>2, <1>0, <1>1, MinutesAre
<1>3. Minutes(v.buffer) \in Int /\ 0 <= Minutes(v.buffer) BY <1>0, <1>1, NatMinutes
<1>4. s + Minutes(v.slot) \in Int /\ Whole(s + Minutes(v.slot)) BY <1>0, <1>1, <1>2, WholeSums
<1>5. ((s + Minutes(v.slot)) - s) \div Minute = v.slot
  <2>1. (s + Minutes(v.slot)) - s = v.slot * Minute + 0
    <3>1. Minutes(v.slot) = v.slot * Minute BY DEF Minutes
    <3> QED BY <3>1, <1>0, <1>1, <1>2
  <2>2. 0 \in 0..(Minute - 1) /\ Minute \in Nat \ {0} BY <1>0
  <2>3. (v.slot * Minute + 0) \div Minute = v.slot BY <2>2, <1>1, DivIs
  <2> QED BY <2>1, <2>3
<1>6. Minutes(v.slot + v.buffer) = Minutes(v.slot) + Minutes(v.buffer) BY <1>0, <1>1, MinutesAre
<1> QED BY <1>0, <1>1, <1>2, <1>3, <1>4, <1>5, <1>6

\* The minutes of a slot are in it,
LEMMA StepsWithin ==
  ASSUME Sized, NEW s, Whole(s), NEW n \in Int, NEW k \in 0..(n - 1)
  PROVE /\ Whole(s + Minutes(k)) /\ s + Minutes(k) \in Int
        /\ s <= s + Minutes(k) /\ s + Minutes(k) < s + Minutes(n)
<1>1. s \in Int /\ k \in Int /\ 0 \in Int /\ 0 <= k /\ k < n BY WholeSums
<1>2. Minutes(k) \in Int /\ Minutes(n) \in Int /\ 0 <= Minutes(k) /\ Minutes(k) < Minutes(n)
  <2>1. Minutes(0) = 0 /\ Minutes(0) <= Minutes(k) BY <1>1, MinutesAre
  <2>2. Minutes(k) < Minutes(n) BY <1>1, MinutesAre
  <2> QED BY <2>1, <2>2, <1>1, MinutesAre
<1>3. Whole(s + Minutes(k)) BY <1>1, WholeSums
<1> QED BY <1>1, <1>2, <1>3

\* and every minute in it is one of them.
LEMMA StepsReach ==
  ASSUME Sized, NEW s, Whole(s), NEW n \in Int, NEW x, Whole(x), s <= x, x < s + Minutes(n)
  PROVE \E k \in 0..(n - 1) : x = s + Minutes(k)
<1>1. s \in Int /\ x \in Int /\ Whole(x - s) BY WholeSums
<1>2. PICK k \in Int : x - s = Minutes(k) BY <1>1 DEF Whole
<1>3. Minutes(k) \in Int /\ Minutes(n) \in Int /\ x = s + Minutes(k) BY <1>1, <1>2, MinutesAre
<1>4. 0 <= Minutes(k) /\ Minutes(k) < Minutes(n) BY <1>1, <1>3
<1>5. 0 <= k
  <2>1. 0 \in Int /\ Minutes(0) = 0 BY MinutesAre
  <2> QED BY <2>1, <1>4, MinutesAre
<1>6. k < n BY <1>4, MinutesAre
<1>7. k \in 0..(n - 1) BY <1>5, <1>6
<1> QED BY <1>3, <1>7

\* In a slot inside a window the owner is working,
LEMMA WorkedIsWorking ==
  ASSUME Scaled, NEW v, RealSettings(v), NEW zone, RealZone(zone), NEW date \in Int, NEW p \in PeriodsOn(v, date),
         NEW w \in Spans, Worked(w, zone, DayWalk(zone, date), p), NEW s, Whole(s), w[1] <= s, s + Minutes(v.slot) <= w[2]
  PROVE Working(v, zone, date, s, s + Minutes(v.slot))
<1> DEFINE e == s + Minutes(v.slot)
           walk == DayWalk(zone, date)
<1>0. Sized /\ s \in Int /\ v.slot \in Int /\ e \in Int /\ (e - s) \div Minute = v.slot
  <2>1. Sized BY DEF Scaled
  <2> QED BY <2>1, SlotIs
<1>w. w[1] \in Int /\ w[2] \in Int BY SpanParts
<1>1. ASSUME NEW k \in 0..(v.slot - 1)
      PROVE /\ DateOf(zone, s + Minutes(k)) = date
            /\ p[1] <= MinuteOf(zone, s + Minutes(k)) /\ MinuteOf(zone, s + Minutes(k)) < p[2]
            /\ \A j \in -Reach..Reach : j # 0 => Wall(zone, s + Minutes(k)) # Wall(zone, s + Minutes(k + j))
  <2> DEFINE at == s + Minutes(k)
  <2>1. Whole(at) /\ at \in Int /\ s <= at /\ at < e BY <1>0, StepsWithin
  <2>k. k \in Int BY <1>0
  <2> HIDE DEF at, e
  <2>2. w[1] <= at /\ at < w[2] BY <2>1, <1>0, <1>w DEF e
  <2>3. at \in walk /\ Valid(zone, walk, p, at) BY <2>1, <2>2 DEF Worked
  <2>4. DateOf(zone, at) = date BY <2>3, WalkIs
  <2>5. Single(zone, at) BY <2>3, OnceIs DEF Valid
  <2>6. \A j \in -Reach..Reach : j # 0 => Wall(zone, at) # Wall(zone, at + Minutes(j)) BY <2>1, <2>5, AloneIs
  <2>7. \A j \in -Reach..Reach : at + Minutes(j) = s + Minutes(k + j)
    <3> SUFFICES ASSUME NEW j \in -Reach..Reach PROVE at + Minutes(j) = s + Minutes(k + j)
      OBVIOUS
    <3>1. j \in Int BY DEF Scaled
    <3>2. Minutes(k + j) = Minutes(k) + Minutes(j) /\ Minutes(k) \in Int /\ Minutes(j) \in Int BY <3>1, <2>k, <1>0, MinutesAre
    <3> QED BY <3>2, <1>0 DEF at
  <2> QED BY <2>3, <2>4, <2>6, <2>7 DEF Valid, at
<1>2. (e - s) \div Minute - 1 = v.slot - 1 BY <1>0
<1> QED BY <1>1, <1>2 DEF Working

\* in one inside a free interval no minute is blocked,
LEMMA FreeIsClear ==
  ASSUME Scaled, NEW v, RealSettings(v), NEW zone, NEW kept, NEW guarded, NEW from \in Int, NEW to \in Int,
         Guarded(guarded, kept, v, zone, from, to),
         NEW free \in Spans, \A d \in guarded : Off(free, d),
         NEW s, Whole(s), free[1] <= s, s + Minutes(v.slot) <= free[2],
         from <= s, s + Minutes(v.slot) + Minutes(v.buffer) <= to
  PROVE Clear(v, zone, s, s + Minutes(v.slot))
<1> DEFINE e == s + Minutes(v.slot)
           n == v.slot + v.buffer
           B == Minutes(v.buffer)
<1>0. /\ Sized /\ s \in Int /\ v.slot \in Int /\ v.buffer \in Int /\ n \in Int /\ e \in Int /\ (e - s) \div Minute = v.slot
      /\ B \in Int /\ Minutes(v.slot) \in Int /\ Minutes(n) = Minutes(v.slot) + B
  <2>1. Sized BY DEF Scaled
  <2>2. /\ s \in Int /\ v.slot \in Int /\ v.buffer \in Int /\ e \in Int /\ (e - s) \div Minute = v.slot
        /\ B \in Int /\ Minutes(v.slot) \in Int /\ Minutes(n) = Minutes(v.slot) + B
    BY SlotIs
  <2> QED BY <2>1, <2>2
<1>f. free[1] \in Int /\ free[2] \in Int BY SpanParts
<1>m. Minute \in Int /\ 0 < Minute BY <1>0, MinuteIs
<1>1. ASSUME NEW k \in 0..(n - 1), Blocked(v, zone, s + Minutes(k)) PROVE FALSE
  <2> DEFINE at == s + Minutes(k)
  <2>1. Whole(at) /\ at \in Int /\ s <= at /\ at < s + Minutes(n) BY <1>0, StepsWithin
  <2>b. Blocked(v, zone, at) BY <1>1
  <2> HIDE DEF at, e, n, B
  <2>2. from <= at /\ at < to BY <2>1, <1>0 DEF B
  <2>3. PICK d \in guarded : Buffered(d, v, at) BY <2>1, <2>2, <2>b DEF Guarded
  <2>4. d[1] \in Int /\ d[2] \in Int BY SpanSetFacts, SpanParts DEF Guarded
  <2>5. d[1] <= at - B /\ at + Minute <= d[2] BY <2>3 DEF Buffered, B
  <2>6. d[1] < free[2]
    <3>1. at - B < e BY <2>1, <1>0 DEF e
    <3> QED BY <3>1, <2>1, <2>4, <2>5, <1>0, <1>f DEF e
  <2>7. free[1] < d[2] BY <2>1, <2>4, <2>5, <1>0, <1>f, <1>m
  <2>8. Off(free, d) OBVIOUS
  <2> QED BY <2>4, <2>6, <2>7, <2>8, <1>f DEF Off
<1>2. (e - s) \div Minute + v.buffer - 1 = n - 1 BY <1>0
<1> HIDE DEF n
<1> QED BY <1>1, <1>2 DEF Clear

\* and the calendars' events are far enough.
LEMMA FreeIsApart ==
  ASSUME Scaled, NEW v, RealSettings(v), NEW zone, NEW external \in SpanSets, NEW business \in SpanSets,
         NEW kept, NEW guarded, NEW from, NEW to,
         Kept(kept, v, external, business), Guarded(guarded, kept, v, zone, from, to),
         NEW free \in Spans, \A d \in guarded : Off(free, d),
         NEW s, Whole(s), free[1] <= s, s + Minutes(v.slot) <= free[2]
  PROVE /\ Apart(s, s + Minutes(v.slot), external, v.external, v.external)
        /\ Apart(s, s + Minutes(v.slot), business, v.buffer, 0)
        /\ ~Conflicts(<<s, s + Minutes(v.slot)>>, kept)
<1> DEFINE e == s + Minutes(v.slot)
           X == Minutes(v.external)
           B == Minutes(v.buffer)
<1>0. Sized /\ s \in Int /\ e \in Int /\ X \in Int /\ B \in Int /\ Minutes(0) = 0 /\ free[1] \in Int /\ free[2] \in Int
  <2>1. Sized /\ v.external \in Nat /\ v.buffer \in Nat BY DEF Scaled, RealSettings
  <2>2. s \in Int /\ e \in Int BY SlotIs
  <2>3. X \in Int /\ B \in Int BY <2>1, NatMinutes
  <2>4. Minutes(0) = 0 BY <2>1, MinutesAre
  <2> QED BY <2>1, <2>2, <2>3, <2>4, SpanParts
<1>e. e <= free[2] OBVIOUS
<1> HIDE DEF e, X, B
<1>1. ASSUME NEW c \in kept PROVE c[1] \in Int /\ c[2] \in Int /\ (e <= c[1] \/ c[2] <= s)
  <2>1. PICK d \in guarded : d[1] <= c[1] /\ c[2] <= d[2] BY DEF Guarded
  <2>2. d[1] \in Int /\ d[2] \in Int
    <3>1. guarded \in SpanSets BY DEF Guarded
    <3> QED BY <3>1, SpanSetFacts, SpanParts
  <2>3. c[1] \in Int /\ c[2] \in Int
    <3>1. kept \in SpanSets BY DEF Kept
    <3> QED BY <3>1, SpanSetFacts, SpanParts
  <2>4. free[2] <= d[1] \/ d[2] <= free[1] BY DEF Off
  <2> QED BY <2>1, <2>2, <2>3, <2>4, <1>0, <1>e
<1>2. \A b \in external : e + X <= b[1] \/ b[2] + X <= s
  <2> SUFFICES ASSUME NEW b \in external PROVE e + X <= b[1] \/ b[2] + X <= s
    OBVIOUS
  <2>1. PICK c \in kept : c[1] <= b[1] - X /\ b[2] + X <= c[2] BY DEF Kept, X
  <2>2. b[1] \in Int /\ b[2] \in Int BY SpanSetFacts, SpanParts
  <2>3. c[1] \in Int /\ c[2] \in Int /\ (e <= c[1] \/ c[2] <= s) BY <1>1
  <2> QED BY <2>1, <2>2, <2>3, <1>0
<1>3. \A b \in business : e + B <= b[1] \/ b[2] <= s
  <2> SUFFICES ASSUME NEW b \in business PROVE e + B <= b[1] \/ b[2] <= s
    OBVIOUS
  <2>1. PICK c \in kept : c[1] <= b[1] - B /\ b[2] <= c[2] BY DEF Kept, B
  <2>2. b[1] \in Int /\ b[2] \in Int BY SpanSetFacts, SpanParts
  <2>3. c[1] \in Int /\ c[2] \in Int /\ (e <= c[1] \/ c[2] <= s) BY <1>1
  <2> QED BY <2>1, <2>2, <2>3, <1>0
<1>4. Apart(s, e, external, v.external, v.external) BY <1>2 DEF Apart, X
<1>5. Apart(s, e, business, v.buffer, 0)
  <2>1. \A b \in business : b[2] + Minutes(0) = b[2]
    <3>1. \A b \in business : b[2] \in Int BY SpanSetFacts, SpanParts
    <3> QED BY <3>1, <1>0
  <2> QED BY <2>1, <1>3 DEF Apart, B
<1>6. ~Conflicts(<<s, e>>, kept)
  <2> SUFFICES ASSUME NEW c \in kept, s < c[2], e > c[1] PROVE FALSE
    BY DEF Conflicts
  <2> QED BY <1>1, <1>0
<1> QED BY <1>4, <1>5, <1>6 DEF e

-----------------------------------------------------------------------------
(* What fits is in a window                                                *)

\* The clock's next minute, where it does not jump.
LEMMA NextMinute ==
  ASSUME Scaled, NEW zone, RealZone(zone), NEW x, Whole(x), Offset(zone, x + Minute) = Offset(zone, x), MinuteOf(zone, x) + 1 < DayMinutes
  PROVE /\ Whole(x + Minute)
        /\ DateOf(zone, x + Minute) = DateOf(zone, x) /\ MinuteOf(zone, x + Minute) = MinuteOf(zone, x) + 1
<1> DEFINE y == x + Minute
           m == MinuteOf(zone, x)
           n == MinuteOf(zone, y)
           c == DateOf(zone, x)
           d == DateOf(zone, y)
           D == DayMinutes
<1>0. Sized /\ D \in Nat \ {0} /\ x \in Int /\ Minute \in Int /\ Minutes(1) = Minute
  <2>1. Sized /\ D \in Nat \ {0} BY DEF Scaled
  <2> QED BY <2>1, WholeSums, MinuteIs, MinutesAre
<1>1. Whole(y) /\ y \in Int
  <2>1. Whole(Minute) BY <1>0, WholeSums
  <2> QED BY <2>1, <1>0, WholeSums
<1>2. /\ Wall(zone, x) = x + Offset(zone, x) /\ Wall(zone, y) = y + Offset(zone, y)
      /\ Offset(zone, x) \in Int /\ Offset(zone, y) \in Int /\ Offset(zone, y) = Offset(zone, x)
  BY <1>0, <1>1, OffsetIs
<1>3. Wall(zone, y) = Wall(zone, x) + Minute BY <1>0, <1>2
<1>4. c \in Int /\ m \in 0..(D - 1) /\ Wall(zone, x) = Minutes(c * D + m) BY ClockIs
<1>5. d \in Int /\ n \in 0..(D - 1) /\ Wall(zone, y) = Minutes(d * D + n) BY <1>1, ClockIs
<1>l. m + 1 < D OBVIOUS
<1> HIDE DEF y, m, n, c, d, D
<1>6. m \in Int /\ n \in Int /\ m + 1 \in 0..(D - 1) BY <1>0, <1>4, <1>5, <1>l
<1> DEFINE i == c * D + (m + 1)
           j == d * D + n
<1>7. i \in Int /\ j \in Int /\ i = (c * D + m) + 1 /\ c * D + m \in Int BY <1>0, <1>4, <1>5, <1>6
<1> HIDE DEF i, j
<1>8. Minutes(i) = Minutes(j)
  <2>1. Minutes(i) = Minutes(c * D + m) + Minutes(1) BY <1>0, <1>7, MinutesAre
  <2> QED BY <2>1, <1>0, <1>3, <1>4, <1>5 DEF j
<1>9. i = j
  <2>1. ~(i < j) /\ ~(j < i)
    <3>1. Minutes(i) \in Int /\ Minutes(j) \in Int BY <1>0, <1>7, MinutesAre
    <3>2. ~(Minutes(i) < Minutes(j)) /\ ~(Minutes(j) < Minutes(i)) BY <3>1, <1>8
    <3> QED BY <3>2, <1>0, <1>7, MinutesAre
  <2> QED BY <2>1, <1>7
<1>10. i \div D = c /\ i % D = m + 1 BY <1>0, <1>4, <1>6, DivIs DEF i
<1>11. j \div D = d /\ j % D = n BY <1>0, <1>5, <1>6, DivIs DEF j
<1> QED BY <1>1, <1>9, <1>10, <1>11 DEF y, m, n, c, d

\* The minutes of a slot in which the owner is working are valid minutes of one period and follow one another,
LEMMA WorkingMinutes ==
  ASSUME Scaled, NEW v, RealSettings(v), NEW zone, RealZone(zone), NEW date \in Int, NEW s, Whole(s),
         Working(v, zone, date, s, s + Minutes(v.slot)), Unbroken(zone, s, s + Minutes(v.slot))
  PROVE \E p \in PeriodsOn(v, date) :
          \A x : Whole(x) /\ s <= x /\ x < s + Minutes(v.slot) =>
            /\ x \in DayWalk(zone, date) /\ Valid(zone, DayWalk(zone, date), p, x)
            /\ Whole(x + Minute) /\ DateOf(zone, x + Minute) = date /\ MinuteOf(zone, x + Minute) = MinuteOf(zone, x) + 1
<1> DEFINE e == s + Minutes(v.slot)
           walk == DayWalk(zone, date)
<1>0. Sized /\ s \in Int /\ v.slot \in Int /\ e \in Int /\ Whole(e) /\ (e - s) \div Minute = v.slot /\ Minute \in Int /\ 0 < Minute
  <2>1. Sized BY DEF Scaled
  <2> QED BY <2>1, SlotIs, MinuteIs
<1>o. Offset(zone, s) = Offset(zone, e) BY DEF Unbroken
<1>1. (e - s) \div Minute - 1 = v.slot - 1 BY <1>0
<1>2. PICK p \in PeriodsOn(v, date) : \A k \in 0..(v.slot - 1) :
        /\ DateOf(zone, s + Minutes(k)) = date
        /\ p[1] <= MinuteOf(zone, s + Minutes(k)) /\ MinuteOf(zone, s + Minutes(k)) < p[2]
        /\ \A j \in -Reach..Reach : j # 0 => Wall(zone, s + Minutes(k)) # Wall(zone, s + Minutes(k + j))
  BY <1>1 DEF Working
<1>p. p[2] \in Int /\ p[2] < DayMinutes
  <2>1. p[2] \in 0..(DayMinutes - 1) BY PeriodsAre
  <2> QED BY <2>1 DEF Scaled
<1>e. e = s + Minutes(v.slot) OBVIOUS
<1> HIDE DEF e, walk
<1> SUFFICES ASSUME NEW x, Whole(x), s <= x, x < s + Minutes(v.slot)
             PROVE /\ x \in walk /\ Valid(zone, walk, p, x)
                   /\ Whole(x + Minute) /\ DateOf(zone, x + Minute) = date /\ MinuteOf(zone, x + Minute) = MinuteOf(zone, x) + 1
  BY DEF walk
<1>3. PICK k \in 0..(v.slot - 1) : x = s + Minutes(k) BY <1>0, StepsReach
<1>k. k \in Int /\ x \in Int
  <2>1. Sized /\ Whole(x) BY <1>0
  <2>2. x \in Int BY ONLY <2>1, WholeSums
  <2> QED BY <2>2, <1>0
<1>4. \A j \in -Reach..Reach : x + Minutes(j) = s + Minutes(k + j)
  <2> SUFFICES ASSUME NEW j \in -Reach..Reach PROVE x + Minutes(j) = s + Minutes(k + j)
    OBVIOUS
  <2>1. j \in Int BY DEF Scaled
  <2>2. Minutes(k + j) = Minutes(k) + Minutes(j) /\ Minutes(k) \in Int /\ Minutes(j) \in Int BY <2>1, <1>k, <1>0, MinutesAre
  <2> QED BY <2>2, <1>0, <1>3
<1>5. /\ DateOf(zone, x) = date /\ p[1] <= MinuteOf(zone, x) /\ MinuteOf(zone, x) < p[2]
      /\ \A j \in -Reach..Reach : j # 0 => Wall(zone, x) # Wall(zone, s + Minutes(k + j))
  BY <1>2, <1>3
<1>6. Single(zone, x)
  <2>1. \A j \in -Reach..Reach : j # 0 => Wall(zone, x) # Wall(zone, x + Minutes(j)) BY <1>4, <1>5
  <2> QED BY <2>1, AloneIs
<1>7. x \in walk BY <1>5, WalkIs DEF walk
<1>8. Once(zone, walk, x) BY <1>6, <1>7, OnceIs DEF walk
<1>9. Valid(zone, walk, p, x) BY <1>5, <1>8 DEF Valid
<1>10. x + Minute \in Int /\ x + Minute <= e /\ s <= x + Minute
  <2>1. x < e /\ Whole(x) /\ Whole(e) BY <1>e, <1>0
  <2>2. x + Minute <= e BY <2>1, <1>0, WholeSums
  <2>3. s <= x BY <1>0
  <2> QED BY <2>2, <2>3, <1>0, <1>k
<1>11. Offset(zone, x + Minute) = Offset(zone, s) /\ Offset(zone, x) = Offset(zone, s)
  <2>1. x <= e BY <1>10, <1>0, <1>k
  <2>2. Offset(zone, x) = Offset(zone, s) BY <2>1, <1>o, <1>0, <1>k, SteadyOffset
  <2>3. Offset(zone, x + Minute) = Offset(zone, s) BY <1>10, <1>o, <1>0, SteadyOffset
  <2> QED BY <2>2, <2>3
<1>12. MinuteOf(zone, x) + 1 < DayMinutes
  <2>1. MinuteOf(zone, x) \in 0..(DayMinutes - 1) /\ DayMinutes \in Int BY ClockIs DEF Scaled
  <2> QED BY <2>1, <1>5, <1>p
<1>13. Whole(x + Minute) /\ DateOf(zone, x + Minute) = date /\ MinuteOf(zone, x + Minute) = MinuteOf(zone, x) + 1
  BY <1>5, <1>11, <1>12, NextMinute
<1> QED BY <1>7, <1>9, <1>13

\* so a slot that fits is inside one window.
LEMMA WorkingIsWorked ==
  ASSUME Scaled, NEW v, RealSettings(v), NEW zone, RealZone(zone), NEW date \in Int, NEW s, Whole(s),
         NEW W, Hired(W, v, zone, date),
         Working(v, zone, date, s, s + Minutes(v.slot)), Unbroken(zone, s, s + Minutes(v.slot))
  PROVE /\ \E w \in W : w[1] <= s /\ s + Minutes(v.slot) <= w[2]
        /\ DateOf(zone, s + Minutes(v.slot)) = date
        /\ Single(zone, s + Minutes(v.slot))
        /\ Offset(zone, s) = Offset(zone, s + Minutes(v.slot))
<1> DEFINE e == s + Minutes(v.slot)
           walk == DayWalk(zone, date)
<1>0. /\ Sized /\ s \in Int /\ v.slot \in Int /\ e \in Int /\ Whole(e) /\ Minute \in Int /\ 0 < Minute
      /\ s + Minute <= e /\ Whole(Minute)
  <2>1. Sized BY DEF Scaled
  <2>2. /\ s \in Int /\ v.slot \in Int /\ e \in Int /\ Whole(e) /\ Minutes(v.slot) \in Int /\ Minute <= Minutes(v.slot) BY SlotIs
  <2>3. Minute \in Int /\ 0 < Minute /\ Minutes(1) = Minute /\ 1 \in Int BY <2>1, MinuteIs, MinutesAre
  <2>4. Whole(Minute) BY <2>1, <2>3, WholeSums
  <2> QED BY <2>1, <2>2, <2>3, <2>4
<1>1. Offset(zone, s) = Offset(zone, e) /\ Single(zone, e) BY <1>0, AloneIs DEF Unbroken
<1>2. PICK p \in PeriodsOn(v, date) :
        \A x : Whole(x) /\ s <= x /\ x < e =>
            /\ x \in walk /\ Valid(zone, walk, p, x)
            /\ Whole(x + Minute) /\ DateOf(zone, x + Minute) = date /\ MinuteOf(zone, x + Minute) = MinuteOf(zone, x) + 1
  BY WorkingMinutes
<1>e. e = s + Minutes(v.slot) OBVIOUS
<1>3. PICK R \in SUBSET W : Windowed(R, zone, walk, p) BY DEF Hired
<1> HIDE DEF e, walk
<1>4. DateOf(zone, e) = date
  <2> DEFINE x == e - Minute
  <2>0. Whole(x) BY <1>0, WholeSums
  <2>1. Whole(x) /\ s <= x /\ x < e /\ x + Minute = e BY <2>0, <1>0
  <2> HIDE DEF x
  <2> QED BY <2>1, <1>2
<1>5. /\ R \in SpanSets
      /\ \A b \in R : Worked(b, zone, walk, p)
      /\ \A b, c \in R : b = c \/ Off(b, c)
      /\ \A at \in walk : Valid(zone, walk, p, at) => \E b \in R : Holds(b, at)
      /\ \A at \in walk : at + Minute \in walk /\ FollowsOn(zone, walk, p, at) =>
           \E b \in R : Holds(b, at) /\ Holds(b, at + Minute)
  BY <1>3 DEF Windowed
<1>6. s \in walk /\ Valid(zone, walk, p, s)
  <2>1. s <= s /\ s < e BY <1>0
  <2> QED BY <2>1, <1>2
<1>7. PICK b \in R : Holds(b, s) BY <1>5, <1>6
<1>8. \A c \in R : c[1] \in Int /\ c[2] \in Int /\ Whole(c[2]) BY <1>5, SpanSetFacts, SpanParts DEF Worked
<1>9. b[1] <= s /\ s + Minute <= b[2] BY <1>7 DEF Holds
<1>10. e <= b[2]
  <2> SUFFICES ASSUME b[2] < e PROVE FALSE
    BY <1>0, <1>8
  <2> DEFINE x == b[2] - Minute
  <2>0. x = b[2] - Minute /\ x \in Int BY <1>0, <1>8
  <2>1. Whole(x) /\ s <= x /\ x < e /\ x + Minute = b[2]
    <3>1. Whole(x) BY <1>0, <1>8, WholeSums
    <3> QED BY <3>1, <1>0, <1>8, <1>9
  <2> HIDE DEF x
  <2>2. x + Minute < e /\ s <= x + Minute /\ Whole(x + Minute) BY <2>0, <2>1, <1>0, <1>8
  <2>3. /\ x \in walk /\ Valid(zone, walk, p, x) /\ MinuteOf(zone, x + Minute) = MinuteOf(zone, x) + 1
        /\ x + Minute \in walk /\ Valid(zone, walk, p, x + Minute)
    BY <2>1, <2>2, <1>2
  <2>4. FollowsOn(zone, walk, p, x) BY <2>3 DEF FollowsOn
  <2>5. PICK c \in R : Holds(c, x) /\ Holds(c, x + Minute) BY <2>3, <2>4, <1>5
  <2>6. c[1] <= x /\ (x + Minute) + Minute <= c[2] BY <2>5 DEF Holds
  <2>7. c # b /\ c[1] < b[2] /\ b[1] < c[2] BY <2>0, <2>1, <2>6, <1>0, <1>8, <1>9
  <2>8. Off(b, c) BY <2>7, <1>5
  <2> QED BY <2>7, <2>8, <1>8 DEF Off
<1>11. \E w \in W : w[1] <= s /\ e <= w[2] BY <1>9, <1>10
<1> QED BY <1>1, <1>4, <1>11 DEF e

-----------------------------------------------------------------------------
(* What fits is in free time, and a start is tried for it                  *)

\* A slot that fits keeps off all that is protected,
LEMMA FitIsOff ==
  ASSUME Scaled, NEW v, RealSettings(v), NEW zone, NEW external \in SpanSets, NEW business \in SpanSets,
         NEW kept, NEW guarded, NEW from, NEW to,
         Kept(kept, v, external, business), Guarded(guarded, kept, v, zone, from, to),
         NEW s, Whole(s), Clear(v, zone, s, s + Minutes(v.slot)),
         Apart(s, s + Minutes(v.slot), external, v.external, v.external),
         Apart(s, s + Minutes(v.slot), business, v.buffer, 0)
  PROVE \A d \in guarded : Off(<<s, s + Minutes(v.slot)>>, d)
<1> DEFINE e == s + Minutes(v.slot)
           X == Minutes(v.external)
           B == Minutes(v.buffer)
           n == v.slot + v.buffer
<1>0. /\ Sized /\ s \in Int /\ v.slot \in Int /\ v.buffer \in Int /\ n \in Int /\ e \in Int /\ Whole(e) /\ (e - s) \div Minute = v.slot
      /\ B \in Int /\ 0 <= B /\ X \in Int /\ Minutes(v.slot) \in Int /\ Minutes(n) = Minutes(v.slot) + B /\ s < e /\ Minutes(0) = 0
  <2>1. Sized /\ v.external \in Nat BY DEF Scaled, RealSettings
  <2>2. /\ s \in Int /\ v.slot \in Int /\ v.buffer \in Int /\ e \in Int /\ Whole(e) /\ (e - s) \div Minute = v.slot
        /\ B \in Int /\ 0 <= B /\ Minutes(v.slot) \in Int /\ Minute <= Minutes(v.slot) /\ Minutes(n) = Minutes(v.slot) + B
    BY SlotIs
  <2>3. X \in Int /\ Minutes(0) = 0 BY <2>1, NatMinutes, MinutesAre
  <2>4. Minute \in Int /\ 0 < Minute BY <2>1, MinuteIs
  <2>5. s < e BY <2>2, <2>4
  <2> QED BY <2>1, <2>2, <2>3, <2>5
<1>e. e = s + Minutes(v.slot) OBVIOUS
<1>1. \A x : Whole(x) /\ s <= x /\ x < e + B => ~Blocked(v, zone, x)
  <2> SUFFICES ASSUME NEW x, Whole(x), s <= x, x < e + B PROVE ~Blocked(v, zone, x)
    OBVIOUS
  <2>1. (e - s) \div Minute + v.buffer - 1 = n - 1 BY <1>0
  <2> HIDE DEF n
  <2>2. x < s + Minutes(n) BY <1>0
  <2>3. PICK k \in 0..(n - 1) : x = s + Minutes(k) BY <2>2, <1>0, StepsReach
  <2>4. \A j \in 0..(n - 1) : ~Blocked(v, zone, s + Minutes(j)) BY <2>1 DEF Clear
  <2> QED BY <2>3, <2>4
<1>2. \A b \in external : b[1] \in Int /\ b[2] \in Int /\ (e + X <= b[1] \/ b[2] + X <= s)
  BY SpanSetFacts, SpanParts DEF Apart
<1>3. \A b \in business : b[1] \in Int /\ b[2] \in Int /\ (e + B <= b[1] \/ b[2] <= s)
  <2> SUFFICES ASSUME NEW b \in business PROVE b[1] \in Int /\ b[2] \in Int /\ (e + B <= b[1] \/ b[2] <= s)
    OBVIOUS
  <2>1. b[1] \in Int /\ b[2] \in Int BY SpanSetFacts, SpanParts
  <2>2. e + B <= b[1] \/ b[2] + Minutes(0) <= s BY DEF Apart
  <2> QED BY <2>1, <2>2, <1>0
<1> HIDE DEF e, X, B, n
<1> SUFFICES ASSUME NEW d \in guarded, ~Off(<<s, e>>, d) PROVE FALSE
  BY DEF e
<1>4. d[1] \in Int /\ d[2] \in Int /\ d[1] < d[2]
  <2>1. guarded \in SpanSets /\ Proper(guarded) BY DEF Guarded
  <2> QED BY <2>1, SpanSetFacts, SpanParts DEF Proper
<1>5. d[1] < e /\ s < d[2]
  <2>1. <<s, e>>[1] = s /\ <<s, e>>[2] = e OBVIOUS
  <2> QED BY <2>1, <1>0, <1>4 DEF Off
<1> DEFINE x == Later(s, d[1])
<1>6. x \in Int /\ s <= x /\ x < e /\ d[1] <= x /\ x < d[2]
  <2>1. x \in Int /\ s <= x /\ d[1] <= x /\ (x = s \/ x = d[1]) BY <1>0, <1>4, LaterIs
  <2> QED BY <2>1, <1>0, <1>4, <1>5
<1> HIDE DEF x
<1>7. CASE \E c \in kept : c[1] <= x /\ x < c[2]
  <2>1. PICK c \in kept : c[1] <= x /\ x < c[2] BY <1>7
  <2>2. CASE \E b \in external : b[1] - X <= x /\ x < b[2] + X
    <3>1. PICK b \in external : b[1] - X <= x /\ x < b[2] + X BY <2>2
    <3> QED BY <3>1, <1>0, <1>2, <1>6
  <2>3. CASE \E b \in business : b[1] - B <= x /\ x < b[2]
    <3>1. PICK b \in business : b[1] - B <= x /\ x < b[2] BY <2>3
    <3> QED BY <3>1, <1>0, <1>3, <1>6
  <2> QED BY <2>1, <2>2, <2>3, <1>6 DEF Kept, X, B
<1>8. CASE \E t \in Spans : Tight(t, v, zone) /\ t[1] <= x /\ x < t[2]
  <2>1. PICK t \in Spans : Tight(t, v, zone) /\ t[1] <= x /\ x < t[2] BY <1>8
  <2>2. /\ t[1] \in Int /\ t[2] \in Int /\ Whole(t[1]) /\ t[1] + B < t[2]
        /\ \A at : Whole(at) /\ t[1] + B <= at /\ at < t[2] => Blocked(v, zone, at)
    BY <2>1, SpanParts DEF Tight, B
  <2> DEFINE y == Later(s, t[1] + B)
  <2>3. y \in Int /\ s <= y /\ t[1] + B <= y /\ (y = s \/ y = t[1] + B)
    <3>1. t[1] + B \in Int BY <2>2, <1>0
    <3> QED BY <3>1, <1>0, LaterIs
  <2>4. Whole(t[1] + B)
    <3>1. Whole(B) BY <1>0, WholeSums DEF B
    <3> QED BY <3>1, <2>2, <1>0, WholeSums
  <2> HIDE DEF y
  <2>5. Whole(y) BY <2>3, <2>4
  <2>6. y < t[2] /\ y < e + B BY <2>1, <2>2, <2>3, <1>0, <1>6
  <2>7. Blocked(v, zone, y) BY <2>2, <2>3, <2>5, <2>6
  <2> QED BY <2>3, <2>5, <2>6, <2>7, <1>1
<1> QED BY <1>6, <1>7, <1>8 DEF Guarded

\* and in its free interval a slot is tried that starts so shortly before it that the two and their buffer would overlap,
\* and is certain.
LEMMA FitHasSlot ==
  ASSUME Scaled, NEW v, RealSettings(v), NEW zone, RealZone(zone), NEW date \in Int, NEW p,
         NEW w \in Spans, Worked(w, zone, DayWalk(zone, date), p), NEW free \in Spans, Inside(free, w),
         NEW notBefore, Whole(notBefore), NEW s, Whole(s), notBefore <= s, free[1] <= s, s + Minutes(v.slot) <= free[2],
         DateOf(zone, s + Minutes(v.slot)) = date, Single(zone, s + Minutes(v.slot)),
         Offset(zone, s) = Offset(zone, s + Minutes(v.slot))
  PROVE \E x \in Starts(v, free, notBefore) :
          x \in Int /\ x <= s /\ s < x + Minutes(v.slot) + Minutes(v.buffer) /\ Certain(v, zone, date, x)
<1> DEFINE L == Minutes(v.slot)
           B == Minutes(v.buffer)
           e == s + L
           base == BaseOf(free, notBefore)
           m == v.slot + v.buffer
           walk == DayWalk(zone, date)
           starts == Starts(v, free, notBefore)
<1>0. /\ Sized /\ s \in Int /\ e \in Int /\ Whole(e) /\ v.slot \in Int /\ v.buffer \in Int /\ L \in Int /\ B \in Int /\ s < e /\ Minutes(m) = L + B
      /\ m \in Nat \ {0} /\ Minute \in Int /\ 0 < Minute /\ DayMinutes \in Nat
  <2>1. Sized /\ DayMinutes \in Nat BY DEF Scaled
  <2>2. /\ s \in Int /\ e \in Int /\ Whole(e) /\ v.slot \in Int /\ 0 < v.slot /\ v.buffer \in Int /\ 0 <= v.buffer
        /\ L \in Int /\ B \in Int /\ Minutes(m) = L + B /\ Minute <= L
    BY SlotIs
  <2>3. Minute \in Int /\ 0 < Minute BY <2>1, MinuteIs
  <2>4. s < e /\ m \in Nat \ {0} BY <2>2, <2>3
  <2> QED BY <2>1, <2>2, <2>3, <2>4
<1>1. /\ Whole(base) /\ base \in Int /\ free[1] <= base /\ base <= s /\ Ladder(starts, v, base, free)
  BY StartsAre
<1>2. w[1] \in Int /\ w[2] \in Int /\ free[1] \in Int /\ free[2] \in Int /\ w[1] <= free[1] /\ free[2] <= w[2]
  BY SpanParts DEF Inside
<1>g. e <= free[2] /\ DateOf(zone, e) = date /\ Single(zone, e) /\ Offset(zone, s) = Offset(zone, e) OBVIOUS
<1> HIDE DEF L, B, e, base, m, walk, starts
<1>3. \A x : Whole(x) /\ w[1] <= x /\ x < w[2] =>
        x \in walk /\ Valid(zone, walk, p, x) /\ Offset(zone, x) = Offset(zone, w[1])
  BY DEF Worked, walk
<1>4. \A x \in walk : Valid(zone, walk, p, x) => DateOf(zone, x) = date /\ Single(zone, x)
  BY WalkIs, OnceIs DEF Valid, walk
<1>5. /\ w[1] <= base /\ base < w[2] /\ w[1] <= s /\ s < w[2] BY <1>0, <1>1, <1>2, <1>g
<1>6. PICK n \in Int : s - base = Minutes(n)
  <2>1. Whole(s - base) BY <1>0, <1>1, WholeSums
  <2> QED BY <2>1 DEF Whole
<1>7. n \in Nat /\ n < DayMinutes
  <2>1. DateOf(zone, s) = date /\ DateOf(zone, base) = date /\ Offset(zone, s) = Offset(zone, base) BY <1>1, <1>3, <1>4, <1>5
  <2>2. Wall(zone, s) - Wall(zone, base) = Minutes(MinuteOf(zone, s) - MinuteOf(zone, base)) BY <2>1, <1>1, SameClock
  <2>3. /\ Wall(zone, s) = s + Offset(zone, s) /\ Wall(zone, base) = base + Offset(zone, base)
        /\ Offset(zone, s) \in Int /\ Offset(zone, base) \in Int
    BY <1>0, <1>1, OffsetIs
  <2>4. MinuteOf(zone, s) \in 0..(DayMinutes - 1) /\ MinuteOf(zone, base) \in 0..(DayMinutes - 1) BY <1>1, ClockIs
  <2> DEFINE q == MinuteOf(zone, s) - MinuteOf(zone, base)
  <2>5. q \in Int /\ q < DayMinutes BY <2>4, <1>0
  <2>6. Minutes(n) = Minutes(q) BY <2>1, <2>2, <2>3, <1>0, <1>1, <1>6
  <2> HIDE DEF q
  <2>d. DayMinutes \in Int BY <1>0
  <2>r. Sized BY <1>0
  <2>n. n \in Int /\ q \in Int BY <2>5
  <2>m. \A i \in Int : Minutes(i) \in Int BY ONLY <2>r, MinutesAre
  <2>z. Minutes(0) = 0 BY ONLY <2>r, MinutesAre
  <2>7. Minutes(n) \in Int /\ Minutes(q) \in Int /\ 0 \in Int /\ Minutes(0) = 0 /\ DayMinutes \in Int BY ONLY <2>d, <2>n, <2>m, <2>z
  <2>8. Minutes(n) < Minutes(DayMinutes)
    <3>1. Minutes(q) < Minutes(DayMinutes) BY <2>5, <2>7, <1>0, MinutesAre
    <3> QED BY <3>1, <2>6
  <2>9. n < DayMinutes BY <2>7, <2>8, <1>0, MinutesAre
  <2>10. 0 <= Minutes(n) BY <1>0, <1>1, <1>6
  <2>11. 0 <= n BY <2>7, <2>10, <1>0, MinutesAre
  <2> QED BY <2>9, <2>11
<1> DEFINE k == n \div m
           r == n % m
<1>8. k \in Int /\ r \in 0..(m - 1) /\ n = k * m + r BY <1>0, <1>7
<1> HIDE DEF k, r
<1>9. k \in 0..DayMinutes /\ k * m \in Int /\ k * m <= n /\ n < k * m + m
  <2>1. r \in Int /\ 0 <= r /\ r < m /\ k * m \in Int BY <1>0, <1>8
  <2>2. k * m <= n /\ n < k * m + m BY <2>1, <1>0, <1>7, <1>8
  <2>3. 0 <= k
    <3> SUFFICES ASSUME k <= -1 PROVE FALSE
      BY <1>8
    <3>1. k * m <= -m BY <1>0, <1>8
    <3> QED BY <3>1, <2>1, <2>2, <1>0, <1>7
  <2>4. k <= k * m BY <2>3, <1>0, <1>8
  <2> QED BY <2>1, <2>2, <2>3, <2>4, <1>0, <1>7, <1>8
<1> DEFINE x == Rung(v, base, k)
<1>10. x = base + Minutes(k * m) BY DEF Rung, m
<1> HIDE DEF x
<1>11. x \in Int /\ Whole(x) /\ base <= x
  <2>1. k \in Nat BY <1>0, <1>9
  <2> QED BY <2>1, <1>1, RungIs DEF x
<1>12. x <= s /\ s < x + L + B
  <2>1. Minutes(k * m) <= Minutes(n) /\ Minutes(k * m) \in Int /\ Minutes(n) \in Int BY <1>0, <1>9, MinutesAre
  <2>2. k * m + m \in Int /\ m \in Int BY <1>0, <1>9
  <2>3. Minutes(n) < Minutes(k * m + m) BY <2>2, <1>0, <1>9, MinutesAre
  <2>4. Minutes(k * m + m) = Minutes(k * m) + Minutes(m) BY <2>2, <1>0, <1>9, MinutesAre
  <2> QED BY <2>1, <2>3, <2>4, <1>0, <1>1, <1>6, <1>10
<1> DEFINE end == x + L
<1>13. end \in Int /\ Whole(end) /\ end <= e /\ end <= w[2] /\ x < end /\ end <= free[2]
  <2>1. Whole(end) /\ x \in Int /\ end \in Int /\ x < end
    <3>1. Whole(L) BY <1>0, WholeSums DEF L
    <3>2. Whole(end) BY <3>1, <1>0, <1>11, WholeSums
    <3> QED BY <3>2, <1>0, <1>11 DEF e
  <2>2. end <= e BY <1>0, <1>11, <1>12 DEF e
  <2> QED BY <2>1, <2>2, <1>0, <1>2, <1>g
<1>14. x \in starts
  <2>1. x + L <= free[2] BY <1>13
  <2> QED BY <2>1, <1>1, <1>9 DEF Ladder, x, L
<1> HIDE DEF end
<1>15. x \in walk /\ DateOf(zone, x) = date /\ Single(zone, x) /\ Offset(zone, x) = Offset(zone, w[1])
  <2>1. w[1] <= x /\ x < w[2] BY <1>0, <1>1, <1>2, <1>5, <1>11, <1>12
  <2> QED BY <2>1, <1>3, <1>4, <1>11
<1>16. DateOf(zone, end) = date /\ Single(zone, end) /\ Offset(zone, end) = Offset(zone, w[1])
  <2>1. CASE end < w[2]
    <3>1. w[1] <= end BY <1>1, <1>2, <1>5, <1>11, <1>13
    <3> QED BY <3>1, <2>1, <1>3, <1>4, <1>13
  <2>2. CASE end = w[2]
    <3>1. e <= w[2] BY <1>0, <1>2, <1>g
    <3>2. end = e BY <3>1, <2>2, <1>0, <1>2, <1>13
    <3>3. Offset(zone, s) = Offset(zone, w[1]) BY <1>3, <1>5
    <3> QED BY <3>2, <3>3, <1>g
  <2> QED BY <2>1, <2>2, <1>2, <1>13
<1>17. Certain(v, zone, date, x)
  <2>1. end = x + Minutes(v.slot) BY DEF end, L
  <2> QED BY <2>1, <1>11, <1>15, <1>16, CertainIs
<1> QED BY <1>11, <1>12, <1>14, <1>17 DEF L, B, starts

-----------------------------------------------------------------------------
(* The slots of a day                                                      *)

\* The first minute after the notice.
NotBefore(v, now) == CeilMinute(now + Minutes(v.notice))
\* The slots are the starts that are tried in the free intervals of the windows and are certain.
Offered(slots, W, guarded, v, zone, date, now) ==
  /\ \A x \in slots : \E w \in W : \E free \in SubtractBusy(w, guarded) : \E s \in Starts(v, free, NotBefore(v, now)) :
       Certain(v, zone, date, s) /\ x = <<s, s + Minutes(v.slot)>>
  /\ \A w \in W : \A free \in SubtractBusy(w, guarded) : \A s \in Starts(v, free, NotBefore(v, now)) :
       Certain(v, zone, date, s) => <<s, s + Minutes(v.slot)>> \in slots
\* The blocked intervals are looked for around the windows, by the greater buffer,
Around(W, v, from, to) ==
  from \in Int /\ to \in Int /\ \A w \in W : from <= w[1] /\ w[2] + Minutes(v.buffer) <= to
\* which are apart from each other.
WindowsAre(W) == W \in SpanSets /\ Proper(W) /\ \A w, x \in W : w = x \/ Off(w, x)

\* scheduledSlotsWithBusy offers such slots (303-333).
LEMMA SlotsAre ==
  ASSUME Scaled, NEW v, RealSettings(v), NEW zone, RealZone(zone), NEW date \in Int, NEW now \in Int,
         NEW kept \in SpanSets, Proper(kept), InHorizon(v, zone, date, now),
         NEW W, W = WorkingWindows(v, zone, date), W # {}, WindowsAre(W)
  PROVE \E guarded, from, to :
          /\ Guarded(guarded, kept, v, zone, from, to)
          /\ Around(W, v, from, to)
          /\ Offered(ScheduledSlots(v, zone, date, now, kept), W, guarded, v, zone, date, now)
<1> DEFINE first == CHOOSE w \in W : \A x \in W : w[1] <= x[1]
           last == CHOOSE w \in W : \A x \in W : x[1] <= w[1]
           margin == Minutes(Later(v.buffer, v.external))
           from == first[1] - margin
           to == last[2] + margin
           guarded == MergeBusy(kept \cup BlockedIntervals(v, zone, from, to))
           nb == NotBefore(v, now)
           starts == UNION {Starts(v, free, nb) : free \in UNION {SubtractBusy(w, guarded) : w \in W}}
           slots == {<<s, s + Minutes(v.slot)>> : s \in {s \in starts : Certain(v, zone, date, s)}}
<1>0. Sized /\ v.buffer \in Nat /\ v.external \in Nat BY DEF Scaled, RealSettings
<1>1. first \in W /\ last \in W /\ \A w \in W : first[1] <= w[1] /\ w[2] <= last[2]
  BY EdgesAre DEF WindowsAre
<1>2. ScheduledSlots(v, zone, date, now, kept) = slots
  BY DEF ScheduledSlots, NotBefore
<1> HIDE DEF first, last
<1>3. margin \in Int /\ 0 <= margin /\ Minutes(v.buffer) <= margin /\ Minutes(v.buffer) \in Int
  <2>1. v.buffer \in Int /\ v.external \in Int /\ 0 <= v.buffer BY <1>0
  <2> DEFINE l == Later(v.buffer, v.external)
  <2>2. l \in Int /\ v.buffer <= l BY <2>1, LaterIs
  <2> HIDE DEF l
  <2>3. l \in Nat BY <2>1, <2>2
  <2>4. Minutes(l) \in Int /\ 0 <= Minutes(l) BY <2>3, <1>0, NatMinutes
  <2>5. Minutes(v.buffer) <= Minutes(l) BY <2>1, <2>2, <1>0, MinutesAre
  <2>6. Minutes(v.buffer) \in Int BY <1>0, NatMinutes
  <2> QED BY <2>4, <2>5, <2>6 DEF l
<1>w. \A w \in W : w[1] \in Int /\ w[2] \in Int BY SpanSetFacts, SpanParts DEF WindowsAre
<1> HIDE DEF margin
<1>4. Around(W, v, from, to)
  <2>1. from \in Int /\ to \in Int BY <1>1, <1>3, <1>w
  <2>2. ASSUME NEW w \in W PROVE from <= w[1] /\ w[2] + Minutes(v.buffer) <= to
    BY <1>1, <1>3, <1>w
  <2> QED BY <2>1, <2>2 DEF Around
<1> HIDE DEF from, to
<1>5. Guarded(guarded, kept, v, zone, from, to)
  <2>1. from \in Int /\ to \in Int BY <1>4 DEF Around
  <2> QED BY <2>1, <1>0, ProtectedIs
<1> HIDE DEF guarded, nb
<1>6. Offered(slots, W, guarded, v, zone, date, now)
  <2>1. ASSUME NEW x \in slots
        PROVE \E w \in W : \E free \in SubtractBusy(w, guarded) : \E s \in Starts(v, free, nb) :
                Certain(v, zone, date, s) /\ x = <<s, s + Minutes(v.slot)>>
    OBVIOUS
  <2>2. ASSUME NEW w \in W, NEW free \in SubtractBusy(w, guarded), NEW s \in Starts(v, free, nb), Certain(v, zone, date, s)
        PROVE <<s, s + Minutes(v.slot)>> \in slots
    <3>1. s \in starts OBVIOUS
    <3> HIDE DEF starts
    <3> QED BY <3>1, <2>2
  <2> HIDE DEF slots
  <2> QED BY <2>1, <2>2 DEF Offered, nb
<1> QED BY <1>2, <1>4, <1>5, <1>6

\* A slot that is a rung of a free interval of a window,
Sound(slot, W, guarded, v, zone, date, now) ==
  \E w \in W : \E free \in SubtractBusy(w, guarded) : \E k \in Nat :
    /\ w \in Spans /\ free \in Spans /\ Inside(free, w) /\ \A d \in guarded : Off(free, d)
    /\ slot[1] = Rung(v, BaseOf(free, NotBefore(v, now)), k) /\ slot[2] = slot[1] + Minutes(v.slot)
    /\ Whole(slot[1]) /\ free[1] <= slot[1] /\ slot[2] <= free[2] /\ NotBefore(v, now) <= slot[1]
    /\ slot = <<slot[1], slot[1] + Minutes(v.slot)>>
    /\ Certain(v, zone, date, slot[1])

\* late enough,
LEMMA NotBeforeIs ==
  ASSUME Scaled, NEW v, RealSettings(v), NEW now \in Int
  PROVE /\ Whole(NotBefore(v, now)) /\ NotBefore(v, now) \in Int
        /\ \A s : Whole(s) => (now + Minutes(v.notice) <= s <=> NotBefore(v, now) <= s)
<1> DEFINE t == now + Minutes(v.notice)
           n == NotBefore(v, now)
<1>0. Sized /\ t \in Int /\ Minute \in Int /\ 0 < Minute
  <2>1. Sized /\ v.notice \in Nat BY DEF Scaled, RealSettings
  <2>2. Minutes(v.notice) \in Int BY <2>1, NatMinutes
  <2> QED BY <2>1, <2>2, MinuteIs
<1> HIDE DEF t
<1>1. Whole(n) /\ n \in Int /\ t <= n /\ n < t + Minute BY <1>0, CeilIs DEF NotBefore, t
<1> HIDE DEF n
<1>2. ASSUME NEW s, Whole(s) PROVE t <= s <=> n <= s
  <2>0. s \in Int BY <1>0, <1>2, WholeSums
  <2>1. n <= s => t <= s BY <2>0, <1>0, <1>1
  <2>2. ASSUME t <= s, s < n PROVE FALSE
    <3>1. s + Minute <= n BY <2>2, <1>0, <1>1, <1>2, WholeSums
    <3> QED BY <3>1, <2>0, <2>2, <1>0, <1>1
  <2> QED BY <2>0, <2>1, <2>2, <1>1
<1> QED BY <1>1, <1>2 DEF t, n

\* in an interval that is free.
LEMMA FreedIs ==
  ASSUME NEW W, WindowsAre(W), NEW guarded \in SpanSets, Proper(guarded), NEW w \in W
  PROVE /\ w \in Spans
        /\ \A free \in SubtractBusy(w, guarded) : free \in Spans /\ Inside(free, w) /\ \A d \in guarded : Off(free, d)
        /\ \A f, h \in SubtractBusy(w, guarded) : f = h \/ Off(f, h)
        /\ Remaining(SubtractBusy(w, guarded), w[2], w, guarded)
<1>1. w \in Spans BY SpanSetFacts DEF WindowsAre
<1>2. Freed(SubtractBusy(w, guarded), w, guarded) /\ Remaining(SubtractBusy(w, guarded), w[2], w, guarded) BY <1>1, SubtractFrees
<1>3. SubtractBusy(w, guarded) \subseteq Spans BY <1>2, SpanSetFacts DEF Freed
<1> QED BY <1>1, <1>2, <1>3 DEF Freed

\* Every slot that is offered is.
LEMMA SlotsSound ==
  ASSUME Scaled, NEW v, RealSettings(v), NEW zone, NEW date, NEW now \in Int,
         NEW W, WindowsAre(W), NEW guarded \in SpanSets, Proper(guarded),
         NEW slots, Offered(slots, W, guarded, v, zone, date, now), NEW x \in slots
  PROVE Sound(x, W, guarded, v, zone, date, now)
<1> DEFINE nb == NotBefore(v, now)
<1>1. PICK w \in W : \E free \in SubtractBusy(w, guarded) : \E s \in Starts(v, free, nb) :
        Certain(v, zone, date, s) /\ x = <<s, s + Minutes(v.slot)>>
  BY DEF Offered
<1>2. PICK free \in SubtractBusy(w, guarded) : \E s \in Starts(v, free, nb) :
        Certain(v, zone, date, s) /\ x = <<s, s + Minutes(v.slot)>>
  BY <1>1
<1>3. PICK s \in Starts(v, free, nb) : Certain(v, zone, date, s) /\ x = <<s, s + Minutes(v.slot)>>
  BY <1>2
<1>4. w \in Spans /\ free \in Spans /\ Inside(free, w) /\ \A d \in guarded : Off(free, d) BY FreedIs
<1>5. Whole(nb) /\ nb \in Int BY NotBeforeIs
<1> DEFINE base == BaseOf(free, nb)
<1>6. Whole(base) /\ base \in Int /\ free[1] <= base /\ nb <= base /\ Ladder(Starts(v, free, nb), v, base, free)
  BY <1>4, <1>5, StartsAre
<1>7. PICK k \in Nat : s = Rung(v, base, k) /\ s + Minutes(v.slot) <= free[2] BY <1>3, <1>6 DEF Ladder
<1> HIDE DEF base, nb
<1>8. Whole(s) /\ s \in Int /\ base <= s BY <1>6, <1>7, RungIs
<1>9. free[1] \in Int BY <1>4, SpanParts
<1>10. free[1] <= s /\ nb <= s BY <1>5, <1>6, <1>8, <1>9
<1>11. x[1] = s /\ x[2] = s + Minutes(v.slot) BY <1>3
<1> QED BY <1>3, <1>4, <1>7, <1>8, <1>10, <1>11 DEF Sound, base, nb

\* A slot that is offered fits, and is free of conflicts when it is checked again.
LEMMA SlotsFit ==
  ASSUME Scaled, NEW v, RealSettings(v), NEW zone, RealZone(zone), NEW date \in Int, NEW now \in Int, InHorizon(v, zone, date, now),
         NEW external \in SpanSets, NEW business \in SpanSets, NEW kept, NEW guarded, NEW from, NEW to,
         Kept(kept, v, external, business), Guarded(guarded, kept, v, zone, from, to),
         NEW W, Hired(W, v, zone, date), WindowsAre(W), Around(W, v, from, to),
         NEW x, Sound(x, W, guarded, v, zone, date, now)
  PROVE Fits(v, zone, date, now, external, business, x[1]) /\ ~Conflicts(x, kept)
<1> DEFINE s == x[1]
           e == s + Minutes(v.slot)
<1> DEFINE Good(w, free) ==
             /\ w \in Spans /\ free \in Spans /\ Inside(free, w) /\ \A d \in guarded : Off(free, d)
             /\ Whole(s) /\ free[1] <= s /\ e <= free[2] /\ NotBefore(v, now) <= s /\ x = <<s, e>> /\ Certain(v, zone, date, s)
<1>w. PICK w \in W : \E free \in SubtractBusy(w, guarded) : Good(w, free)
  BY DEF Sound
<1>f. PICK free \in SubtractBusy(w, guarded) : Good(w, free) BY <1>w
<1>1. /\ w \in Spans /\ free \in Spans /\ Inside(free, w) /\ \A d \in guarded : Off(free, d)
      /\ Whole(s) /\ free[1] <= s /\ e <= free[2] /\ NotBefore(v, now) <= s /\ x = <<s, e>> /\ Certain(v, zone, date, s)
  BY <1>f
<1> HIDE DEF Good
<1>2. Sized /\ from \in Int /\ to \in Int /\ from <= w[1] /\ w[2] + Minutes(v.buffer) <= to BY DEF Around, Scaled
<1>3. /\ w[1] \in Int /\ w[2] \in Int /\ free[1] \in Int /\ free[2] \in Int /\ w[1] <= free[1] /\ free[2] <= w[2]
  BY <1>1, SpanParts DEF Inside
<1>4. s \in Int /\ e \in Int /\ Minutes(v.buffer) \in Int /\ Whole(e) BY <1>1, SlotIs
<1>5. w[1] <= s /\ e <= w[2] /\ from <= s /\ e + Minutes(v.buffer) <= to
  <2> HIDE DEF s, e
  <2> QED BY <1>1, <1>2, <1>3, <1>4
<1>6. PICK p \in PeriodsOn(v, date) : Worked(w, zone, DayWalk(zone, date), p) BY DEF Hired
<1> HIDE DEF s
<1>7. Working(v, zone, date, s, e) BY <1>1, <1>5, <1>6, WorkedIsWorking
<1>8. Clear(v, zone, s, e) BY <1>1, <1>2, <1>5, FreeIsClear
<1>9. Apart(s, e, external, v.external, v.external) /\ Apart(s, e, business, v.buffer, 0) /\ ~Conflicts(<<s, e>>, kept)
  BY <1>1, FreeIsApart
<1>10. Unbroken(zone, s, e)
  <2>1. Single(zone, e) /\ Offset(zone, s) = Offset(zone, e) BY <1>1, CertainIs
  <2> QED BY <2>1, <1>4, AloneIs DEF Unbroken
<1>11. now + Minutes(v.notice) <= s BY <1>1, NotBeforeIs
<1>12. Fits(v, zone, date, now, external, business, s) BY <1>7, <1>8, <1>9, <1>10, <1>11 DEF Fits
<1>13. x = <<s, e>> BY <1>1
<1> HIDE DEF e
<1> QED BY <1>9, <1>12, <1>13 DEF s

-----------------------------------------------------------------------------
(* The slots are apart and serve every time that fits                      *)

\* Slots of the same ladder do not overlap,
LEMMA RungsApart ==
  ASSUME Scaled, NEW v, RealSettings(v), NEW base, Whole(base), NEW j \in Nat, NEW k \in Nat
  PROVE \/ Rung(v, base, j) = Rung(v, base, k)
        \/ Rung(v, base, j) + Minutes(v.slot) <= Rung(v, base, k)
        \/ Rung(v, base, k) + Minutes(v.slot) <= Rung(v, base, j)
<1> DEFINE a == Rung(v, base, j)
           b == Rung(v, base, k)
           L == Minutes(v.slot)
           B == Minutes(v.buffer)
<1>1. L \in Int /\ B \in Int /\ 0 <= B BY SlotIs
<1>2. a \in Int /\ b \in Int BY RungIs
<1>3. j < k => a + L + B <= b BY RungIs
<1>4. k < j => b + L + B <= a BY RungIs
<1>5. j = k => a = b OBVIOUS
<1> HIDE DEF a, b, L, B
<1>6. j < k \/ k < j \/ j = k OBVIOUS
<1>7. a = b \/ a + L <= b \/ b + L <= a BY <1>1, <1>2, <1>3, <1>4, <1>5, <1>6
<1> QED BY <1>7 DEF a, b, L

\* nor do two slots that are offered.
LEMMA SlotsApart ==
  ASSUME Scaled, NEW v, RealSettings(v), NEW zone, NEW date, NEW now \in Int,
         NEW W, WindowsAre(W), NEW guarded \in SpanSets, Proper(guarded),
         NEW x, NEW y, Sound(x, W, guarded, v, zone, date, now), Sound(y, W, guarded, v, zone, date, now)
  PROVE x = y \/ x[2] <= y[1] \/ y[2] <= x[1]
<1> DEFINE nb == NotBefore(v, now)
           L == Minutes(v.slot)
           Good(s, w, free, k) ==
             /\ w \in Spans /\ free \in Spans /\ Inside(free, w)
             /\ s[1] = Rung(v, BaseOf(free, nb), k) /\ s[2] = s[1] + L
             /\ Whole(s[1]) /\ free[1] <= s[1] /\ s[2] <= free[2] /\ s = <<s[1], s[1] + L>>
<1>1. \E w \in W : \E free \in SubtractBusy(w, guarded) : \E k \in Nat : Good(x, w, free, k) BY DEF Sound
<1>2. \E w \in W : \E free \in SubtractBusy(w, guarded) : \E k \in Nat : Good(y, w, free, k) BY DEF Sound
<1> HIDE DEF Good
<1>3. PICK u \in W : \E free \in SubtractBusy(u, guarded) : \E k \in Nat : Good(x, u, free, k) BY <1>1
<1>4. PICK f \in SubtractBusy(u, guarded) : \E k \in Nat : Good(x, u, f, k) BY <1>3
<1>5. PICK j \in Nat : Good(x, u, f, j) BY <1>4
<1>6. PICK w \in W : \E free \in SubtractBusy(w, guarded) : \E k \in Nat : Good(y, w, free, k) BY <1>2
<1>7. PICK h \in SubtractBusy(w, guarded) : \E k \in Nat : Good(y, w, h, k) BY <1>6
<1>8. PICK k \in Nat : Good(y, w, h, k) BY <1>7
<1>9. /\ u \in Spans /\ f \in Spans /\ Inside(f, u) /\ x[1] = Rung(v, BaseOf(f, nb), j) /\ x[2] = x[1] + L
      /\ Whole(x[1]) /\ f[1] <= x[1] /\ x[2] <= f[2] /\ x = <<x[1], x[1] + L>>
  BY <1>5 DEF Good
<1>10. /\ w \in Spans /\ h \in Spans /\ Inside(h, w) /\ y[1] = Rung(v, BaseOf(h, nb), k) /\ y[2] = y[1] + L
       /\ Whole(y[1]) /\ h[1] <= y[1] /\ y[2] <= h[2] /\ y = <<y[1], y[1] + L>>
  BY <1>8 DEF Good
<1>11. L \in Int /\ x[1] \in Int /\ x[2] \in Int /\ y[1] \in Int /\ y[2] \in Int
  <2>1. L \in Int /\ x[1] \in Int /\ x[1] + L \in Int BY <1>9, SlotIs
  <2>2. y[1] \in Int /\ y[1] + L \in Int BY <1>10, SlotIs
  <2> QED BY <2>1, <2>2, <1>9, <1>10
<1>12. /\ f[1] \in Int /\ f[2] \in Int /\ u[1] \in Int /\ u[2] \in Int /\ u[1] <= f[1] /\ f[2] <= u[2]
       /\ h[1] \in Int /\ h[2] \in Int /\ w[1] \in Int /\ w[2] \in Int /\ w[1] <= h[1] /\ h[2] <= w[2]
  BY <1>9, <1>10, SpanParts DEF Inside
<1>13. CASE f = h
  <2> DEFINE base == BaseOf(f, nb)
  <2>1. Whole(base)
    <3>1. Whole(nb) BY NotBeforeIs
    <3> QED BY <3>1, <1>9, StartsAre
  <2>2. x[1] = Rung(v, base, j) /\ y[1] = Rung(v, base, k) BY <1>9, <1>10, <1>13
  <2> HIDE DEF base
  <2>3. x[1] = y[1] \/ x[1] + L <= y[1] \/ y[1] + L <= x[1] BY <2>1, <2>2, RungsApart
  <2>4. x[1] = y[1] => x = y BY <1>9, <1>10
  <2> QED BY <2>3, <2>4, <1>9, <1>10
<1>14. CASE f # h /\ u = w
  <2>1. h \in SubtractBusy(u, guarded) BY <1>14
  <2>2. Off(f, h) BY <2>1, <1>14, FreedIs
  <2> QED BY <2>2, <1>9, <1>10, <1>11, <1>12 DEF Off
<1>15. CASE u # w
  <2>1. Off(u, w) BY <1>15 DEF WindowsAre
  <2> QED BY <2>1, <1>9, <1>10, <1>11, <1>12 DEF Off
<1> QED BY <1>13, <1>14, <1>15

\* For a time that fits a slot is offered.
LEMMA FitIsServed ==
  ASSUME Scaled, NEW v, RealSettings(v), NEW zone, RealZone(zone), NEW date \in Int, NEW now \in Int,
         NEW external \in SpanSets, NEW business \in SpanSets, NEW kept, NEW guarded, NEW from, NEW to,
         Kept(kept, v, external, business), Guarded(guarded, kept, v, zone, from, to),
         NEW W, Hired(W, v, zone, date), WindowsAre(W),
         NEW slots, Offered(slots, W, guarded, v, zone, date, now),
         NEW s, Whole(s), Fits(v, zone, date, now, external, business, s)
  PROVE \E slot \in slots : slot[1] <= s /\ s < slot[2] + Minutes(v.buffer)
<1> DEFINE L == Minutes(v.slot)
           e == s + L
           nb == NotBefore(v, now)
<1>0. s \in Int /\ e \in Int /\ L \in Int /\ Minutes(v.buffer) \in Int /\ s < e
  <2>1. s \in Int /\ e \in Int /\ L \in Int /\ Minute <= L /\ Minutes(v.buffer) \in Int BY SlotIs
  <2>2. Minute \in Int /\ 0 < Minute BY MinuteIs DEF Scaled
  <2> QED BY <2>1, <2>2
<1>1. /\ now + Minutes(v.notice) <= s /\ Working(v, zone, date, s, e) /\ Unbroken(zone, s, e) /\ Clear(v, zone, s, e)
      /\ Apart(s, e, external, v.external, v.external) /\ Apart(s, e, business, v.buffer, 0)
  BY DEF Fits
<1>2. /\ \E w \in W : w[1] <= s /\ e <= w[2]
      /\ DateOf(zone, e) = date /\ Single(zone, e) /\ Offset(zone, s) = Offset(zone, e)
  BY <1>1, WorkingIsWorked
<1>3. PICK w \in W : w[1] <= s /\ e <= w[2] BY <1>2
<1>4. guarded \in SpanSets /\ Proper(guarded) BY DEF Guarded
<1>5. /\ w \in Spans
      /\ \A f \in SubtractBusy(w, guarded) : f \in Spans /\ Inside(f, w)
      /\ Remaining(SubtractBusy(w, guarded), w[2], w, guarded)
  BY <1>4, FreedIs
<1>6. \A d \in guarded : Off(<<s, e>>, d) BY <1>1, FitIsOff
<1>7. Whole(nb) /\ nb <= s BY <1>1, NotBeforeIs
<1>8. PICK p \in PeriodsOn(v, date) : Worked(w, zone, DayWalk(zone, date), p) BY DEF Hired
<1>9. w[1] \in Int /\ w[2] \in Int BY <1>5, SpanParts
<1>e. e = s + Minutes(v.slot) OBVIOUS
<1> HIDE DEF e, nb
<1>10. PICK f \in SubtractBusy(w, guarded) : f[1] <= s /\ e <= f[2]
  <2>1. Inside(<<s, e>>, w)
    <3>1. <<s, e>>[1] = s /\ <<s, e>>[2] = e OBVIOUS
    <3> QED BY <3>1, <1>0, <1>3 DEF Inside
  <2>2. w[2] <= s \/ \E f \in SubtractBusy(w, guarded) : f[1] <= s /\ e <= f[2]
    BY <2>1, <1>0, <1>5, <1>6 DEF Remaining
  <2>3. ~(w[2] <= s) BY <1>0, <1>3, <1>9
  <2> QED BY <2>2, <2>3
<1>11. f \in Spans /\ Inside(f, w) BY <1>5
<1>12. PICK x \in Starts(v, f, nb) :
         x \in Int /\ x <= s /\ s < x + Minutes(v.slot) + Minutes(v.buffer) /\ Certain(v, zone, date, x)
  BY <1>2, <1>5, <1>7, <1>8, <1>10, <1>11, <1>e, FitHasSlot
<1>13. <<x, x + Minutes(v.slot)>> \in slots BY <1>12 DEF Offered, nb
<1>14. <<x, x + Minutes(v.slot)>>[1] = x /\ <<x, x + Minutes(v.slot)>>[2] = x + Minutes(v.slot) OBVIOUS
<1> QED BY <1>12, <1>13, <1>14

\* The times that are offered are right (scheduledSlotsWithBusy, 268-334), for any settings that validateSettings accepts, in a zone
\* that changes its clock once, on any date, for a request at any time, with any events in the calendars: each fits and passes
\* the check before its event is created, no two overlap, and none that fits is kept back.
THEOREM OffersAreRight ==
  ASSUME NEW v, RealSettings(v), NEW zone, RealZone(zone), NEW date \in Int, NEW now \in Int,
         NEW external, NEW business, Intervals(external), Intervals(business)
  PROVE Right(v, zone, date, now, external, business)
<1> DEFINE kept == CalendarProtection(v, external, business)
           slots == ScheduledSlots(v, zone, date, now, kept)
           W == WorkingWindows(v, zone, date)
           fits(s) == Fits(v, zone, date, now, external, business, s)
           tried == {InZone(zone, date, 0) + Minutes(k) : k \in -Reach..(DayMinutes + Reach)}
<1>s. Scaled BY ScaleAssumption DEF Scaled, Sized
<1>e. external \in SpanSets /\ business \in SpanSets /\ Proper(external) /\ Proper(business)
  BY DEF Intervals, SpanSets, Spans, Proper
<1>0. Sized /\ v.buffer \in Nat /\ v.external \in Nat BY <1>s DEF Scaled, RealSettings
<1>1. Kept(kept, v, external, business) BY <1>0, <1>e, ProtectionIs
<1>2. kept \in SpanSets /\ Proper(kept) BY <1>1 DEF Kept
<1>3. Hired(W, v, zone, date) BY <1>s, WorkingIs
<1>4. WindowsAre(W) BY <1>3 DEF Hired, Worked, WindowsAre, Proper
<1>5. \A s \in tried : Whole(s)
  <2> SUFFICES ASSUME NEW k \in -Reach..(DayMinutes + Reach) PROVE Whole(InZone(zone, date, 0) + Minutes(k))
    OBVIOUS
  <2>1. k \in Int BY <1>s DEF Scaled
  <2>2. Whole(InZone(zone, date, 0)) BY <1>s, DayIs
  <2> QED BY <2>1, <2>2, <1>0, WholeSums
<1>6. \A s : fits(s) => InHorizon(v, zone, date, now) BY DEF Fits
<1>7. \A s : Whole(s) /\ fits(s) => W # {}
  <2> SUFFICES ASSUME NEW s, Whole(s), fits(s) PROVE W # {}
    OBVIOUS
  <2>1. Working(v, zone, date, s, s + Minutes(v.slot)) /\ Unbroken(zone, s, s + Minutes(v.slot)) BY DEF Fits
  <2> QED BY <1>s, <2>1, <1>3, WorkingIsWorked
<1>w. W = WorkingWindows(v, zone, date) OBVIOUS
<1>8. ~InHorizon(v, zone, date, now) \/ W = {} => slots = {} BY DEF ScheduledSlots
<1>r. Right(v, zone, date, now, external, business) <=>
        /\ \A slot \in slots : fits(slot[1]) /\ ~Conflicts(slot, kept)
        /\ \A a, b \in slots : a = b \/ a[2] <= b[1] \/ b[2] <= a[1]
        /\ \A s \in tried : fits(s) => \E slot \in slots : slot[1] <= s /\ s < slot[2] + Minutes(v.buffer)
  BY DEF Right
<1> HIDE DEF kept, W
<1>9. CASE ~InHorizon(v, zone, date, now) \/ W = {}
  <2>1. slots = {} BY <1>8, <1>9
  <2> HIDE DEF slots, fits, tried
  <2>2. \A s \in tried : ~fits(s) BY <1>5, <1>6, <1>7, <1>9
  <2> QED BY <2>1, <2>2, <1>r
<1>10. CASE InHorizon(v, zone, date, now) /\ W # {}
  <2>1. PICK guarded, from, to :
          Guarded(guarded, kept, v, zone, from, to) /\ Around(W, v, from, to) /\ Offered(slots, W, guarded, v, zone, date, now)
    BY <1>2, <1>4, <1>10, <1>w, <1>s, SlotsAre
  <2> HIDE DEF slots
  <2>2. guarded \in SpanSets /\ Proper(guarded) BY <2>1 DEF Guarded
  <2>3. \A x \in slots : Sound(x, W, guarded, v, zone, date, now) BY <2>1, <2>2, <1>4, <1>s, SlotsSound
  <2>4. \A x \in slots : fits(x[1]) /\ ~Conflicts(x, kept)
    BY <2>1, <2>3, <1>1, <1>3, <1>4, <1>10, <1>s, <1>e, SlotsFit
  <2>5. \A a, b \in slots : a = b \/ a[2] <= b[1] \/ b[2] <= a[1]
    BY <2>2, <2>3, <1>4, <1>s, SlotsApart
  <2>6. \A s \in tried : fits(s) => \E slot \in slots : slot[1] <= s /\ s < slot[2] + Minutes(v.buffer)
    <3> SUFFICES ASSUME NEW s \in tried, fits(s) PROVE \E slot \in slots : slot[1] <= s /\ s < slot[2] + Minutes(v.buffer)
      OBVIOUS
    <3>1. Whole(s) BY <1>5
    <3> HIDE DEF tried
    <3> QED BY <2>1, <3>1, <1>1, <1>3, <1>4, <1>s, <1>e, FitIsServed
  <2> HIDE DEF fits, tried
  <2> QED BY <2>4, <2>5, <2>6, <1>r
<1> QED BY <1>9, <1>10
=============================================================================

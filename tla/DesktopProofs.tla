---------------------------- MODULE DesktopProofs ----------------------------
(***************************************************************************)
(* Proofs about Desktop for every library of profiles, every set of files  *)
(* and every size of the log.                                              *)
(***************************************************************************)
EXTENDS Desktop, SequenceTheorems, FiniteSetTheorems, TLAPS

\* A list the window may hold: no path twice, and only profiles that passed validate.
ListOK(entries) ==
    /\ entries \in Seq(Entries)
    /\ IsInjective(PathsOf(entries))
    /\ \A i \in DOMAIN entries : Coherent(Library[entries[i].name])

\* What the task was started with passed validate, whatever the files hold by now.
Vetted == \A name \in using : Coherent(Library[name])

IInv ==
    /\ TypeOK /\ ListOK(list) /\ Vetted /\ log_since <= next_seq
    /\ KeptUnlessRemoved /\ NewestLinesShown /\ NameHidden

-----------------------------------------------------------------------------
(* Lists of profiles *)

\* A function on 1..n is a sequence of length n.
LEMMA FunctionSequence ==
    ASSUME NEW S, NEW n \in Nat, NEW s \in [1..n -> S]
    PROVE  s \in Seq(S) /\ Len(s) = n
<1>1. s \in Seq(S)
    BY SeqDef
<1>2. Len(s) \in Nat /\ DOMAIN s = 1..Len(s)
    BY <1>1, LenProperties
<1>3. 1..Len(s) = 1..n
    BY <1>2
<1>4. ASSUME NEW k \in Nat, 1..k = 1..n PROVE k = n
    BY <1>4
<1> QED BY <1>1, <1>2, <1>3, <1>4

\* The paths of a list are a sequence of the same length.
LEMMA PathsSequence ==
    ASSUME NEW s \in Seq(Entries)
    PROVE  /\ PathsOf(s) \in Seq(Paths) /\ Len(PathsOf(s)) = Len(s)
           /\ DOMAIN PathsOf(s) = 1..Len(s) /\ DOMAIN s = 1..Len(s) /\ Len(s) \in Nat
           /\ \A i \in 1..Len(s) : PathsOf(s)[i] = s[i].path /\ s[i] \in Entries
<1>1. DOMAIN s = 1..Len(s) /\ Len(s) \in Nat /\ \A i \in 1..Len(s) : s[i] \in Entries
    BY LenProperties, ElementOfSeq
<1>2. PathsOf(s) = [i \in 1..Len(s) |-> s[i].path]
    BY <1>1 DEF PathsOf
<1>3. \A i \in 1..Len(s) : s[i].path \in Paths
    BY <1>1 DEF Entries
<1>4. PathsOf(s) \in [1..Len(s) -> Paths]
    BY <1>2, <1>3
<1>5. PathsOf(s) \in Seq(Paths)
    BY <1>1, <1>4, SeqDef
<1> QED BY <1>1, <1>2, <1>5, LenProperties

\* The empty list.
LEMMA EmptyList == ListOK(<<>>) /\ ToSet(PathsOf(<<>>)) = {}
<1>1. <<>> \in Seq(Entries) /\ DOMAIN <<>> = {}
    BY EmptySeq
<1>2. DOMAIN PathsOf(<<>>) = {}
    BY <1>1 DEF PathsOf
<1> QED BY <1>1, <1>2 DEF ListOK, IsInjective, ToSet

\* Append and the paths of the list.
LEMMA AppendedPaths ==
    ASSUME NEW s, ListOK(s), NEW e \in Entries, e.path \notin ToSet(PathsOf(s)),
           Coherent(Library[e.name])
    PROVE  ListOK(Append(s, e)) /\ ToSet(PathsOf(Append(s, e))) = ToSet(PathsOf(s)) \cup {e.path}
<1> DEFINE t == Append(s, e)
<1>1. s \in Seq(Entries)
    BY DEF ListOK
<1>2. t \in Seq(Entries) /\ Len(t) = Len(s) + 1 /\ t[Len(s) + 1] = e
      /\ \A i \in 1..Len(s) : t[i] = s[i]
    BY <1>1, AppendProperties
<1>3. /\ DOMAIN t = 1..Len(s) + 1 /\ DOMAIN PathsOf(t) = 1..Len(s) + 1 /\ Len(s) \in Nat
      /\ \A i \in 1..Len(s) + 1 : PathsOf(t)[i] = t[i].path
    BY <1>2, PathsSequence, <1>1
<1>4. /\ DOMAIN s = 1..Len(s) /\ DOMAIN PathsOf(s) = 1..Len(s)
      /\ \A i \in 1..Len(s) : PathsOf(s)[i] = s[i].path
    BY <1>1, PathsSequence
<1> HIDE DEF t
<1>5. \A i \in 1..Len(s) : PathsOf(t)[i] = PathsOf(s)[i]
    BY <1>2, <1>3, <1>4
<1>6. PathsOf(t)[Len(s) + 1] = e.path
    BY <1>2, <1>3
<1>7. \A i \in 1..Len(s) : PathsOf(s)[i] # e.path
    BY <1>4 DEF ToSet
<1>8. IsInjective(PathsOf(t))
    <2> SUFFICES ASSUME NEW a \in 1..Len(s) + 1, NEW b \in 1..Len(s) + 1,
                        PathsOf(t)[a] = PathsOf(t)[b]
                 PROVE  a = b
        BY <1>3 DEF IsInjective
    <2>1. \A c \in 1..Len(s) + 1 : c \in 1..Len(s) \/ c = Len(s) + 1
        BY <1>3
    <2>2. \A c, d \in 1..Len(s) : PathsOf(s)[c] = PathsOf(s)[d] => c = d
        BY <1>4 DEF ListOK, IsInjective
    <2> QED BY <2>1, <2>2, <1>5, <1>6, <1>7
<1>9. \A i \in DOMAIN t : Coherent(Library[t[i].name])
    BY <1>2, <1>3, <1>4 DEF ListOK
<1>10. ToSet(PathsOf(t)) = ToSet(PathsOf(s)) \cup {e.path}
    <2>1. ASSUME NEW x \in ToSet(PathsOf(t)) PROVE x \in ToSet(PathsOf(s)) \cup {e.path}
        <3>1. PICK i \in 1..Len(s) + 1 : x = PathsOf(t)[i]
            BY <1>3 DEF ToSet
        <3>2. i \in 1..Len(s) \/ i = Len(s) + 1
            BY <1>3
        <3> QED BY <1>4, <1>5, <1>6, <3>1, <3>2 DEF ToSet
    <2>2. ASSUME NEW x \in ToSet(PathsOf(s)) PROVE x \in ToSet(PathsOf(t))
        <3>1. PICK i \in 1..Len(s) : x = PathsOf(s)[i]
            BY <1>4 DEF ToSet
        <3>2. i \in 1..Len(s) + 1
            BY <1>3
        <3> QED BY <1>3, <1>5, <3>1, <3>2 DEF ToSet
    <2>3. e.path \in ToSet(PathsOf(t))
        <3>1. Len(s) + 1 \in 1..Len(s) + 1
            BY <1>3
        <3> QED BY <1>3, <1>6, <3>1 DEF ToSet
    <2> QED BY <2>1, <2>2, <2>3
<1> QED BY <1>2, <1>8, <1>9, <1>10 DEF ListOK, t

\* RemoveAt and the paths of the list.
LEMMA RemovedPaths ==
    ASSUME NEW s, ListOK(s), NEW i \in 1..Len(s)
    PROVE  /\ ListOK(RemoveAt(s, i))
           /\ ToSet(PathsOf(RemoveAt(s, i))) = ToSet(PathsOf(s)) \ {s[i].path}
<1> DEFINE t == RemoveAt(s, i)
           u == SubSeq(s, 1, i - 1)
           v == SubSeq(s, i + 1, Len(s))
<1>0. Len(s) \in Nat /\ i \in Nat /\ i >= 1 /\ i <= Len(s)
    BY PathsSequence DEF ListOK
<1>1. /\ s \in Seq(Entries) /\ DOMAIN s = 1..Len(s) /\ DOMAIN PathsOf(s) = 1..Len(s)
      /\ Len(s) \in Nat /\ i \in Nat /\ i >= 1 /\ i <= Len(s)
      /\ \A j \in 1..Len(s) : PathsOf(s)[j] = s[j].path /\ s[j] \in Entries
    BY PathsSequence DEF ListOK
<1>2. u \in Seq(Entries) /\ Len(u) = i - 1 /\ \A j \in 1..i - 1 : u[j] = s[j]
    <2>1. \A j \in 1..i - 1 : s[j] \in Entries
        BY <1>1
    <2>2. 1 \in Int /\ i - 1 \in Int
        BY <1>1
    <2>3. /\ u \in Seq(Entries)
          /\ Len(u) = IF 1 <= i - 1 THEN (i - 1) - 1 + 1 ELSE 0
          /\ \A j \in 1..(i - 1) - 1 + 1 : u[j] = s[1 + j - 1]
        BY <2>1, <2>2, SubSeqProperties
    <2> HIDE DEF u
    <2> QED BY <2>3, <1>1
<1>3. v \in Seq(Entries) /\ Len(v) = Len(s) - i /\ \A j \in 1..Len(s) - i : v[j] = s[i + j]
    <2>1. \A j \in i + 1..Len(s) : s[j] \in Entries
        BY <1>1
    <2>2. i + 1 \in Int /\ Len(s) \in Int
        BY <1>1
    <2>3. /\ v \in Seq(Entries)
          /\ Len(v) = IF i + 1 <= Len(s) THEN Len(s) - (i + 1) + 1 ELSE 0
          /\ \A j \in 1..Len(s) - (i + 1) + 1 : v[j] = s[(i + 1) + j - 1]
        BY <2>1, <2>2, SubSeqProperties
    <2> HIDE DEF v
    <2>4. \A j \in 1..Len(s) - i : (i + 1) + j - 1 = i + j /\ j \in 1..Len(s) - (i + 1) + 1
        BY <1>1
    <2>5. Len(v) = Len(s) - i
        <3>1. CASE i + 1 <= Len(s)
            BY <2>3, <1>1, <3>1
        <3>2. CASE i = Len(s)
            BY <2>3, <1>1, <3>2
        <3>3. i + 1 <= Len(s) \/ i = Len(s)
            BY <1>0
        <3> QED BY <3>1, <3>2, <3>3
    <2>6. ASSUME NEW j \in 1..Len(s) - i PROVE v[j] = s[i + j]
        BY <2>3, <2>4
    <2> QED BY <2>3, <2>5, <2>6
<1>4. t = u \o v
    BY DEF RemoveAt
<1> HIDE DEF t, u, v
<1>5. /\ t \in Seq(Entries) /\ Len(t) = Len(s) - 1
      /\ \A j \in 1..Len(s) - 1 : t[j] = IF j < i THEN s[j] ELSE s[j + 1]
    <2>1. /\ t \in Seq(Entries) /\ Len(t) = Len(u) + Len(v)
          /\ \A j \in 1..Len(u) + Len(v) : t[j] = IF j <= Len(u) THEN u[j] ELSE v[j - Len(u)]
        BY <1>2, <1>3, <1>4, ConcatProperties
    <2>2. Len(u) + Len(v) = Len(s) - 1
        BY <1>1, <1>2, <1>3
    <2>3. ASSUME NEW j \in 1..Len(s) - 1 PROVE t[j] = IF j < i THEN s[j] ELSE s[j + 1]
        <3>1. t[j] = IF j <= i - 1 THEN u[j] ELSE v[j - (i - 1)]
            BY <1>2, <2>1, <2>2
        <3>2. CASE j < i
            BY <1>1, <1>2, <3>1, <3>2
        <3>3. CASE ~(j < i)
            <4>1. j - (i - 1) \in 1..Len(s) - i /\ i + (j - (i - 1)) = j + 1
                BY <1>1, <3>3
            <4> QED BY <1>1, <1>3, <3>1, <3>3, <4>1
        <3> QED BY <3>2, <3>3
    <2> QED BY <2>1, <2>2, <2>3
<1> DEFINE From(j) == IF j < i THEN j ELSE j + 1
<1>6. /\ DOMAIN t = 1..Len(s) - 1 /\ DOMAIN PathsOf(t) = 1..Len(s) - 1
      /\ \A j \in 1..Len(s) - 1 : From(j) \in 1..Len(s) /\ From(j) # i
                                  /\ t[j] = s[From(j)] /\ PathsOf(t)[j] = PathsOf(s)[From(j)]
    <2>1. /\ DOMAIN t = 1..Len(s) - 1 /\ DOMAIN PathsOf(t) = 1..Len(s) - 1
          /\ \A j \in 1..Len(s) - 1 : PathsOf(t)[j] = t[j].path
        BY <1>5, PathsSequence
    <2>2. ASSUME NEW j \in 1..Len(s) - 1
          PROVE  From(j) \in 1..Len(s) /\ From(j) # i /\ t[j] = s[From(j)]
        BY <1>1, <1>5
    <2> QED BY <1>1, <2>1, <2>2
<1>7. \A a, b \in 1..Len(s) - 1 : From(a) = From(b) => a = b
    BY <1>1
<1>8. \A j \in 1..Len(s) : j # i => \E a \in 1..Len(s) - 1 : From(a) = j
    <2> SUFFICES ASSUME NEW j \in 1..Len(s), j # i PROVE \E a \in 1..Len(s) - 1 : From(a) = j
        OBVIOUS
    <2>1. CASE j < i
        BY <1>1, <2>1
    <2>2. CASE j > i
        <3>1. j - 1 \in 1..Len(s) - 1 /\ From(j - 1) = j
            BY <1>1, <2>2
        <3> QED BY <3>1
    <2> QED BY <1>1, <2>1, <2>2
<1> HIDE DEF From
<1>9. \A a, b \in 1..Len(s) : PathsOf(s)[a] = PathsOf(s)[b] => a = b
    BY <1>1 DEF ListOK, IsInjective
<1>10. IsInjective(PathsOf(t))
    BY <1>6, <1>7, <1>9, SMTT(30) DEF IsInjective
<1>11. \A j \in DOMAIN t : Coherent(Library[t[j].name])
    BY <1>1, <1>6 DEF ListOK
<1>12. ToSet(PathsOf(t)) = ToSet(PathsOf(s)) \ {s[i].path}
    <2>1. ASSUME NEW x \in ToSet(PathsOf(t)) PROVE x \in ToSet(PathsOf(s)) \ {s[i].path}
        <3>1. PICK j \in 1..Len(s) - 1 : x = PathsOf(t)[j]
            BY <1>6 DEF ToSet
        <3>2. x = PathsOf(s)[From(j)] /\ From(j) \in 1..Len(s) /\ From(j) # i
            BY <1>6, <3>1
        <3> QED BY <1>1, <1>9, <3>2 DEF ToSet
    <2>2. ASSUME NEW x \in ToSet(PathsOf(s)), x # s[i].path PROVE x \in ToSet(PathsOf(t))
        <3>1. PICK j \in 1..Len(s) : x = PathsOf(s)[j]
            BY <1>1 DEF ToSet
        <3>2. j # i
            BY <1>1, <2>2, <3>1
        <3>3. PICK a \in 1..Len(s) - 1 : From(a) = j
            BY <1>8, <3>2
        <3> QED BY <1>6, <3>1, <3>3 DEF ToSet
    <2> QED BY <2>1, <2>2
<1> QED BY <1>5, <1>10, <1>11, <1>12 DEF ListOK, t


\* What App::new makes of the stored paths: all of them but those that did not load.
LEMMA OpenedPaths ==
    ASSUME TypeOK, NEW pick \in [1..Cardinality(Loadable) -> Loadable],
           \A j, k \in DOMAIN pick : j < k => pick[j] < pick[k]
    PROVE  LET entries == [j \in DOMAIN pick |-> Loaded(stored[pick[j]])]
               gone == {stored[i] : i \in DOMAIN stored \ Loadable}
           IN  /\ ListOK(entries) /\ gone \subseteq Paths
               /\ ToSet(PathsOf(entries)) = ToSet(stored) \ gone
<1> DEFINE n == Cardinality(Loadable)
           s == [j \in DOMAIN pick |-> Loaded(stored[pick[j]])]
           gone == {stored[i] : i \in DOMAIN stored \ Loadable}
<1>1. /\ stored \in Seq(Paths) /\ Len(stored) \in Nat /\ DOMAIN stored = 1..Len(stored)
      /\ \A i \in 1..Len(stored) : stored[i] \in Paths
      /\ \A a, b \in 1..Len(stored) : stored[a] = stored[b] => a = b
    <2>1. stored \in Seq(Paths) /\ IsInjective(stored)
        BY DEF TypeOK
    <2>2. Len(stored) \in Nat /\ DOMAIN stored = 1..Len(stored)
        BY <2>1, LenProperties
    <2>3. \A i \in 1..Len(stored) : stored[i] \in Paths
        BY <2>1, ElementOfSeq
    <2> QED BY <2>1, <2>2, <2>3 DEF IsInjective
<1>3. Loadable \in SUBSET (1..Len(stored))
    BY <1>1 DEF Loadable
<1>4. IsFiniteSet(Loadable) /\ n \in Nat
    <2>1. IsFiniteSet(1..Len(stored))
        BY <1>1, FS_Interval
    <2>2. IsFiniteSet(Loadable)
        BY <1>3, <2>1, FS_Subset
    <2> QED BY <2>2, FS_CardinalityType
<1>5. \A i \in Loadable : /\ i \in 1..Len(stored) /\ files[stored[i]] \in Names
                          /\ Coherent(Library[files[stored[i]]])
    BY <1>1, <1>3 DEF Loadable, Loads, TypeOK
<1> HIDE DEF n
<1>6. DOMAIN pick = 1..n /\ n \in Nat
      /\ \A j \in 1..n : pick[j] \in Loadable /\ pick[j] \in 1..Len(stored)
    BY <1>3, <1>4 DEF n
<1>7. \A j, k \in 1..n : pick[j] = pick[k] => j = k
    <2> SUFFICES ASSUME NEW j \in 1..n, NEW k \in 1..n, pick[j] = pick[k], j # k PROVE FALSE
        OBVIOUS
    <2>1. \A i \in 1..Len(stored) : ~(i < i)
        BY <1>1
    <2>2. j < k \/ k < j
        BY <1>6
    <2> QED BY <1>6, <2>1, <2>2
<1>8. /\ s = [j \in 1..n |-> Loaded(stored[pick[j]])]
      /\ \A j \in 1..n : s[j] = [path |-> stored[pick[j]], name |-> files[stored[pick[j]]]]
    BY <1>6 DEF Loaded
<1>9. ASSUME NEW j \in 1..n
      PROVE  /\ s[j] \in Entries /\ s[j].path = stored[pick[j]]
             /\ Coherent(Library[s[j].name])
    <2>1. stored[pick[j]] \in Paths /\ files[stored[pick[j]]] \in Names
          /\ Coherent(Library[files[stored[pick[j]]]])
        BY <1>1, <1>5, <1>6
    <2>2. s[j] = [path |-> stored[pick[j]], name |-> files[stored[pick[j]]]]
        BY <1>8
    <2> HIDE DEF s
    <2> QED BY <2>1, <2>2 DEF Entries
<1>10. s \in Seq(Entries) /\ Len(s) = n
    <2>1. s \in [1..n -> Entries]
        BY <1>8, <1>9
    <2> HIDE DEF s
    <2> QED BY <1>6, <2>1, FunctionSequence
<1> HIDE DEF s
<1>11. /\ DOMAIN s = 1..n /\ DOMAIN PathsOf(s) = 1..n
       /\ \A j \in 1..n : PathsOf(s)[j] = stored[pick[j]]
    <2>1. /\ DOMAIN s = 1..n /\ DOMAIN PathsOf(s) = 1..n
          /\ \A j \in 1..n : PathsOf(s)[j] = s[j].path
        BY <1>10, PathsSequence
    <2> QED BY <1>9, <2>1
<1>12. IsInjective(PathsOf(s))
    BY <1>1, <1>6, <1>7, <1>11 DEF IsInjective
<1>13. \A j \in DOMAIN s : Coherent(Library[s[j].name])
    BY <1>9, <1>11
<1>14. \A i \in Loadable : \E j \in 1..n : pick[j] = i
    <2>1. IsFiniteSet(1..n) /\ Cardinality(1..n) = n
        <3>1. IsFiniteSet(1..n) /\ Cardinality(1..n) = IF 1 > n THEN 0 ELSE n - 1 + 1
            BY <1>4, FS_Interval
        <3>2. (IF 1 > n THEN 0 ELSE n - 1 + 1) = n
            BY <1>4
        <3> QED BY <3>1, <3>2
    <2>2. pick \in Injection(1..n, Loadable)
        BY <1>6, <1>7 DEF Injection, IsInjective, n
    <2>3. pick \in Surjection(1..n, Loadable)
        BY <1>4, <2>1, <2>2, FS_Injection DEF n
    <2> QED BY <2>3 DEF Surjection
<1>15. gone \subseteq Paths
    BY <1>1
<1>16. ToSet(PathsOf(s)) = ToSet(stored) \ gone
    <2>1. ASSUME NEW x \in ToSet(PathsOf(s)) PROVE x \in ToSet(stored) \ gone
        <3>1. PICK j \in 1..n : x = stored[pick[j]]
            BY <1>11 DEF ToSet
        <3>2. \A i \in DOMAIN stored \ Loadable : stored[i] # x
            BY <1>1, <1>6, <3>1
        <3> QED BY <1>1, <1>6, <3>1, <3>2 DEF ToSet
    <2>2. ASSUME NEW x \in ToSet(stored), x \notin gone PROVE x \in ToSet(PathsOf(s))
        <3>1. PICK i \in 1..Len(stored) : x = stored[i]
            BY <1>1 DEF ToSet
        <3>2. i \in Loadable
            BY <1>1, <2>2, <3>1
        <3>3. PICK j \in 1..n : pick[j] = i
            BY <1>14, <3>2
        <3> QED BY <1>11, <3>1, <3>3 DEF ToSet
    <2> QED BY <2>1, <2>2
<1> QED BY <1>10, <1>12, <1>13, <1>15, <1>16 DEF ListOK, s, n, gone

-----------------------------------------------------------------------------
(* The log *)

\* The lines numbered from a on and below b.
Lines(a, b) == [i \in 1..(b - a) |-> a + i - 1]

\* Such lines are a sequence.
LEMMA LinesSequence ==
    ASSUME NEW a \in Nat, NEW b \in Nat, a <= b
    PROVE  Lines(a, b) \in Seq(Nat) /\ Len(Lines(a, b)) = b - a
           /\ \A i \in 1..(b - a) : Lines(a, b)[i] = a + i - 1
<1> DEFINE m == b - a
           s == Lines(a, b)
<1>1. m \in Nat
    OBVIOUS
<1>2. s \in [1..m -> Nat] /\ \A i \in 1..m : s[i] = a + i - 1
    BY DEF Lines
<1> HIDE DEF s, m
<1>3. s \in Seq(Nat) /\ Len(s) = m
    BY <1>1, <1>2, FunctionSequence
<1> QED BY <1>2, <1>3 DEF s, m

\* What the window keeps of the lines it has and those it gets at a poll: the newest, with
\* none missing, also when the ring has lost some in between.
LEMMA PollShows ==
    ASSUME NEW C \in Nat \ {0}, NEW S \in Nat, NEW N \in Nat, S <= N
    PROVE  LET f0 == IF S > C THEN S - C ELSE 0
               f1 == IF N - C > S THEN N - C ELSE S
               f2 == IF N > C THEN N - C ELSE 0
               all == Lines(f0, S) \o Lines(f1, N)
           IN  SubSeq(all, 1 + (IF Len(all) > C THEN Len(all) - C ELSE 0), Len(all)) = Lines(f2, N)
<1> DEFINE f0 == IF S > C THEN S - C ELSE 0
           f1 == IF N - C > S THEN N - C ELSE S
           f2 == IF N > C THEN N - C ELSE 0
           old == Lines(f0, S)
           new == Lines(f1, N)
           all == old \o new
           L == Len(all)
           p == IF L > C THEN L - C ELSE 0
           got == SubSeq(all, 1 + p, L)
<1>1. /\ f0 \in Nat /\ f0 <= S /\ f1 \in Nat /\ f1 <= N /\ f2 \in Nat /\ f2 <= N
      /\ f0 = (IF S > C THEN S - C ELSE 0) /\ f1 = (IF N - C > S THEN N - C ELSE S)
      /\ f2 = (IF N > C THEN N - C ELSE 0)
    OBVIOUS
<1> HIDE DEF f0, f1, f2
<1>2. old \in Seq(Nat) /\ Len(old) = S - f0 /\ \A i \in 1..(S - f0) : old[i] = f0 + i - 1
    BY <1>1, LinesSequence, ZenonT(40)
<1>3. new \in Seq(Nat) /\ Len(new) = N - f1 /\ \A i \in 1..(N - f1) : new[i] = f1 + i - 1
    BY <1>1, LinesSequence, ZenonT(40)
<1> HIDE DEF old, new
<1>4. /\ all \in Seq(Nat) /\ L = (S - f0) + (N - f1)
      /\ \A i \in 1..L : all[i] = IF i <= S - f0 THEN old[i] ELSE new[i - (S - f0)]
    <2>1. all \in Seq(Nat) /\ L = Len(old) + Len(new)
          /\ \A i \in 1..Len(old) + Len(new) :
                all[i] = IF i <= Len(old) THEN old[i] ELSE new[i - Len(old)]
        BY <1>2, <1>3, ConcatProperties
    <2> HIDE DEF all, L
    <2> QED BY <1>2, <1>3, <2>1
<1> HIDE DEF all
<1>5. L \in Nat /\ p \in Nat /\ p <= L /\ L - p = N - f2
    <2> HIDE DEF L
    <2> QED BY <1>1, <1>4
<1>6. \A i \in 1..L : all[i] \in Nat
    BY <1>4, ElementOfSeq
<1> HIDE DEF L
<1>7. p = (IF L > C THEN L - C ELSE 0)
    OBVIOUS
<1> HIDE DEF p
<1>8. /\ got \in Seq(Nat) /\ Len(got) = L - p
      /\ \A i \in 1..L - p : got[i] = all[p + i]
    <2>1. 1 + p \in Int /\ L \in Int /\ \A i \in 1 + p..L : all[i] \in Nat
        BY <1>5, <1>6
    <2>2. /\ got \in Seq(Nat)
          /\ Len(got) = IF 1 + p <= L THEN L - (1 + p) + 1 ELSE 0
          /\ \A i \in 1..L - (1 + p) + 1 : got[i] = all[(1 + p) + i - 1]
        BY <2>1, SubSeqProperties
    <2> HIDE DEF got
    <2>3. \A i \in 1..L - p : i \in 1..L - (1 + p) + 1 /\ (1 + p) + i - 1 = p + i
        BY <1>5
    <2>4. Len(got) = L - p
        BY <1>5, <2>2
    <2>5. ASSUME NEW i \in 1..L - p PROVE got[i] = all[p + i]
        BY <2>2, <2>3
    <2> QED BY <2>2, <2>4, <2>5
<1> HIDE DEF got
<1>9. ASSUME NEW i \in 1..N - f2 PROVE got[i] = f2 + i - 1
    <2>1. i \in 1..L - p /\ p + i \in 1..L /\ i \in Nat /\ i >= 1
        BY <1>1, <1>5
    <2>2. got[i] = IF p + i <= S - f0 THEN old[p + i] ELSE new[p + i - (S - f0)]
        <3>1. got[i] = all[p + i]
            BY <1>8, <2>1
        <3>2. ASSUME NEW k \in 1..L
              PROVE  all[k] = IF k <= S - f0 THEN old[k] ELSE new[k - (S - f0)]
            BY <1>4
        <3>3. all[p + i] = IF p + i <= S - f0 THEN old[p + i] ELSE new[p + i - (S - f0)]
            BY <1>1, <1>5, <2>1, <3>2
        <3> QED BY <3>1, <3>3
    <2>3. CASE p + i <= S - f0
        <3>1. p + i \in 1..(S - f0) /\ f0 + (p + i) - 1 = f2 + i - 1
            BY <1>1, <1>4, <1>5, <1>7, <2>1, <2>3
        <3> QED BY <1>2, <2>2, <2>3, <3>1
    <2>4. CASE ~(p + i <= S - f0)
        <3>1. p + i - (S - f0) \in 1..(N - f1) /\ f1 + (p + i - (S - f0)) - 1 = f2 + i - 1
            BY <1>1, <1>4, <1>5, <1>7, <2>1, <2>4
        <3> QED BY <1>3, <2>2, <2>4, <3>1
    <2> QED BY <2>3, <2>4
<1>10. got = Lines(f2, N)
    <2>1. /\ Lines(f2, N) \in Seq(Nat) /\ Len(Lines(f2, N)) = N - f2
          /\ \A i \in 1..(N - f2) : Lines(f2, N)[i] = f2 + i - 1
        BY <1>1, LinesSequence, ZenonT(40)
    <2>2. Len(got) = N - f2
        BY <1>5, <1>8
    <2> QED BY <1>8, <1>9, <2>1, <2>2, SeqEqual
<1> QED BY <1>10 DEF got, p, L, all, old, new, f0, f1, f2


-----------------------------------------------------------------------------
(* The name on the wire *)

\* The ECH of a dial is one of the three there are.
LEMMA EchType ==
    ASSUME NEW p, NEW dns \in BOOLEAN
    PROVE  Dialed(p, dns).ech \in {"none", "grease", "real"}
<1>1. Ech(p, dns) \in {"none", "grease", "real"}
    BY DEF Ech
<1> QED BY <1>1 DEF Dialed

\* A profile that passed validate and has an endpoint is dialed with the ECHConfigList where
\* its name decides, unless the carrier is a datagram one.
LEMMA VettedHidden ==
    ASSUME NEW p, NEW dns \in BOOLEAN, Coherent(p), p.endpoint.given, NeedsEch(p),
           Dialed(p, dns).mode # "datagram"
    PROVE  Dialed(p, dns).ech = "real"
<1>1. EchErrors(p) = {} /\ EndpointErrors(p) = {}
    BY DEF Coherent, Errors
<1>2. p.ech
    <2>1. When(NeedsEch(p) /\ ~p.ech, "ech_required") = {}
        BY <1>1 DEF EchErrors
    <2> QED BY <2>1 DEF When
<1>3. p.endpoint.config
    <2>1. When(p.ech /\ Strict(p) /\ ~p.endpoint.config, "ech_config_missing") = {}
        BY <1>1 DEF EndpointErrors
    <2>2. Strict(p)
        BY DEF NeedsEch
    <2> QED BY <1>2, <2>1, <2>2 DEF When
<1>4. Ech(p, dns) = "real"
    BY <1>3 DEF Ech
<1>5. p.mode # "datagram"
    BY DEF Dialed, CarrierMode
<1> QED BY <1>4, <1>5 DEF Dialed

-----------------------------------------------------------------------------
(* The three parts of the invariant: the list, the task and the log *)

ListInv ==
    /\ files \in [Paths -> Names \cup {NoFile}]
    /\ stored \in Seq(Paths) /\ IsInjective(stored)
    /\ open \in BOOLEAN /\ unsaved \in BOOLEAN
    /\ wanted \subseteq Paths /\ missing \subseteq Paths
    /\ ListOK(list) /\ KeptUnlessRemoved

TaskInv ==
    /\ task \in {"none", "running", "ended"} /\ using \subseteq Names
    /\ link \in LinkStates /\ shown \in LinkStates
    /\ dialed.from \in Names \cup {NoFile} /\ dialed.ech \in {"none", "grease", "real"}
    /\ Vetted /\ NameHidden

LogInv ==
    /\ next_seq \in 0..MaxLines /\ log_since \in 0..MaxLines /\ log_since <= next_seq
    /\ Len(log) <= LogCap /\ NewestLinesShown

\* The parts make the whole.
LEMMA Parts == IInv <=> ListInv /\ TaskInv /\ LogInv
BY DEF IInv, TypeOK, ListInv, TaskInv, LogInv, ListOK

\* The invariant holds initially.
LEMMA InitIInv == Init => IInv
<1> SUFFICES ASSUME Init PROVE ListInv /\ TaskInv /\ LogInv
    BY Parts
<1>1. <<>> \in Seq(Paths) /\ Len(<<>>) = 0 /\ DOMAIN <<>> = {}
    BY EmptySeq
<1>2. ListInv
    <2>1. open \in BOOLEAN /\ unsaved \in BOOLEAN /\ ~open
        BY DEF Init
    <2>2. ListOK(list)
        BY EmptyList DEF Init
    <2>3. KeptUnlessRemoved
        BY <1>1, <2>1 DEF Init, KeptUnlessRemoved, ToSet
    <2> QED BY <1>1, <2>1, <2>2, <2>3 DEF Init, ListInv, IsInjective
<1>3. TaskInv
    BY DEF Init, TaskInv, LinkStates, Vetted, NameHidden, NoDial
<1>4. LogInv
    BY <1>1, DesktopAssumption DEF Init, LogInv, NewestLinesShown
<1> QED BY <1>2, <1>3, <1>4


-----------------------------------------------------------------------------
\* Every step keeps the list and what is stored of it.
LEMMA ListKept == ASSUME IInv, [Next]_vars PROVE ListInv'
<1>1. /\ ListInv /\ ListOK(list) /\ PathsOf(list) \in Seq(Paths) /\ IsInjective(PathsOf(list))
      /\ TypeOK
    BY Parts, PathsSequence DEF ListInv, ListOK, IInv
<1> DEFINE Goal == ListInv'
<1>a. ASSUME NEW l, ListOK(l), list' = l, NEW want \in SUBSET Paths, NEW gone \in SUBSET Paths,
             Save(l, want, gone), ToSet(PathsOf(l)) = want \ gone, open' \in BOOLEAN,
             files' \in [Paths -> Names \cup {NoFile}]
      PROVE  Goal
    <2>1. PathsOf(l) \in Seq(Paths) /\ IsInjective(PathsOf(l))
        BY <1>a, PathsSequence DEF ListOK
    <2>2. <<>> \in Seq(Paths) /\ IsInjective(<<>>)
        <3>1. <<>> \in Seq(Paths) /\ DOMAIN <<>> = {}
            BY EmptySeq
        <3> QED BY <3>1 DEF IsInjective
    <2>3. stored \in Seq(Paths) /\ IsInjective(stored)
        BY <1>1 DEF ListInv
    <2>4. unsaved' \in BOOLEAN /\ (stored' = PathsOf(l) \/ (unsaved' /\ stored' \in {stored, <<>>}))
        BY <1>a DEF Save, Persist
    <2>5. stored' \in Seq(Paths) /\ IsInjective(stored')
        BY <2>1, <2>2, <2>3, <2>4
    <2>6. /\ wanted' = (IF unsaved' THEN want ELSE want \ gone)
          /\ missing' = (IF unsaved' THEN gone ELSE {})
        BY <1>a DEF Save
    <2>7. wanted' \in SUBSET Paths /\ missing' \in SUBSET Paths /\ wanted' \ missing' = want \ gone
        BY <2>6
    <2>8. ~unsaved' => stored' = PathsOf(l) /\ wanted' = want \ gone
        BY <2>4, <2>6
    <2>9. KeptUnlessRemoved'
        BY <1>a, <2>7, <2>8 DEF KeptUnlessRemoved, PathsOf
    <2>10. ListOK(list)'
        BY <1>a DEF ListOK, PathsOf
    <2> QED BY <1>a, <2>4, <2>5, <2>7, <2>9, <2>10 DEF ListInv, IsInjective
<1>b. ASSUME UNCHANGED <<stored, open, list, missing, wanted, unsaved>>,
             files' \in [Paths -> Names \cup {NoFile}]
      PROVE  Goal
    BY <1>1, <1>b DEF ListInv, IsInjective, KeptUnlessRemoved, ListOK, PathsOf, ToSet
<1>c. /\ files \in [Paths -> Names \cup {NoFile}] /\ wanted \in SUBSET Paths
      /\ missing \in SUBSET Paths /\ open \in BOOLEAN
    BY <1>1 DEF ListInv
<1>d. (open => ToSet(PathsOf(list)) = wanted \ missing) /\ (~unsaved => ToSet(stored) = wanted)
    BY <1>1 DEF ListInv, KeptUnlessRemoved
<1> HIDE DEF Goal
<1>2. ASSUME NEW path \in Paths, NEW content \in Names \cup {NoFile}, FileChanges(path, content)
      PROVE  Goal
    BY <1>2, <1>b, <1>c DEF FileChanges, app, history
<1>3. ASSUME NEW autostart \in BOOLEAN, OpenApp(autostart) PROVE Goal
    <2> DEFINE want == IF unsaved THEN ToSet(stored) ELSE wanted
               gone == {stored[i] : i \in DOMAIN stored \ Loadable}
    <2>1. PICK pick \in [1..Cardinality(Loadable) -> Loadable] :
            LET entries == [j \in DOMAIN pick |-> Loaded(stored[pick[j]])]
            IN  /\ \A j, k \in DOMAIN pick : j < k => pick[j] < pick[k]
                /\ open' = TRUE /\ list' = entries /\ UNCHANGED files
                /\ \/ Save(entries, want, gone)
                   \/ wanted' = want /\ missing' = gone /\ unsaved' = FALSE /\ stored' = stored
        BY <1>3 DEF OpenApp
    <2> DEFINE s == [j \in DOMAIN pick |-> Loaded(stored[pick[j]])]
    <2>2. ListOK(s) /\ gone \in SUBSET Paths /\ ToSet(PathsOf(s)) = ToSet(stored) \ gone
        BY <1>1, <2>1, OpenedPaths
    <2>3. /\ open' = TRUE /\ list' = s /\ files' = files
          /\ \/ Save(s, want, gone)
             \/ wanted' = want /\ missing' = gone /\ unsaved' = FALSE /\ stored' = stored
        BY <2>1
    <2> HIDE DEF s, gone
    <2>4. stored \in Seq(Paths) /\ IsInjective(stored)
        BY <1>1 DEF ListInv
    <2>5. want = ToSet(stored)
        BY <1>d
    <2>6. ToSet(stored) \in SUBSET Paths
        <3>1. DOMAIN stored = 1..Len(stored) /\ \A i \in 1..Len(stored) : stored[i] \in Paths
            BY <2>4, LenProperties, ElementOfSeq
        <3> QED BY <3>1 DEF ToSet
    <2> HIDE DEF want
    <2>7. CASE Save(s, want, gone)
        BY <1>a, <1>c, <2>2, <2>3, <2>5, <2>6, <2>7
    <2>8. CASE wanted' = want /\ missing' = gone /\ unsaved' = FALSE /\ stored' = stored
        <3>1. stored' \in Seq(Paths) /\ IsInjective(stored')
            BY <2>4, <2>8
        <3>2. KeptUnlessRemoved'
            BY <2>2, <2>3, <2>5, <2>8 DEF KeptUnlessRemoved, PathsOf, ToSet
        <3>3. ListOK(list)'
            BY <2>2, <2>3 DEF ListOK, PathsOf
        <3>4. unsaved' \in BOOLEAN /\ open' \in BOOLEAN
            BY <2>3, <2>8
        <3> QED BY <1>c, <2>2, <2>3, <2>5, <2>6, <2>8, <3>1, <3>2, <3>3, <3>4
                DEF ListInv, IsInjective, Goal
    <2> QED BY <2>3, <2>7, <2>8
<1>4. ASSUME CloseApp PROVE Goal
    <2>1. /\ list' = <<>> /\ open' = FALSE /\ missing' = {}
          /\ UNCHANGED <<files, stored, wanted, unsaved>>
        BY <1>4 DEF CloseApp
    <2>2. ListOK(list)'
        BY <2>1, EmptyList DEF ListOK, PathsOf
    <2>3. KeptUnlessRemoved'
        BY <1>d, <2>1 DEF KeptUnlessRemoved, ToSet
    <2>4. open' \in BOOLEAN /\ missing' \subseteq Paths
        BY <2>1
    <2> QED BY <1>1, <2>1, <2>2, <2>3, <2>4 DEF ListInv, IsInjective, Goal
<1>5. ASSUME NEW path \in Paths, AddPath(path) PROVE Goal
    <2>1. /\ open /\ ~Listed(path) /\ Loads(path)
          /\ list' = Append(list, Loaded(path)) /\ UNCHANGED <<files, open>>
          /\ Save(Append(list, Loaded(path)), wanted \cup {path}, missing \ {path})
        BY <1>5 DEF AddPath
    <2>2. /\ Loaded(path) \in Entries /\ Loaded(path).path = path
          /\ Coherent(Library[Loaded(path).name]) /\ path \notin ToSet(PathsOf(list))
        BY <1>c, <2>1 DEF Loaded, Loads, Entries, Listed
    <2>3. /\ ListOK(Append(list, Loaded(path)))
          /\ ToSet(PathsOf(Append(list, Loaded(path)))) = ToSet(PathsOf(list)) \cup {path}
        BY <1>1, <2>2, AppendedPaths
    <2>4. ToSet(PathsOf(list)) \cup {path} = (wanted \cup {path}) \ (missing \ {path})
        BY <1>d, <2>1
    <2>5. wanted \cup {path} \in SUBSET Paths /\ missing \ {path} \in SUBSET Paths
        BY <1>c
    <2> QED BY <1>a, <1>c, <2>1, <2>3, <2>4, <2>5
<1>6. ASSUME NEW name \in Names, Paste(name) PROVE Goal
    <2> DEFINE e == [path |-> PastePath, name |-> name]
    <2>1. /\ open /\ Coherent(Library[name]) /\ UNCHANGED open
          /\ files' = [files EXCEPT ![PastePath] = name]
          /\ Listed(PastePath) => UNCHANGED <<stored, list, wanted, missing, unsaved>>
          /\ ~Listed(PastePath) =>
                /\ list' = Append(list, e)
                /\ Save(Append(list, e), wanted \cup {PastePath}, missing \ {PastePath})
        BY <1>6 DEF Paste, history
    <2>2. PastePath \in Paths /\ files' \in [Paths -> Names \cup {NoFile}]
        BY <1>c, <2>1, DesktopAssumption
    <2>3. CASE Listed(PastePath)
        BY <1>b, <2>1, <2>2, <2>3
    <2>4. CASE ~Listed(PastePath)
        <3>1. /\ e \in Entries /\ e.path = PastePath /\ Coherent(Library[e.name])
              /\ PastePath \notin ToSet(PathsOf(list))
            BY <2>1, <2>2, <2>4 DEF Entries, Listed
        <3> HIDE DEF e
        <3>2. /\ ListOK(Append(list, e))
              /\ ToSet(PathsOf(Append(list, e))) = ToSet(PathsOf(list)) \cup {PastePath}
            BY <1>1, <3>1, AppendedPaths
        <3>3. ToSet(PathsOf(list)) \cup {PastePath}
                = (wanted \cup {PastePath}) \ (missing \ {PastePath})
            BY <1>d, <2>1
        <3>4. wanted \cup {PastePath} \in SUBSET Paths /\ missing \ {PastePath} \in SUBSET Paths
            BY <1>c, <2>2
        <3> QED BY <1>a, <1>c, <2>1, <2>2, <2>4, <3>2, <3>3, <3>4
    <2> QED BY <2>3, <2>4
<1>7. ASSUME NEW i \in 1..Len(list), RemoveEntry(i) PROVE Goal
    <2>1. /\ open /\ list' = RemoveAt(list, i) /\ UNCHANGED <<files, open>>
          /\ Save(RemoveAt(list, i), wanted \ {list[i].path}, missing)
        BY <1>7 DEF RemoveEntry
    <2>2. /\ ListOK(RemoveAt(list, i))
          /\ ToSet(PathsOf(RemoveAt(list, i))) = ToSet(PathsOf(list)) \ {list[i].path}
        BY <1>1, RemovedPaths
    <2>3. /\ ToSet(PathsOf(RemoveAt(list, i))) = (wanted \ {list[i].path}) \ missing
          /\ wanted \ {list[i].path} \in SUBSET Paths
        BY <1>c, <1>d, <2>1, <2>2
    <2> QED BY <1>a, <1>c, <2>1, <2>2, <2>3
<1>8. ASSUME Clear PROVE Goal
    <2>1. list' = <<>> /\ Save(<<>>, {}, missing) /\ UNCHANGED <<files, open>>
        BY <1>8 DEF Clear
    <2>2. ToSet(PathsOf(<<>>)) = {} \ missing /\ {} \in SUBSET Paths
        BY EmptyList
    <2> QED BY <1>a, <1>c, <2>1, <2>2, EmptyList
<1>9. ASSUME EditSettings \/ Connect \/ ConnectFails PROVE Goal
    <2>1. open /\ Save(list, wanted, missing) /\ UNCHANGED <<files, open, list>>
        BY <1>9 DEF EditSettings, Connect, ConnectFails, app
    <2> QED BY <1>1, <1>a, <1>c, <1>d, <2>1
<1>10. ASSUME \/ Disconnect \/ Poll \/ LinkLost \/ Fatal \/ UNCHANGED vars
              \/ \E name \in Names, dns \in BOOLEAN : Dial(name, dns)
       PROVE  Goal
    <2>1. UNCHANGED <<files, stored, open, list, missing, wanted, unsaved>>
        BY <1>10 DEF Disconnect, Poll, LinkLost, Fatal, Dial, Background, vars, app, history
    <2> QED BY <1>b, <1>c, <2>1
<1>11. Goal
    BY <1>2, <1>3, <1>4, <1>5, <1>6, <1>7, <1>8, <1>9, <1>10 DEF Next
<1> QED BY <1>11 DEF Goal


\* Every step keeps to profiles that were vetted, and dials them under their own name only
\* where that is allowed.
LEMMA TaskKept == ASSUME IInv, [Next]_vars PROVE TaskInv'
<1>1. TaskInv /\ ListOK(list) /\ TypeOK
    BY Parts DEF TaskInv, IInv
<1> DEFINE Goal == TaskInv'
<1>a. ASSUME UNCHANGED <<dialed, using>>, task' \in {"none", "running", "ended"},
             link' \in LinkStates, shown' \in LinkStates
      PROVE  Goal
    BY <1>1, <1>a DEF TaskInv, Vetted, NameHidden
<1>b. ASSUME NEW l, ListOK(l), task' \in {"none", "running"}, link' = "idle", shown' \in LinkStates,
             dialed' = NoDial, using' = {l[i].name : i \in DOMAIN l}
      PROVE  Goal
    <2>1. \A i \in DOMAIN l : l[i].name \in Names
        BY <1>b, PathsSequence DEF ListOK, Entries
    <2>2. using' \subseteq Names /\ Vetted'
        BY <1>b, <2>1 DEF Vetted, ListOK
    <2>3. dialed'.from \in Names \cup {NoFile} /\ dialed'.ech \in {"none", "grease", "real"}
        BY <1>b DEF NoDial
    <2>4. NameHidden'
        BY <1>b DEF NameHidden, NoDial
    <2> QED BY <1>b, <2>2, <2>3, <2>4 DEF TaskInv, LinkStates
<1>c. link \in LinkStates /\ shown \in LinkStates /\ task \in {"none", "running", "ended"}
    BY <1>1 DEF TaskInv
<1> HIDE DEF Goal
<1>2. ASSUME NEW autostart \in BOOLEAN, OpenApp(autostart) PROVE Goal
    <2>1. PICK pick \in [1..Cardinality(Loadable) -> Loadable] :
            LET entries == [j \in DOMAIN pick |-> Loaded(stored[pick[j]])]
            IN  /\ \A j, k \in DOMAIN pick : j < k => pick[j] < pick[k]
                /\ \/ StartTask(entries) /\ UNCHANGED shown
                   \/ UNCHANGED <<run, view>>
        BY <1>2 DEF OpenApp
    <2> DEFINE s == [j \in DOMAIN pick |-> Loaded(stored[pick[j]])]
    <2>2. ListOK(s)
        BY <1>1, <2>1, OpenedPaths
    <2>3. (StartTask(s) /\ UNCHANGED shown) \/ UNCHANGED <<run, view>>
        BY <2>1
    <2> HIDE DEF s
    <2>4. CASE StartTask(s) /\ UNCHANGED shown
        BY <1>b, <1>c, <2>2, <2>4 DEF StartTask
    <2>5. CASE UNCHANGED <<run, view>>
        BY <1>a, <1>c, <2>5 DEF run, view
    <2> QED BY <2>3, <2>4, <2>5
<1>3. ASSUME CloseApp PROVE Goal
    <2>1. {<<>>[i].name : i \in DOMAIN <<>>} = {}
        BY EmptySeq
    <2>2. /\ task' = "none" /\ link' = "idle" /\ shown' = "idle" /\ dialed' = NoDial
          /\ using' = {<<>>[i].name : i \in DOMAIN <<>>}
        BY <1>3, <2>1 DEF CloseApp
    <2> QED BY <1>b, <2>2, EmptyList DEF LinkStates
<1>4. ASSUME Connect PROVE Goal
    <2>1. StartTask(list) /\ UNCHANGED shown
        BY <1>4 DEF Connect
    <2> QED BY <1>1, <1>b, <1>c, <2>1 DEF StartTask
<1>5. ASSUME Disconnect PROVE Goal
    <2>1. task' = "none" /\ using' = {} /\ shown' = "idle" /\ UNCHANGED <<link, dialed>>
        BY <1>5 DEF Disconnect
    <2> QED BY <1>1, <2>1 DEF TaskInv, LinkStates, Vetted, NameHidden, Goal
<1>6. ASSUME NEW name \in Names, NEW dns \in BOOLEAN, Dial(name, dns) PROVE Goal
    <2> DEFINE d == Dialed(Library[name], dns)
    <2>1. /\ name \in using /\ Library[name].endpoint.given
          /\ dialed' = [from |-> name, mode |-> d.mode, ech |-> d.ech]
          /\ link' \in LinkStates /\ UNCHANGED <<task, using, shown>>
        BY <1>6 DEF Dial, Usable, Background, view, LinkStates
    <2>2. Coherent(Library[name])
        BY <1>1, <2>1 DEF TaskInv, Vetted
    <2>3. NeedsEch(Library[name]) /\ d.mode # "datagram" => d.ech = "real"
        BY <2>1, <2>2, VettedHidden
    <2>4. d.ech \in {"none", "grease", "real"}
        BY EchType
    <2> HIDE DEF d
    <2>5. dialed'.from = name /\ dialed'.mode = d.mode /\ dialed'.ech = d.ech
        BY <2>1
    <2>6. NameHidden'
        BY <2>3, <2>5 DEF NameHidden
    <2> QED BY <1>1, <2>1, <2>4, <2>5, <2>6 DEF TaskInv, Vetted, Goal
<1>7. ASSUME LinkLost \/ Fatal PROVE Goal
    <2>1. /\ UNCHANGED <<dialed, using, shown>> /\ link' \in LinkStates
          /\ task' \in {"none", "running", "ended"}
        BY <1>7, <1>c DEF LinkLost, Fatal, Background, view, LinkStates
    <2> QED BY <1>a, <1>c, <2>1
<1>8. ASSUME Poll PROVE Goal
    BY <1>8, <1>a, <1>c DEF Poll, run
<1>9. ASSUME \/ EditSettings \/ Clear \/ ConnectFails \/ UNCHANGED vars
             \/ \E i \in 1..Len(list) : RemoveEntry(i)
             \/ \E path \in Paths : \/ AddPath(path)
                                    \/ \E content \in Names \cup {NoFile} : FileChanges(path, content)
             \/ \E name \in Names : Paste(name)
      PROVE  Goal
    <2>1. UNCHANGED <<run, shown>>
        BY <1>9 DEF EditSettings, Clear, ConnectFails, RemoveEntry, AddPath, FileChanges, Paste,
                    vars, view
    <2> QED BY <1>a, <1>c, <2>1 DEF run
<1>10. Goal
    BY <1>2, <1>3, <1>4, <1>5, <1>6, <1>7, <1>8, <1>9 DEF Next
<1> QED BY <1>10 DEF Goal

\* Every step keeps the window's log the newest part of the task's.
LEMMA LogKept == ASSUME IInv, [Next]_vars PROVE LogInv'
<1>1. /\ LogInv /\ LogCap \in Nat \ {0} /\ MaxLines \in Nat
      /\ next_seq \in Nat /\ log_since \in Nat /\ log_since <= next_seq /\ next_seq <= MaxLines
    BY Parts, DesktopAssumption DEF LogInv
<1> DEFINE Goal == LogInv'
<1>a. ASSUME UNCHANGED <<log, log_since>>, task # "none" \/ task' = "none",
             next_seq' \in Nat, next_seq' >= next_seq, next_seq' <= MaxLines
      PROVE  Goal
    <2>1. NewestLinesShown'
        BY <1>1, <1>a DEF LogInv, NewestLinesShown
    <2> QED BY <1>1, <1>a, <2>1 DEF LogInv
<1>b. ASSUME log' = <<>>, log_since' = 0, next_seq' \in 0..MaxLines PROVE Goal
    <2>1. Len(<<>>) = 0 /\ Lines(0, 0) = <<>>
        <3>1. Lines(0, 0) \in Seq(Nat) /\ Len(Lines(0, 0)) = 0
            BY LinesSequence
        <3> QED BY <3>1, EmptySeq
    <2>2. NewestLinesShown'
        BY <1>1, <1>b, <2>1 DEF NewestLinesShown, Lines
    <2> QED BY <1>1, <1>b, <2>1, <2>2 DEF LogInv
<1> HIDE DEF Goal
<1>2. ASSUME NEW autostart \in BOOLEAN, OpenApp(autostart) PROVE Goal
    <2>1. (\E s : StartTask(s)) \/ UNCHANGED <<run, view>>
        BY <1>2 DEF OpenApp
    <2>2. CASE \E s : StartTask(s)
        BY <1>1, <1>b, <2>2 DEF StartTask
    <2>3. CASE UNCHANGED <<run, view>>
        BY <1>1, <1>a, <2>3 DEF run, view
    <2> QED BY <2>1, <2>2, <2>3
<1>3. ASSUME CloseApp \/ Connect PROVE Goal
    <2>1. log' = <<>> /\ log_since' = 0 /\ next_seq' = 0
        BY <1>3 DEF CloseApp, Connect, StartTask
    <2> QED BY <1>1, <1>b, <2>1
<1>4. ASSUME ConnectFails PROVE Goal
    <2>1. log' = <<>> /\ log_since' = 0 /\ next_seq' = next_seq
        BY <1>4 DEF ConnectFails, run
    <2> QED BY <1>1, <1>b, <2>1
<1>5. ASSUME Poll PROVE Goal
    <2> DEFINE f0 == IF log_since > LogCap THEN log_since - LogCap ELSE 0
               f1 == IF next_seq - LogCap > log_since THEN next_seq - LogCap ELSE log_since
               f2 == IF next_seq > LogCap THEN next_seq - LogCap ELSE 0
               all == Lines(f0, log_since) \o Lines(f1, next_seq)
    <2>1. /\ task # "none" /\ log' = Newest(log \o LogsSince(log_since))
          /\ log_since' = next_seq /\ next_seq' = next_seq
        BY <1>5 DEF Poll, run
    <2>2. log = Lines(f0, log_since)
        BY <1>1, <2>1 DEF LogInv, NewestLinesShown, Lines
    <2>3. LogsSince(log_since) = Lines(f1, next_seq)
        BY DEF LogsSince, Lines
    <2>4. log' = SubSeq(all, 1 + (IF Len(all) > LogCap THEN Len(all) - LogCap ELSE 0), Len(all))
        BY <2>1, <2>2, <2>3 DEF Newest
    <2>5. log' = Lines(f2, next_seq)
        BY <1>1, <2>4, PollShows
    <2>6. NewestLinesShown'
        BY <2>1, <2>5 DEF NewestLinesShown, Lines
    <2>7. f2 \in Nat /\ f2 <= next_seq /\ next_seq - f2 <= LogCap
        BY <1>1
    <2> HIDE DEF f2
    <2>8. Len(log') <= LogCap
        BY <1>1, <2>5, <2>7, LinesSequence
    <2> QED BY <1>1, <2>1, <2>6, <2>8 DEF LogInv, Goal
<1>6. ASSUME \/ LinkLost \/ Fatal \/ \E name \in Names, dns \in BOOLEAN : Dial(name, dns)
      PROVE  Goal
    <2>1. task # "none" /\ UNCHANGED <<log, log_since>> /\ Logs(1)
        BY <1>6 DEF LinkLost, Fatal, Dial, Background, view
    <2>2. next_seq' \in Nat /\ next_seq' >= next_seq /\ next_seq' <= MaxLines
        BY <1>1, <2>1 DEF Logs
    <2> QED BY <1>a, <2>1, <2>2
<1>7. ASSUME Disconnect PROVE Goal
    BY <1>1, <1>7, <1>a DEF Disconnect
<1>8. ASSUME \/ EditSettings \/ Clear \/ UNCHANGED vars
             \/ \E i \in 1..Len(list) : RemoveEntry(i)
             \/ \E path \in Paths : \/ AddPath(path)
                                    \/ \E content \in Names \cup {NoFile} : FileChanges(path, content)
             \/ \E name \in Names : Paste(name)
      PROVE  Goal
    <2>1. UNCHANGED <<run, view>>
        BY <1>8 DEF EditSettings, Clear, RemoveEntry, AddPath, FileChanges, Paste, vars
    <2> QED BY <1>1, <1>a, <2>1 DEF run, view
<1>9. Goal
    BY <1>2, <1>3, <1>4, <1>5, <1>6, <1>7, <1>8 DEF Next
<1> QED BY <1>9 DEF Goal

\* The inductive invariant holds in every reachable state.
THEOREM DesktopInvariance == Spec => []IInv
<1>1. IInv /\ [Next]_vars => IInv'
    <2> SUFFICES ASSUME IInv, [Next]_vars PROVE IInv'
        OBVIOUS
    <2>1. ListInv' /\ TaskInv' /\ LogInv'
        BY ListKept, TaskKept, LogKept
    <2> QED BY <2>1 DEF IInv, TypeOK, ListInv, TaskInv, LogInv, ListOK
<1> QED BY InitIInv, <1>1, PTL DEF Spec

-----------------------------------------------------------------------------
\* Type correctness of the window, its settings file and its task.
THEOREM DesktopTyped == Spec => []TypeOK
<1>1. IInv => TypeOK
    BY DEF IInv
<1> QED BY <1>1, DesktopInvariance, PTL

\* In every run the window lists what the user added and did not remove, except what did not
\* load when it was opened, and the settings file holds it unless the last save did not go
\* through: files may come, go and change, and saves fail and tear the settings file.
THEOREM ListIsKept == Spec => []KeptUnlessRemoved
<1>1. IInv => KeptUnlessRemoved
    BY DEF IInv
<1> QED BY <1>1, DesktopInvariance, PTL

\* The window shows the newest lines of the log, whatever the size of the ring and however
\* many lines it lost between two polls.
THEOREM NewestAreShown == Spec => []NewestLinesShown
<1>1. IInv => NewestLinesShown
    BY DEF IInv
<1> QED BY <1>1, DesktopInvariance, PTL

\* For every library of profiles: one that was validated when it was loaded and whose name
\* must be hidden is dialed with its ECHConfigList, even if its file has changed since.
THEOREM NameIsHidden == Spec => []NameHidden
<1>1. IInv => NameHidden
    BY DEF IInv
<1> QED BY <1>1, DesktopInvariance, PTL
=============================================================================

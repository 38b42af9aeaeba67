------------------------- MODULE ServerAdminProofs -------------------------
(***************************************************************************)
(* Proofs about ServerAdmin for any number of issued clients and sessions: *)
(* revoked clients stay out and issued ones are remembered through crashes *)
(* between any two steps, and no status counts a session twice.            *)
(***************************************************************************)
EXTENDS ServerAdmin, FiniteSetTheorems, TLAPS

-----------------------------------------------------------------------------
(* The keyring and its file *)

Keepers ==
    [op : {"none", "seed", "issue", "revoke"}, id : Ids, at : {"free", "open", "write", "answer"}]

\* The types of the variables the keyring is about.
KeyTypes ==
    /\ process \in {"down", "starting", "serving"} /\ clients \in Contents
    /\ file \in Contents \cup {Missing, Torn} /\ coherent \in BOOLEAN
    /\ keeper \in Keepers
    /\ told \in [drawn : SUBSET Issued, issued : SUBSET Issued, revoked : SUBSET Ids]
    /\ faults \subseteq {"torn", "refused"}

\* Connections read what the keyring holds, and a process that is down holds nothing.
ListCurrent ==
    /\ psks = Live(clients)
    /\ process = "down" => clients = Nobody /\ keeper = Free

\* Ids that clients may have: no id is drawn a second time.
Known == told.drawn \cup {Default}

OnlyKnown ==
    /\ \A id \in Ids : clients[id] # "none" => id \in Known
    /\ file \in Contents => \A id \in Ids : file[id] # "none" => id \in Known
    /\ told.revoked \subseteq Known

\* What the holder of the keyring has done to the client it is about.
InHand ==
    /\ keeper.op = "revoke" => clients[keeper.id] = "revoked"
    /\ keeper.op = "issue" => keeper.id \in Issued /\ clients[keeper.id] # "none"

\* The file while no save is under way, and in the middle of one.
FileFollows ==
    "refused" \notin faults =>
        /\ keeper.at = "write" => file = Torn
        /\ process # "down" /\ keeper.at \in {"free", "answer"}
               => file = clients \/ (file = Torn /\ "torn" \in faults)

\* A revocation the panel was told of that nothing excuses.
Standing(id) ==
    id \in told.revoked /\ "refused" \notin faults /\ ~(id = Default /\ "torn" \in faults)

\* It is in memory and in the file; for the client of server.toml the file has to say so,
\* as a keyring without it would be seeded.
RevokedBoth ==
    \A id \in Ids : Standing(id) =>
        /\ clients[id] # "live"
        /\ file \in Contents => file[id] # "live"
        /\ id = Default =>
               /\ process # "down" => clients[id] = "revoked"
               /\ keeper.at # "write" => file \in Contents /\ file[id] = "revoked"

\* An issued client is in memory and in the file.
IssuedBoth ==
    faults = {} => \A id \in told.issued :
        /\ process # "down" => clients[id] # "none"
        /\ keeper.at # "write" => file \in Contents /\ file[id] # "none"

KeyInv ==
    KeyTypes /\ ListCurrent /\ OnlyKnown /\ InHand /\ FileFollows /\ RevokedBoth /\ IssuedBoth

-----------------------------------------------------------------------------
(* Steps of the keyring *)

\* The next step of whoever holds the keyring.
LEMMA KeeperAt ==
    ASSUME NEW k \in Keepers, NEW a \in {"free", "open", "write", "answer"}
    PROVE  /\ [k EXCEPT !.at = a] \in Keepers
           /\ [k EXCEPT !.at = a].op = k.op /\ [k EXCEPT !.at = a].id = k.id
           /\ [k EXCEPT !.at = a].at = a
BY DEF Keepers

\* The keyrings the program makes by itself.
LEMMA MadeKeyrings ==
    /\ Nobody \in Contents /\ \A id \in Ids : Nobody[id] = "none"
    /\ Seed \in Contents /\ Seed[Default] = "live"
    /\ \A id \in Ids : id # Default => Seed[id] = "none"
    /\ Default \in Ids /\ Free \in Keepers
BY DEF Nobody, Seed, Contents, Ids, Free, Keepers

LEMMA InitKeyInv == Init => KeyInv
<1> SUFFICES ASSUME Init PROVE KeyInv
    OBVIOUS
<1> USE MadeKeyrings DEF Init
<1>1. KeyTypes
    BY DEF KeyTypes
<1>2. ListCurrent
    BY DEF ListCurrent, Live
<1>3. OnlyKnown
    BY FileAssumption DEF OnlyKnown, Known
<1>4. InHand /\ FileFollows
    BY DEF InHand, FileFollows, Free
<1>5. RevokedBoth /\ IssuedBoth
    BY DEF RevokedBoth, Standing, IssuedBoth
<1> QED BY <1>1, <1>2, <1>3, <1>4, <1>5 DEF KeyInv

\* Sessions and statuses leave the keyring alone.
LEMMA SameStep == ASSUME KeyInv, Same PROVE KeyInv'
<1> USE DEF Same, keys, history
<1>1. KeyTypes' /\ ListCurrent'
    BY DEF KeyInv, KeyTypes, ListCurrent
<1>2. OnlyKnown' /\ InHand' /\ FileFollows'
    BY DEF KeyInv, OnlyKnown, Known, InHand, FileFollows
<1>3. RevokedBoth' /\ IssuedBoth'
    BY DEF KeyInv, RevokedBoth, Standing, IssuedBoth
<1> QED BY <1>1, <1>2, <1>3 DEF KeyInv

\* A start brings back what the file holds, and seeds only a keyring in which no told
\* revocation of the default client stands.
LEMMA BootStep == ASSUME KeyInv, Boot PROVE KeyInv'
<1>1. /\ process = "down" /\ clients' = Loaded /\ psks' = Live(Loaded)
      /\ UNCHANGED <<file, coherent, told, faults>>
    BY DEF Boot, Resync, history
<1>2. /\ process' \in {"starting", "serving"} /\ keeper' \in Keepers
      /\ keeper'.op \in {"none", "seed"} /\ keeper'.at \in {"free", "open"}
      /\ keeper'.at = "free" => Loaded = file
    BY MadeKeyrings DEF Boot, Free, Keepers
<1>3. keeper = Free /\ keeper.at = "free" /\ file \in Contents \cup {Missing, Torn}
    BY <1>1 DEF KeyInv, ListCurrent, KeyTypes, Free
<1>4. Loaded \in Contents /\ (Loaded = Seed \/ (Loaded = file /\ file \in Contents))
    BY <1>3, MadeKeyrings DEF Loaded
<1>5. Loaded = Seed \/ Loaded = file
    BY <1>4
<1>6. KeyTypes'
    BY <1>1, <1>2, <1>4 DEF KeyInv, KeyTypes
<1>7. ListCurrent'
    BY <1>1, <1>2 DEF ListCurrent
<1>8. OnlyKnown'
    BY <1>1, <1>4, MadeKeyrings DEF KeyInv, OnlyKnown, Known
<1>9. InHand'
    BY <1>2 DEF InHand
<1>10. FileFollows'
    BY <1>1, <1>2 DEF FileFollows
<1>11. RevokedBoth'
    <2> SUFFICES ASSUME NEW id \in Ids, Standing(id)
                 PROVE  /\ Loaded[id] # "live"
                        /\ file \in Contents => file[id] # "live"
                        /\ id = Default => Loaded[id] = "revoked"
                                           /\ file \in Contents /\ file[id] = "revoked"
        BY <1>1 DEF RevokedBoth, Standing
    <2>1. /\ file \in Contents => file[id] # "live"
          /\ id = Default => file \in Contents /\ file[id] = "revoked"
        BY <1>3 DEF KeyInv, RevokedBoth
    <2>2. CASE id = Default
        BY <2>1, <2>2, MadeKeyrings, FileAssumption DEF Loaded
    <2>3. CASE id # Default
        BY <2>1, <2>3, <1>4, MadeKeyrings
    <2> QED BY <2>2, <2>3
<1>12. IssuedBoth'
    <2> SUFFICES ASSUME faults = {}, NEW id \in told.issued
                 PROVE  Loaded[id] # "none" /\ file \in Contents /\ file[id] # "none"
        BY <1>1 DEF IssuedBoth
    <2>1. id \in Ids
        BY DEF KeyInv, KeyTypes, Ids
    <2>2. file \in Contents /\ file[id] # "none"
        BY <1>3 DEF KeyInv, IssuedBoth
    <2> QED BY <2>1, <2>2, MadeKeyrings, FileAssumption DEF Loaded
<1> QED BY <1>6, <1>7, <1>8, <1>9, <1>10, <1>11, <1>12 DEF KeyInv

\* issue, up to the save: the id is a new one, so no revocation is about it.
LEMMA IssueStep == ASSUME KeyInv, NEW id \in Issued, IssueKey(id) PROVE KeyInv'
<1> DEFINE cs == [clients EXCEPT ![id] = "live"]
<1>0. KeyTypes /\ id \in Ids /\ Default \notin Issued
    BY AdminAssumption DEF KeyInv, Ids
<1>1. /\ process = "serving" /\ keeper = Free /\ id \notin told.drawn
      /\ clients' = cs /\ psks' = Live(cs)
      /\ keeper' = [op |-> "issue", id |-> id, at |-> "open"]
      /\ told' = [told EXCEPT !.drawn = @ \cup {id}]
      /\ UNCHANGED <<process, file, coherent, faults>>
    BY DEF IssueKey, Resync
<1>2. cs \in Contents /\ cs[id] = "live" /\ \A i \in Ids : i # id => cs[i] = clients[i]
    <2>1. clients \in Contents
        BY <1>0 DEF KeyTypes
    <2> QED BY <2>1, <1>0 DEF Contents
<1> HIDE DEF cs
<1>3. /\ keeper' \in Keepers /\ keeper'.op = "issue" /\ keeper'.id = id /\ keeper'.at = "open"
    BY <1>0, <1>1 DEF Keepers
<1>4. /\ told'.drawn = told.drawn \cup {id} /\ told'.issued = told.issued
      /\ told'.revoked = told.revoked
      /\ told' \in [drawn : SUBSET Issued, issued : SUBSET Issued, revoked : SUBSET Ids]
    BY <1>0, <1>1 DEF KeyTypes
<1>5. KeyTypes'
    BY <1>0, <1>1, <1>2, <1>3, <1>4 DEF KeyTypes
<1>6. ListCurrent'
    BY <1>1 DEF ListCurrent
<1>7. OnlyKnown'
    BY <1>1, <1>2, <1>4 DEF KeyInv, OnlyKnown, Known
<1>8. InHand' /\ FileFollows'
    BY <1>2, <1>1, <1>3 DEF InHand, FileFollows
<1>9. id \notin told.revoked
    BY <1>0, <1>1 DEF KeyInv, OnlyKnown, Known
<1>10. keeper.at # "write"
    BY <1>1 DEF Free
<1>11. RevokedBoth'
    BY <1>0, <1>1, <1>2, <1>3, <1>4, <1>9, <1>10 DEF KeyInv, RevokedBoth, Standing
<1>12. IssuedBoth'
    <2>1. told.issued \subseteq Ids
        BY <1>0 DEF KeyTypes, Ids
    <2> QED BY <2>1, <1>0, <1>1, <1>2, <1>3, <1>4, <1>10 DEF KeyInv, IssuedBoth
<1> QED BY <1>5, <1>6, <1>7, <1>8, <1>11, <1>12 DEF KeyInv

\* revoke, up to the save or, for a client revoked before, up to the answer.
LEMMA RevokeStep ==
    ASSUME KeyInv, NEW id \in Ids, RevokeKey(id) \/ RevokeAgain(id)
    PROVE  KeyInv'
<1>0. KeyTypes /\ keeper = Free /\ process = "serving" /\ keeper.at = "free"
    BY DEF KeyInv, RevokeKey, RevokeAgain, Free
<1>1. /\ UNCHANGED <<process, file, coherent, told, faults>>
      /\ keeper' \in Keepers /\ keeper'.op = "revoke" /\ keeper'.id = id
      /\ keeper'.at \in {"open", "answer"}
      /\ clients[id] # "none"
    BY DEF RevokeKey, RevokeAgain, history, Keepers
<1>2. /\ clients' \in Contents /\ clients'[id] = "revoked" /\ psks' = Live(clients')
      /\ \A i \in Ids : i # id => clients'[i] = clients[i]
      /\ keeper'.at = "answer" => clients' = clients
    <2>1. CASE RevokeKey(id)
        <3>1. clients \in Contents /\ clients' = [clients EXCEPT ![id] = "revoked"]
              /\ psks' = Live(clients') /\ keeper'.at = "open"
            BY <2>1, <1>0 DEF RevokeKey, Resync, KeyTypes
        <3> QED BY <3>1 DEF Contents
    <2>2. CASE RevokeAgain(id)
        BY <2>2, <1>0 DEF RevokeAgain, KeyTypes, KeyInv, ListCurrent
    <2> QED BY <2>1, <2>2
<1>3. KeyTypes'
    BY <1>0, <1>1, <1>2 DEF KeyTypes
<1>4. ListCurrent'
    BY <1>0, <1>1, <1>2 DEF ListCurrent
<1>5. OnlyKnown'
    BY <1>1, <1>2 DEF KeyInv, OnlyKnown, Known
<1>6. InHand'
    BY <1>1, <1>2 DEF InHand
<1>7. FileFollows'
    BY <1>0, <1>1, <1>2 DEF KeyInv, FileFollows
<1>8. RevokedBoth'
    BY <1>0, <1>1, <1>2 DEF KeyInv, RevokedBoth, Standing
<1>9. IssuedBoth'
    <2>1. told.issued \subseteq Ids
        BY <1>0 DEF KeyTypes, Ids
    <2> QED BY <2>1, <1>0, <1>1, <1>2 DEF KeyInv, IssuedBoth
<1> QED BY <1>3, <1>4, <1>5, <1>6, <1>7, <1>8, <1>9 DEF KeyInv

\* The save: the file is torn and then written, or one of the two fails.
LEMMA PersistStep ==
    ASSUME KeyInv, PersistOpen \/ PersistWrite \/ PersistFails
    PROVE  KeyInv'
<1>0. KeyTypes /\ keeper.at \in {"open", "write"}
    BY DEF KeyInv, PersistOpen, PersistWrite, PersistFails
<1>1. UNCHANGED <<process, clients, psks, coherent, told>>
    BY DEF PersistOpen, PersistWrite, PersistFails, history
<1>2. /\ keeper' \in Keepers /\ keeper'.op = keeper.op /\ keeper'.id = keeper.id
      /\ keeper'.at = (IF PersistOpen THEN "write" ELSE "answer")
    BY <1>0, KeeperAt DEF PersistOpen, PersistWrite, PersistFails, KeyTypes
<1>3. process # "down"
    BY <1>0 DEF KeyInv, ListCurrent, Free
<1>4. /\ PersistOpen => file' = Torn /\ faults' = faults
      /\ ~PersistOpen /\ PersistWrite => file' = clients /\ faults' = faults
      /\ ~PersistOpen /\ ~PersistWrite =>
             /\ file' = file
             /\ faults' = faults \cup {IF keeper.at = "open" THEN "refused" ELSE "torn"}
    BY DEF PersistOpen, PersistWrite, PersistFails, history
<1>5. file' \in Contents \cup {Missing, Torn} /\ faults' \subseteq {"torn", "refused"}
    BY <1>0, <1>4 DEF KeyTypes
<1>6. KeyTypes'
    BY <1>0, <1>1, <1>2, <1>5 DEF KeyTypes
<1>7. ListCurrent' /\ InHand'
    BY <1>1, <1>2, <1>3 DEF KeyInv, ListCurrent, InHand
<1>8. OnlyKnown'
    BY <1>1, <1>4, FileAssumption DEF KeyInv, OnlyKnown, Known
<1>9. FileFollows'
    BY <1>0, <1>1, <1>2, <1>4 DEF KeyInv, FileFollows
<1>10. RevokedBoth'
    BY <1>0, <1>1, <1>2, <1>3, <1>4, FileAssumption DEF KeyInv, KeyTypes, RevokedBoth, Standing, FileFollows
<1>11. IssuedBoth'
    BY <1>0, <1>1, <1>2, <1>3, <1>4 DEF KeyInv, KeyTypes, IssuedBoth
<1> QED BY <1>6, <1>7, <1>8, <1>9, <1>10, <1>11 DEF KeyInv

\* The answer is given when what it says is in the file, or a fault excuses it.
LEMMA AnswerStep == ASSUME KeyInv, Answer \/ AnswerLost PROVE KeyInv'
<1>0. KeyTypes /\ keeper.at = "answer" /\ process # "down"
    BY DEF KeyInv, Answer, AnswerLost, ListCurrent, Free
<1>1. /\ keeper' = Free /\ process' \in {process, "serving"}
      /\ UNCHANGED <<clients, psks, file, coherent, faults>>
    BY DEF Answer, AnswerLost, history
<1>2. keeper' \in Keepers /\ keeper'.op = "none" /\ keeper'.at = "free"
    BY <1>1, MadeKeyrings DEF Free
<1>3. /\ told' \in [drawn : SUBSET Issued, issued : SUBSET Issued, revoked : SUBSET Ids]
      /\ told'.drawn = told.drawn
      /\ told'.issued \subseteq told.issued \cup (IF keeper.op = "issue" THEN {keeper.id} ELSE {})
      /\ told'.revoked \subseteq told.revoked
                               \cup (IF keeper.op = "revoke" THEN {keeper.id} ELSE {})
    <2>1. keeper.op = "issue" => keeper.id \in Issued
        BY DEF KeyInv, InHand
    <2>2. keeper.id \in Ids
        BY <1>0 DEF KeyTypes, Keepers
    <2>3. CASE told' = told
        BY <2>3, <1>0 DEF KeyTypes
    <2>4. CASE keeper.op = "issue" /\ told' = [told EXCEPT !.issued = @ \cup {keeper.id}]
        BY <2>1, <2>4, <1>0 DEF KeyTypes
    <2>5. CASE keeper.op = "revoke" /\ told' = [told EXCEPT !.revoked = @ \cup {keeper.id}]
        BY <2>2, <2>5, <1>0 DEF KeyTypes
    <2>6. CASE Answer
        BY <2>6, <2>3, <2>4, <2>5 DEF Answer
    <2>7. CASE AnswerLost
        BY <2>7, <2>3 DEF AnswerLost, history
    <2> QED BY <2>6, <2>7
<1>4. KeyTypes'
    BY <1>0, <1>1, <1>2, <1>3 DEF KeyTypes
<1>5. ListCurrent' /\ InHand'
    BY <1>0, <1>1, <1>2 DEF KeyInv, ListCurrent, InHand
<1>6. OnlyKnown'
    <2>1. keeper.op = "revoke" => keeper.id \in Known
        BY <1>0 DEF KeyInv, InHand, OnlyKnown, KeyTypes, Keepers
    <2> QED BY <2>1, <1>1, <1>3 DEF KeyInv, OnlyKnown, Known
<1>7. "refused" \notin faults => file = clients \/ (file = Torn /\ "torn" \in faults)
    BY <1>0 DEF KeyInv, FileFollows
<1>8. FileFollows'
    BY <1>1, <1>2, <1>7 DEF FileFollows
<1>9. RevokedBoth'
    <2> SUFFICES ASSUME NEW id \in Ids, Standing(id)'
                 PROVE  /\ clients[id] # "live"
                        /\ file \in Contents => file[id] # "live"
                        /\ id = Default => clients[id] = "revoked"
                                           /\ file \in Contents /\ file[id] = "revoked"
        BY <1>1 DEF RevokedBoth
    <2>1. CASE id \in told.revoked
        BY <2>1, <1>0, <1>1 DEF Standing, KeyInv, RevokedBoth
    <2>2. CASE id \notin told.revoked
        <3>1. clients[id] = "revoked"
            BY <2>2, <1>3 DEF Standing, KeyInv, InHand
        <3> QED BY <3>1, <1>0, <1>1, <1>7, FileAssumption DEF Standing, KeyTypes
    <2> QED BY <2>1, <2>2
<1>10. IssuedBoth'
    <2> SUFFICES ASSUME faults = {}, NEW id \in told'.issued
                 PROVE  clients[id] # "none" /\ file \in Contents /\ file[id] # "none"
        BY <1>1 DEF IssuedBoth
    <2>1. CASE id \in told.issued
        BY <2>1, <1>0 DEF KeyInv, IssuedBoth
    <2>2. CASE id \notin told.issued
        BY <2>2, <1>0, <1>3, <1>7 DEF KeyInv, InHand, KeyTypes
    <2> QED BY <2>1, <2>2
<1> QED BY <1>4, <1>5, <1>6, <1>8, <1>9, <1>10 DEF KeyInv

\* A crash loses what is in memory; in the middle of a save it tears the file.
LEMMA CrashStep == ASSUME KeyInv, Crash PROVE KeyInv'
<1>0. KeyTypes /\ process # "down"
    BY DEF KeyInv, Crash
<1>1. /\ process' = "down" /\ clients' = Nobody /\ psks' = {} /\ keeper' = Free
      /\ faults' = (IF keeper.at = "write" THEN faults \cup {"torn"} ELSE faults)
      /\ UNCHANGED <<file, coherent, told>>
    BY DEF Crash
<1>2. keeper'.op = "none" /\ keeper'.at = "free"
    BY <1>1 DEF Free
<1>3. KeyTypes'
    BY <1>0, <1>1, MadeKeyrings DEF KeyTypes
<1>4. ListCurrent'
    BY <1>1, MadeKeyrings DEF ListCurrent, Live
<1>5. OnlyKnown'
    BY <1>1, MadeKeyrings DEF KeyInv, OnlyKnown, Known
<1>6. InHand' /\ FileFollows'
    BY <1>1, <1>2 DEF InHand, FileFollows
<1>7. RevokedBoth'
    <2> SUFFICES ASSUME NEW id \in Ids, Standing(id)'
                 PROVE  /\ file \in Contents => file[id] # "live"
                        /\ id = Default => file \in Contents /\ file[id] = "revoked"
        BY <1>1, MadeKeyrings DEF RevokedBoth
    <2>1. Standing(id) /\ (id = Default => keeper.at # "write")
        BY <1>1 DEF Standing
    <2> QED BY <2>1 DEF KeyInv, RevokedBoth
<1>8. IssuedBoth'
    BY <1>1 DEF KeyInv, IssuedBoth
<1> QED BY <1>3, <1>4, <1>5, <1>6, <1>7, <1>8 DEF KeyInv

\* Every step preserves the invariant of the keyring.
LEMMA NextKeyInv == KeyInv /\ [Next]_vars => KeyInv'
<1> SUFFICES ASSUME KeyInv, [Next]_vars PROVE KeyInv'
    OBVIOUS
<1>1. CASE Boot \/ Crash
    BY <1>1, BootStep, CrashStep
<1>2. CASE PersistOpen \/ PersistWrite \/ PersistFails \/ Answer \/ AnswerLost
    BY <1>2, PersistStep, AnswerStep
<1>3. CASE \/ \E id \in Issued : IssueKey(id)
           \/ \E id \in Ids : RevokeKey(id) \/ RevokeAgain(id)
    BY <1>3, IssueStep, RevokeStep
<1>4. CASE \/ \E s \in Sids : SessionCounted(s) \/ SessionListed(s) \/ Count(s) \/ SessionEnd(s)
           \/ StatusLoad \/ StatusSum
    <2>1. Same
        BY <1>4 DEF SessionCounted, SessionListed, Count, SessionEnd, StatusLoad, StatusSum
    <2> QED BY <2>1, SameStep
<1>5. CASE UNCHANGED vars
    <2>1. Same
        BY <1>5 DEF vars, Same
    <2> QED BY <2>1, SameStep
<1> QED BY <1>1, <1>2, <1>3, <1>4, <1>5 DEF Next

\* The invariant of the keyring holds in every reachable state.
THEOREM KeyringInvariance == Spec => []KeyInv
<1> QED BY InitKeyInv, NextKeyInv, PTL DEF Spec

\* Whoever the panel was told is revoked stays out, across any number of crashes and
\* restarts between any two steps of a save, up to the two faults the property names.
THEOREM RevocationHolds == Spec => []RevokedStayOut
<1>1. KeyInv => RevokedStayOut
    BY DEF KeyInv, KeyTypes, ListCurrent, Live, RevokedBoth, Standing, RevokedStayOut
<1> QED BY <1>1, KeyringInvariance, PTL

\* Whoever the panel gave a profile is known to every later process, while saves succeed.
THEOREM IssueHolds == Spec => []IssuedRemembered
<1>1. KeyInv => IssuedRemembered
    BY DEF KeyInv, IssuedBoth, IssuedRemembered
<1> QED BY <1>1, KeyringInvariance, PTL

-----------------------------------------------------------------------------
(* Sums over finite sets *)

\* What a sum over T is made of: an element and the sum over the others.
Pick(T) == CHOOSE x \in T : TRUE
Part(f, g, T) == IF T = {} THEN 0 ELSE f[Pick(T)] + g[T \ {Pick(T)}]

\* g gives the sum of f over every subset of S.
Sums(f, S, g) == g = [T \in SUBSET S |-> Part(f, g, T)]

SumOf(f, S) == (CHOOSE g : Sums(f, S, g))[S]

\* Bytes is such a sum.
LEMMA BytesAreSummed == ASSUME NEW S PROVE Bytes(S) = SumOf(stats, S)
BY DEF Bytes, MapThenSumSet, MapThenFoldSet, SumOf, Sums, Part, Pick

\* A non-empty set of subsets of a finite set has a smallest one: the form in which these
\* proofs use induction over finite sets.
LEMMA Minimal ==
    ASSUME NEW S, IsFiniteSet(S), NEW B \in SUBSET (SUBSET S), B # {}
    PROVE  \E T \in B : \A U \in B : U \subseteq T => U = T
<1>1. B \subseteq FiniteSubsetsOf(S)
    BY FS_Subset DEF FiniteSubsetsOf
<1>2. IsWellFoundedOn(StrictSubsetOrdering(S), FiniteSubsetsOf(S))
    BY FS_StrictSubsetOrderingWellFounded
<1>3. \E T \in B : \A U \in B : ~ (<<U, T>> \in StrictSubsetOrdering(S))
    BY <1>1, <1>2, WFMin
<1> QED BY <1>3 DEF StrictSubsetOrdering

\* Where two such functions are both defined they agree.
LEMMA SumsAgree ==
    ASSUME NEW f, NEW S, IsFiniteSet(S), NEW U \in SUBSET S, NEW V \in SUBSET S,
           NEW g, NEW h, Sums(f, U, g), Sums(f, V, h)
    PROVE  \A T \in SUBSET (U \cap V) : g[T] = h[T]
<1> DEFINE B == {T \in SUBSET (U \cap V) : g[T] # h[T]}
<1> SUFFICES ASSUME B # {} PROVE FALSE
    OBVIOUS
<1>1. B \in SUBSET (SUBSET S)
    OBVIOUS
<1> HIDE DEF B
<1>2. PICK T \in B : \A W \in B : W \subseteq T => W = T
    BY <1>1, Minimal
<1>3. T \in SUBSET (U \cap V) /\ g[T] # h[T]
    BY <1>2 DEF B
<1>4. g[T] = Part(f, g, T) /\ h[T] = Part(f, h, T)
    BY <1>3 DEF Sums
<1>5. T # {}
    BY <1>3, <1>4 DEF Part
<1>6. Pick(T) \in T
    BY <1>5 DEF Pick
<1>7. g[T \ {Pick(T)}] = h[T \ {Pick(T)}]
    BY <1>2, <1>3, <1>6 DEF B
<1> QED BY <1>3, <1>4, <1>5, <1>7 DEF Part

\* Such a function exists for every finite set.
LEMMA SumsExist == ASSUME NEW f, NEW S, IsFiniteSet(S) PROVE \E g : Sums(f, S, g)
<1> DEFINE B == {T \in SUBSET S : ~ \E g : Sums(f, T, g)}
<1> SUFFICES ASSUME B # {} PROVE FALSE
    OBVIOUS
<1>1. B \in SUBSET (SUBSET S)
    OBVIOUS
<1> HIDE DEF B
<1>2. PICK T \in B : \A U \in B : U \subseteq T => U = T
    BY <1>1, Minimal
<1>3. T \in SUBSET S /\ ~ \E g : Sums(f, T, g)
    BY <1>2 DEF B
<1> DEFINE H(U) == CHOOSE h : Sums(f, U, h)
           g == [U \in SUBSET T |-> IF U = {} THEN 0
                                    ELSE f[Pick(U)] + H(U \ {Pick(U)})[U \ {Pick(U)}]]
<1>4. ASSUME NEW U \in SUBSET T, U # T PROVE Sums(f, U, H(U))
    <2>1. \E h : Sums(f, U, h)
        BY <1>2, <1>3, <1>4 DEF B
    <2> QED BY <2>1
<1> HIDE DEF H
<1>5. ASSUME NEW U \in SUBSET T, U # T PROVE H(U)[U] = g[U]
    <2>1. H(U)[U] = Part(f, H(U), U)
        BY <1>4, <1>5 DEF Sums
    <2>2. CASE U = {}
        BY <2>1, <2>2 DEF Part
    <2>3. CASE U # {}
        <3> DEFINE W == U \ {Pick(U)}
        <3>1. Pick(U) \in U
            BY <2>3 DEF Pick
        <3>2. W \in SUBSET T /\ W # T /\ W \in SUBSET (U \cap W)
            BY <3>1
        <3>3. Sums(f, U, H(U)) /\ Sums(f, W, H(W))
            BY <1>4, <1>5, <3>2
        <3>4. U \in SUBSET S /\ W \in SUBSET S
            BY <1>3
        <3> HIDE DEF W
        <3>5. H(U)[W] = H(W)[W]
            BY <3>2, <3>3, <3>4, SumsAgree
        <3> QED BY <2>1, <2>3, <3>5 DEF Part, W
    <2> QED BY <2>2, <2>3
<1>6. ASSUME NEW U \in SUBSET T PROVE g[U] = Part(f, g, U)
    <2>1. CASE U = {}
        BY <2>1 DEF Part
    <2>2. CASE U # {}
        <3>1. Pick(U) \in U
            BY <2>2 DEF Pick
        <3>2. U \ {Pick(U)} \in SUBSET T /\ U \ {Pick(U)} # T
            BY <3>1
        <3>3. H(U \ {Pick(U)})[U \ {Pick(U)}] = g[U \ {Pick(U)}]
            BY ONLY <1>5, <3>2
        <3> QED BY <2>2, <3>3 DEF Part
    <2> QED BY <2>1, <2>2
<1>7. Sums(f, T, g)
    <2>1. g = [U \in SUBSET T |-> g[U]]
        OBVIOUS
    <2> HIDE DEF g
    <2> QED BY <1>6, <2>1 DEF Sums
<1> QED BY <1>3, <1>7

\* The sum over no elements, and over one element and the rest.
LEMMA SumUnfolds ==
    ASSUME NEW f, NEW S, IsFiniteSet(S)
    PROVE  SumOf(f, S) = IF S = {} THEN 0 ELSE f[Pick(S)] + SumOf(f, S \ {Pick(S)})
<1> DEFINE H(U) == CHOOSE h : Sums(f, U, h)
           W == S \ {Pick(S)}
<1>1. ASSUME NEW U \in SUBSET S PROVE Sums(f, U, H(U))
    <2>1. \E h : Sums(f, U, h)
        BY SumsExist, FS_Subset
    <2> QED BY <2>1
<1>2. SumOf(f, S) = H(S)[S] /\ SumOf(f, W) = H(W)[W]
    BY DEF SumOf
<1> HIDE DEF H
<1>3. H(S)[S] = Part(f, H(S), S)
    BY <1>1 DEF Sums
<1>4. H(S)[W] = H(W)[W]
    <2>1. Sums(f, S, H(S)) /\ Sums(f, W, H(W)) /\ W \in SUBSET (S \cap W)
        BY <1>1
    <2> HIDE DEF W
    <2>2. W \in SUBSET S
        BY DEF W
    <2> QED BY <2>1, <2>2, SumsAgree
<1> QED BY <1>2, <1>3, <1>4 DEF Part

\* Sums of naturals are naturals.
LEMMA SumInNat ==
    ASSUME NEW D, IsFiniteSet(D), NEW f \in [D -> Nat]
    PROVE  \A S \in SUBSET D : SumOf(f, S) \in Nat
<1> DEFINE B == {S \in SUBSET D : SumOf(f, S) \notin Nat}
<1> SUFFICES ASSUME B # {} PROVE FALSE
    OBVIOUS
<1>1. B \in SUBSET (SUBSET D)
    OBVIOUS
<1> HIDE DEF B
<1>2. PICK S \in B : \A U \in B : U \subseteq S => U = S
    BY <1>1, Minimal
<1>3. S \in SUBSET D /\ SumOf(f, S) \notin Nat /\ IsFiniteSet(S)
    BY <1>2, FS_Subset DEF B
<1>4. S # {} /\ SumOf(f, S) = f[Pick(S)] + SumOf(f, S \ {Pick(S)})
    BY <1>3, SumUnfolds
<1>5. Pick(S) \in S
    BY <1>4 DEF Pick
<1>6. SumOf(f, S \ {Pick(S)}) \in Nat
    BY <1>2, <1>3, <1>5 DEF B
<1>7. f[Pick(S)] \in Nat
    BY <1>3, <1>5
<1> QED BY <1>3, <1>4, <1>6, <1>7

\* Any element may be taken out of a sum.
LEMMA SumWithout ==
    ASSUME NEW D, IsFiniteSet(D), NEW f \in [D -> Nat]
    PROVE  \A S \in SUBSET D : \A x \in S : SumOf(f, S) = f[x] + SumOf(f, S \ {x})
<1> DEFINE P(S) == \A x \in S : SumOf(f, S) = f[x] + SumOf(f, S \ {x})
           B == {S \in SUBSET D : ~P(S)}
<1> SUFFICES ASSUME B # {} PROVE FALSE
    OBVIOUS
<1>1. B \in SUBSET (SUBSET D)
    OBVIOUS
<1> HIDE DEF B
<1>2. PICK S \in B : \A U \in B : U \subseteq S => U = S
    BY <1>1, Minimal
<1>3. S \in SUBSET D /\ IsFiniteSet(S)
    BY <1>2, FS_Subset DEF B
<1>4. PICK x \in S : SumOf(f, S) # f[x] + SumOf(f, S \ {x})
    BY <1>2 DEF B
<1> DEFINE p == Pick(S)
<1>5. p \in S
    BY <1>4 DEF Pick
<1>6. SumOf(f, S) = f[p] + SumOf(f, S \ {p})
    BY <1>3, <1>4, SumUnfolds
<1> HIDE DEF p
<1>7. p # x
    BY <1>4, <1>6
<1>8. SumOf(f, S \ {p}) = f[x] + SumOf(f, (S \ {p}) \ {x})
    <2>1. P(S \ {p})
        BY <1>2, <1>3, <1>5 DEF B
    <2> QED BY <2>1, <1>4, <1>7
<1>9. SumOf(f, S \ {x}) = f[p] + SumOf(f, (S \ {x}) \ {p})
    <2>1. P(S \ {x})
        BY <1>2, <1>3, <1>4 DEF B
    <2> QED BY <2>1, <1>5, <1>7
<1>10. (S \ {p}) \ {x} = (S \ {x}) \ {p}
    OBVIOUS
<1>11. f[p] \in Nat /\ f[x] \in Nat /\ SumOf(f, (S \ {p}) \ {x}) \in Nat
    <2>1. (S \ {p}) \ {x} \in SUBSET D /\ p \in D /\ x \in D
        BY ONLY <1>3, <1>4, <1>5
    <2> QED BY <2>1, SumInNat
<1> DEFINE a == f[p]
           b == f[x]
           c == SumOf(f, (S \ {p}) \ {x})
<1>12. SumOf(f, S) = a + (b + c) /\ SumOf(f, S \ {x}) = a + c
    BY <1>6, <1>8, <1>9, <1>10
<1>13. SumOf(f, S) # b + (a + c)
    BY <1>4, <1>12
<1>14. a \in Nat /\ b \in Nat /\ c \in Nat
    BY <1>11
<1> HIDE DEF a, b, c
<1> QED BY ONLY <1>12, <1>13, <1>14

\* A sum depends on the values over its set alone.
LEMMA SumOfSame ==
    ASSUME NEW D, IsFiniteSet(D), NEW f \in [D -> Nat], NEW g \in [D -> Nat],
           NEW S \in SUBSET D, \A x \in S : f[x] = g[x]
    PROVE  SumOf(f, S) = SumOf(g, S)
<1> DEFINE B == {T \in SUBSET S : SumOf(f, T) # SumOf(g, T)}
<1> SUFFICES ASSUME B # {} PROVE FALSE
    OBVIOUS
<1>1. B \in SUBSET (SUBSET D)
    OBVIOUS
<1> HIDE DEF B
<1>2. PICK T \in B : \A U \in B : U \subseteq T => U = T
    BY <1>1, Minimal
<1>3. T \in SUBSET S /\ SumOf(f, T) # SumOf(g, T) /\ IsFiniteSet(T)
    BY <1>2, FS_Subset DEF B
<1>4. /\ SumOf(f, T) = IF T = {} THEN 0 ELSE f[Pick(T)] + SumOf(f, T \ {Pick(T)})
      /\ SumOf(g, T) = IF T = {} THEN 0 ELSE g[Pick(T)] + SumOf(g, T \ {Pick(T)})
    BY <1>3, SumUnfolds
<1>5. Pick(T) \in T
    BY <1>3, <1>4 DEF Pick
<1>6. SumOf(f, T \ {Pick(T)}) = SumOf(g, T \ {Pick(T)})
    BY <1>2, <1>3, <1>5 DEF B
<1>7. f[Pick(T)] = g[Pick(T)]
    BY <1>3, <1>5
<1> QED BY <1>3, <1>4, <1>6, <1>7

\* Sums over disjoint sets add up.
LEMMA SumSplits ==
    ASSUME NEW D, IsFiniteSet(D), NEW f \in [D -> Nat],
           NEW S \in SUBSET D, NEW R \in SUBSET D, S \cap R = {}
    PROVE  SumOf(f, S \cup R) = SumOf(f, S) + SumOf(f, R)
<1> DEFINE B == {T \in SUBSET R : SumOf(f, S \cup T) # SumOf(f, S) + SumOf(f, T)}
<1> SUFFICES ASSUME B # {} PROVE FALSE
    OBVIOUS
<1>1. B \in SUBSET (SUBSET D)
    OBVIOUS
<1> HIDE DEF B
<1>2. PICK T \in B : \A U \in B : U \subseteq T => U = T
    BY <1>1, Minimal
<1>3. T \in SUBSET R /\ SumOf(f, S \cup T) # SumOf(f, S) + SumOf(f, T)
    BY <1>2 DEF B
<1>4. SumOf(f, S) \in Nat /\ SumOf(f, T) \in Nat /\ SumOf(f, {}) = 0
    BY <1>3, SumInNat, SumUnfolds, FS_EmptySet
<1>5. CASE T = {}
    <2>1. S \cup T = S
        BY <1>5
    <2> QED BY <2>1, <1>3, <1>4, <1>5
<1>6. CASE T # {}
    <2>1. PICK x : x \in T
        BY <1>6
    <2>2. SumOf(f, T) = f[x] + SumOf(f, T \ {x})
        BY <2>1, <1>3, SumWithout
    <2>3. SumOf(f, S \cup T) = f[x] + SumOf(f, (S \cup T) \ {x})
        <3>1. S \cup T \in SUBSET D /\ x \in S \cup T
            BY <2>1, <1>3
        <3> QED BY <3>1, SumWithout
    <2>4. (S \cup T) \ {x} = S \cup (T \ {x})
        BY <2>1, <1>3
    <2>5. SumOf(f, S \cup (T \ {x})) = SumOf(f, S) + SumOf(f, T \ {x})
        BY <2>1, <1>2, <1>3 DEF B
    <2>6. f[x] \in Nat /\ SumOf(f, T \ {x}) \in Nat
        <3>1. T \ {x} \in SUBSET D /\ x \in D
            BY <2>1, <1>3
        <3> QED BY <3>1, SumInNat
    <2> QED BY <1>3, <1>4, <2>2, <2>3, <2>4, <2>5, <2>6
<1> QED BY <1>5, <1>6

-----------------------------------------------------------------------------
(* The metrics *)

Started == {s \in Sids : session[s] # "new"}
Ended   == {s \in Sids : session[s] = "ended"}

\* The bytes of ended sessions were relayed, a status in the making has seen no more than
\* those, and the last one no more than all.
MetricInv ==
    /\ session \in [Sids -> {"new", "counted", "active", "ended"}]
    /\ stats \in [Sids -> 0..MaxBytes] /\ closed \in Nat
    /\ total = Cardinality(Started)
    /\ closed <= SumOf(stats, Ended)
    /\ reading \in -1..closed
    /\ report \in [bytes : Nat, active : Nat, total : Nat]
    /\ report.bytes <= SumOf(stats, Sids) /\ report.active <= report.total

\* Counting a byte makes no sum smaller.
LEMMA SumGrows ==
    ASSUME NEW f \in [Sids -> Nat], NEW s \in Sids, NEW S \in SUBSET Sids,
           NEW g \in [Sids -> Nat], g[s] = f[s] + 1, \A x \in Sids \ {s} : g[x] = f[x]
    PROVE  SumOf(f, S) <= SumOf(g, S)
<1>1. g[s] = f[s] + 1 /\ f[s] \in Nat /\ \A x \in S \ {s} : f[x] = g[x]
    OBVIOUS
<1>2. IsFiniteSet(Sids) /\ S \ {s} \in SUBSET Sids
    BY AdminAssumption
<1>3. SumOf(f, S \ {s}) = SumOf(g, S \ {s}) /\ SumOf(f, S \ {s}) \in Nat
    BY <1>1, <1>2, SumOfSame, SumInNat
<1>4. CASE s \in S
    <2>1. SumOf(f, S) = f[s] + SumOf(f, S \ {s})
        BY <1>2, <1>4, SumWithout
    <2>2. SumOf(g, S) = g[s] + SumOf(g, S \ {s})
        BY <1>1, <1>2, <1>4, SumWithout
    <2> QED BY <1>1, <1>3, <2>1, <2>2
<1>5. CASE s \notin S
    <2>1. S \ {s} = S
        BY <1>5
    <2> QED BY <1>3, <2>1
<1> QED BY <1>4, <1>5

\* The types of what the metrics are sums and counts of.
LEMMA MetricTypes ==
    ASSUME MetricInv
    PROVE  /\ IsFiniteSet(Sids) /\ stats \in [Sids -> Nat]
           /\ \A S \in SUBSET Sids :
                 SumOf(stats, S) \in Nat /\ IsFiniteSet(S) /\ Cardinality(S) \in Nat
<1>1. IsFiniteSet(Sids) /\ stats \in [Sids -> Nat]
    BY AdminAssumption DEF MetricInv
<1>2. ASSUME NEW S \in SUBSET Sids
      PROVE  SumOf(stats, S) \in Nat /\ IsFiniteSet(S) /\ Cardinality(S) \in Nat
    <2>1. SumOf(stats, S) \in Nat
        BY <1>1, SumInNat
    <2>2. IsFiniteSet(S)
        BY <1>1, FS_Subset
    <2> QED BY <2>1, <2>2, FS_CardinalityType
<1> QED BY <1>1, <1>2

\* A process without sessions has nothing to count.
LEMMA NothingToCount ==
    /\ NoStats \in [Sids -> 0..MaxBytes]
    /\ SumOf(NoStats, {}) = 0 /\ SumOf(NoStats, Sids) \in Nat /\ Cardinality({}) = 0
<1>1. NoStats \in [Sids -> 0..MaxBytes] /\ NoStats \in [Sids -> Nat] /\ IsFiniteSet(Sids)
    BY AdminAssumption DEF NoStats
<1> QED BY <1>1, SumInNat, SumUnfolds, FS_EmptySet

LEMMA InitMetricInv == Init => MetricInv
<1> SUFFICES ASSUME Init PROVE MetricInv
    OBVIOUS
<1>1. session = [s \in Sids |-> "new"] /\ stats = NoStats /\ total = 0 /\ closed = 0
      /\ reading = -1 /\ report = [bytes |-> 0, active |-> 0, total |-> 0]
    BY DEF Init
<1>2. Started = {} /\ Ended = {}
    BY <1>1 DEF Started, Ended
<1> QED BY <1>1, <1>2, NothingToCount DEF MetricInv

\* A crash forgets all sessions and with them what was reported.
LEMMA CrashMetricInv == Crash => MetricInv'
<1> SUFFICES ASSUME Crash PROVE MetricInv'
    OBVIOUS
<1>1. session' = [s \in Sids |-> "new"] /\ stats' = NoStats /\ total' = 0 /\ closed' = 0
      /\ reading' = -1 /\ report' = [bytes |-> 0, active |-> 0, total |-> 0]
    BY DEF Crash, NoSessions
<1>2. Started' = {} /\ Ended' = {}
    BY <1>1 DEF Started, Ended
<1> QED BY <1>1, <1>2, NothingToCount DEF MetricInv

\* A session starts.
LEMMA StartStep ==
    ASSUME MetricInv, NEW s \in Sids, SessionCounted(s) \/ SessionListed(s)
    PROVE  MetricInv'
<1>1. /\ session' \in [Sids -> {"new", "counted", "active", "ended"}] /\ Ended' = Ended
      /\ UNCHANGED <<stats, closed, reading, report>>
    BY DEF SessionCounted, SessionListed, MetricInv, Ended
<1>2. IsFiniteSet(Started)
    BY MetricTypes DEF Started
<1>3. total' = Cardinality(Started')
    <2>1. CASE SessionCounted(s)
        <3>1. Started' = Started \cup {s} /\ s \notin Started /\ total' = total + 1
            BY <2>1 DEF SessionCounted, MetricInv, Started
        <3> QED BY <3>1, <1>2, FS_AddElement DEF MetricInv
    <2>2. CASE SessionListed(s)
        <3>1. Started' = Started /\ total' = total
            BY <2>2 DEF SessionListed, MetricInv, Started
        <3> QED BY <3>1 DEF MetricInv
    <2> QED BY <2>1, <2>2
<1> QED BY <1>1, <1>3 DEF MetricInv

\* A relay task counts a byte, of a session that runs or of one that has ended.
LEMMA CountStep == ASSUME MetricInv, NEW s \in Sids, Count(s) PROVE MetricInv'
<1>1. /\ stats' = [stats EXCEPT ![s] = @ + 1] /\ stats[s] < MaxBytes
      /\ UNCHANGED <<session, total, closed, reading, report>>
    BY DEF Count
<1>2. stats \in [Sids -> Nat] /\ stats' \in [Sids -> 0..MaxBytes] /\ stats' \in [Sids -> Nat]
    BY <1>1, AdminAssumption DEF MetricInv
<1>3. /\ SumOf(stats, Ended) <= SumOf(stats', Ended)
      /\ SumOf(stats, Sids) <= SumOf(stats', Sids)
    BY <1>1, <1>2, SumGrows DEF Ended
<1>4. /\ SumOf(stats, Ended) \in Nat /\ SumOf(stats, Sids) \in Nat
      /\ SumOf(stats', Ended) \in Nat /\ SumOf(stats', Sids) \in Nat
    BY <1>2, AdminAssumption, SumInNat DEF Ended
<1>5. Ended' = Ended /\ Started' = Started
    BY <1>1 DEF Ended, Started
<1>6. closed <= SumOf(stats', Ended)
    BY <1>3, <1>4 DEF MetricInv
<1>7. report.bytes <= SumOf(stats', Sids)
    BY <1>3, <1>4 DEF MetricInv
<1> QED BY <1>1, <1>2, <1>5, <1>6, <1>7 DEF MetricInv

\* session_end moves the bytes of a session to the closed ones.
LEMMA EndStep == ASSUME MetricInv, NEW s \in Sids, SessionEnd(s) PROVE MetricInv'
<1>1. /\ session' \in [Sids -> {"new", "counted", "active", "ended"}]
      /\ closed' = closed + stats[s]
      /\ Started' = Started /\ Ended' = Ended \cup {s} /\ s \notin Ended
      /\ UNCHANGED <<stats, total, reading, report>>
    BY DEF SessionEnd, MetricInv, Ended, Started
<1>2. Ended \cup {s} \in SUBSET Sids /\ Ended \in SUBSET Sids /\ (Ended \cup {s}) \ {s} = Ended
    BY <1>1 DEF Ended
<1>3. SumOf(stats, Ended \cup {s}) = stats[s] + SumOf(stats, Ended)
    <2>1. IsFiniteSet(Sids) /\ stats \in [Sids -> Nat]
        BY MetricTypes
    <2>2. s \in Ended \cup {s}
        OBVIOUS
    <2>3. SumOf(stats, Ended \cup {s}) = stats[s] + SumOf(stats, (Ended \cup {s}) \ {s})
        BY <2>1, <2>2, <1>2, SumWithout
    <2> QED BY <2>3, <1>2
<1>4. stats[s] \in Nat /\ SumOf(stats, Ended) \in Nat /\ closed \in Nat
      /\ closed <= SumOf(stats, Ended) /\ reading \in -1..closed
    BY <1>2, MetricTypes DEF MetricInv
<1>5. closed' \in Nat /\ closed' <= SumOf(stats, Ended \cup {s}) /\ reading \in -1..closed'
    BY <1>1, <1>3, <1>4
<1> QED BY <1>1, <1>5 DEF MetricInv

\* status_json: a session that ends between its two reads is in the second one no more, and
\* was not yet in the first.
LEMMA StatusStep == ASSUME MetricInv, StatusLoad \/ StatusSum PROVE MetricInv'
<1>1. CASE StatusLoad
    BY <1>1 DEF StatusLoad, MetricInv, Started, Ended
<1>2. CASE StatusSum
    <2>1. /\ report' = [bytes |-> reading + Bytes(Held), active |-> Cardinality(Held),
                        total |-> total]
          /\ reading # -1 /\ reading' = -1 /\ UNCHANGED <<session, stats, total, closed>>
        BY <1>2 DEF StatusSum
    <2> DEFINE Rest == Sids \ (Ended \cup Held)
    <2>2. /\ Held \in SUBSET Sids /\ Ended \in SUBSET Sids /\ Ended \cup Held \in SUBSET Sids
          /\ Rest \in SUBSET Sids /\ Started \in SUBSET Sids
          /\ Ended \cap Held = {} /\ (Ended \cup Held) \cap Rest = {}
          /\ (Ended \cup Held) \cup Rest = Sids
        BY DEF Held, Ended, Started
    <2> HIDE DEF Rest
    <2>3. IsFiniteSet(Sids) /\ stats \in [Sids -> Nat]
        BY MetricTypes
    <2>4. SumOf(stats, Ended \cup Held) = SumOf(stats, Ended) + SumOf(stats, Held)
        BY <2>2, <2>3, SumSplits
    <2>5. SumOf(stats, Sids) = SumOf(stats, Ended \cup Held) + SumOf(stats, Rest)
        BY <2>2, <2>3, SumSplits
    <2>6. /\ SumOf(stats, Ended) \in Nat /\ SumOf(stats, Held) \in Nat
          /\ SumOf(stats, Rest) \in Nat /\ Bytes(Held) = SumOf(stats, Held)
        BY <2>2, <2>3, SumInNat, BytesAreSummed
    <2>7. closed \in Nat /\ reading \in -1..closed /\ closed <= SumOf(stats, Ended)
        BY DEF MetricInv
    <2>8. reading + Bytes(Held) \in Nat /\ reading + Bytes(Held) <= SumOf(stats, Sids)
        BY <2>1, <2>4, <2>5, <2>6, <2>7
    <2>9. Cardinality(Held) \in Nat /\ total \in Nat /\ Cardinality(Held) <= total
        <3>1. Held \in SUBSET Started /\ IsFiniteSet(Started)
            BY <2>2, MetricTypes DEF Held, Started
        <3> QED BY <3>1, <2>2, FS_Subset, MetricTypes DEF MetricInv
    <2>10. /\ report' \in [bytes : Nat, active : Nat, total : Nat]
           /\ report'.bytes <= SumOf(stats, Sids) /\ report'.active <= report'.total
        BY <2>1, <2>8, <2>9
    <2>11. Started' = Started /\ Ended' = Ended
        BY <2>1 DEF Started, Ended
    <2> QED BY <2>1, <2>7, <2>10, <2>11 DEF MetricInv
<1> QED BY <1>1, <1>2

\* Every step preserves the invariant of the metrics.
LEMMA NextMetricInv == MetricInv /\ [Next]_vars => MetricInv'
<1> SUFFICES ASSUME MetricInv, [Next]_vars PROVE MetricInv'
    OBVIOUS
<1>1. CASE UNCHANGED metrics
    BY <1>1 DEF metrics, MetricInv, Started, Ended
<1>2. CASE \/ Boot \/ PersistOpen \/ PersistWrite \/ PersistFails \/ Answer \/ AnswerLost
           \/ \E id \in Issued : IssueKey(id)
           \/ \E id \in Ids : RevokeKey(id) \/ RevokeAgain(id)
           \/ UNCHANGED vars
    <2>1. UNCHANGED metrics
        BY <1>2 DEF Boot, PersistOpen, PersistWrite, PersistFails, Answer, AnswerLost, IssueKey,
                    RevokeKey, RevokeAgain, vars
    <2> QED BY <2>1, <1>1
<1>3. CASE Crash
    BY <1>3, CrashMetricInv
<1>4. CASE \E s \in Sids : SessionCounted(s) \/ SessionListed(s) \/ Count(s) \/ SessionEnd(s)
    BY <1>4, StartStep, CountStep, EndStep
<1>5. CASE StatusLoad \/ StatusSum
    BY <1>5, StatusStep
<1> QED BY <1>2, <1>3, <1>4, <1>5 DEF Next

\* The invariant of the metrics holds in every reachable state.
THEOREM MetricInvariance == Spec => []MetricInv
<1> QED BY InitMetricInv, NextMetricInv, PTL DEF Spec

\* No status shows more bytes than were relayed or more sessions than were started, for any
\* number of sessions that start, count and end between its two reads.
THEOREM StatusHonest == Spec => []NothingCountedTwice
<1>1. MetricInv => NothingCountedTwice
    BY BytesAreSummed DEF MetricInv, NothingCountedTwice
<1> QED BY <1>1, MetricInvariance, PTL

\* Type correctness of the server process.
THEOREM TypeCorrect == Spec => []TypeOK
<1>1. KeyInv /\ MetricInv => TypeOK
    <2> SUFFICES ASSUME KeyInv, MetricInv PROVE TypeOK
        OBVIOUS
    <2>1. total \in 0..Cardinality(Sids)
        <3>1. Started \in SUBSET Sids /\ Cardinality(Sids) \in Nat /\ Cardinality(Started) \in Nat
            BY MetricTypes DEF Started
        <3>2. Cardinality(Started) <= Cardinality(Sids)
            BY <3>1, MetricTypes, FS_Subset
        <3> QED BY <3>1, <3>2 DEF MetricInv
    <2>2. psks \subseteq Ids
        BY DEF KeyInv, ListCurrent, Live
    <2>3. reading \in Int
        BY DEF MetricInv
    <2> QED BY <2>1, <2>2, <2>3 DEF TypeOK, KeyInv, KeyTypes, Keepers, MetricInv
<1> QED BY <1>1, KeyringInvariance, MetricInvariance, PTL
=============================================================================

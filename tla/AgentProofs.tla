---------------------------- MODULE AgentProofs ----------------------------
(***************************************************************************)
(* Proofs about the registry of runners and the tracing of the agent's     *)
(* runs, for any number of conversations, repos and invocations and any    *)
(* bound on either table.  Both keep a bounded sequence of entries, at     *)
(* most one for each key; the lemmas say what becomes of such a sequence.  *)
(***************************************************************************)
EXTENDS MCAgents, SequenceTheorems, TLAPS

(* Sequences *)

\* What RemoveAt returns.
LEMMA RemoveAtProperties ==
  ASSUME NEW S, NEW s \in Seq(S), NEW k \in 1..Len(s)
  PROVE  /\ RemoveAt(s, k) \in Seq(S)
         /\ Len(RemoveAt(s, k)) = Len(s) - 1
         /\ \A j \in 1..Len(s) - 1 : RemoveAt(s, k)[j] = IF j < k THEN s[j] ELSE s[j + 1]
<1> DEFINE a == SubSeq(s, 1, k - 1)
           b == SubSeq(s, k + 1, Len(s))
<1>1. Len(s) \in Nat /\ k \in Nat /\ \A i \in 1..Len(s) : s[i] \in S
  BY LenProperties
<1>2. a \in Seq(S) /\ Len(a) = k - 1 /\ \A i \in 1..k - 1 : a[i] = s[i]
  BY <1>1, SubSeqProperties
<1>3. b \in Seq(S) /\ Len(b) = Len(s) - k /\ \A i \in 1..Len(s) - k : b[i] = s[k + i]
  BY <1>1, SubSeqProperties
<1>4. RemoveAt(s, k) = a \o b
  BY DEF RemoveAt
<1> HIDE DEF a, b
<1>5. /\ a \o b \in Seq(S) /\ Len(a \o b) = Len(a) + Len(b)
      /\ \A i \in 1..Len(a) + Len(b) : (a \o b)[i] = IF i <= Len(a) THEN a[i] ELSE b[i - Len(a)]
  BY <1>2, <1>3, ConcatProperties
<1>6. ASSUME NEW j \in 1..Len(s) - 1
      PROVE  (a \o b)[j] = IF j < k THEN s[j] ELSE s[j + 1]
  <2>1. j \in 1..Len(a) + Len(b) /\ (j <= Len(a) <=> j < k)
    BY <1>1, <1>2, <1>3
  <2>2. CASE j < k
    <3>1. j \in 1..k - 1
      BY <1>1, <2>2
    <3>2. QED
      BY <1>2, <1>5, <2>1, <2>2, <3>1
  <2>3. CASE ~(j < k)
    <3>1. j - Len(a) \in 1..Len(s) - k /\ k + (j - Len(a)) = j + 1
      BY <1>1, <1>2, <2>3
    <3>2. (a \o b)[j] = b[j - Len(a)]
      BY <1>5, <2>1, <2>3
    <3>3. b[j - Len(a)] = s[j + 1]
      BY <1>3, <3>1
    <3>4. QED
      BY <2>3, <3>2, <3>3
  <2>4. QED
    BY <2>2, <2>3
<1>7. QED
  BY <1>1, <1>2, <1>3, <1>4, <1>5, <1>6

\* What is left of the elements when one is removed, and what an element added
\* at the end brings in.
LEMMA RemoveAtSet ==
  ASSUME NEW S, NEW s \in Seq(S), NEW k \in 1..Len(s)
  PROVE  ToSet(RemoveAt(s, k)) = {s[j] : j \in (1..Len(s)) \ {k}}
<1> DEFINE t == RemoveAt(s, k)
<1>1. /\ t \in Seq(S) /\ Len(t) = Len(s) - 1
      /\ \A j \in 1..Len(s) - 1 : t[j] = IF j < k THEN s[j] ELSE s[j + 1]
  BY RemoveAtProperties
<1> HIDE DEF t
<1>2. Len(s) \in Nat /\ k \in Nat /\ DOMAIN t = 1..Len(s) - 1
  BY <1>1, LenProperties
<1>3. ASSUME NEW j \in 1..Len(s) - 1
      PROVE  \E i \in (1..Len(s)) \ {k} : t[j] = s[i]
  <2>1. CASE j < k
    <3>1. j \in (1..Len(s)) \ {k}
      BY <1>2, <2>1
    <3>2. QED
      BY <1>1, <2>1, <3>1
  <2>2. CASE ~(j < k)
    <3>1. j + 1 \in (1..Len(s)) \ {k}
      BY <1>2, <2>2
    <3>2. QED
      BY <1>1, <2>2, <3>1
  <2>3. QED
    BY <2>1, <2>2
<1>4. ASSUME NEW i \in (1..Len(s)) \ {k}
      PROVE  \E j \in 1..Len(s) - 1 : t[j] = s[i]
  <2>1. CASE i < k
    <3>1. i \in 1..Len(s) - 1
      BY <1>2, <2>1
    <3>2. QED
      BY <1>1, <2>1, <3>1
  <2>2. CASE ~(i < k)
    <3>1. i - 1 \in 1..Len(s) - 1 /\ ~(i - 1 < k) /\ (i - 1) + 1 = i
      BY <1>2, <2>2
    <3>2. t[i - 1] = s[i]
      BY <1>1, <3>1
    <3>3. QED
      BY <3>1, <3>2
  <2>3. QED
    BY <2>1, <2>2
<1>5. \A j \in 1..Len(s) - 1 : t[j] \in {s[i] : i \in (1..Len(s)) \ {k}}
  BY <1>3
<1>6. \A i \in (1..Len(s)) \ {k} : s[i] \in {t[j] : j \in 1..Len(s) - 1}
  BY <1>4
<1>7. ToSet(t) = {t[j] : j \in 1..Len(s) - 1}
  BY <1>2 DEF ToSet
<1>8. QED
  BY <1>5, <1>6, <1>7 DEF t

LEMMA AppendSet ==
  ASSUME NEW S, NEW s \in Seq(S), NEW e \in S
  PROVE  ToSet(Append(s, e)) = ToSet(s) \cup {e}
<1> DEFINE t == Append(s, e)
<1>1. /\ t \in Seq(S) /\ Len(t) = Len(s) + 1 /\ t[Len(s) + 1] = e
      /\ \A i \in 1..Len(s) : t[i] = s[i]
  BY AppendProperties
<1> HIDE DEF t
<1>2. Len(s) \in Nat /\ DOMAIN s = 1..Len(s) /\ DOMAIN t = 1..Len(s) + 1
  BY <1>1, LenProperties
<1>3. /\ \A i \in 1..Len(s) + 1 : i \in 1..Len(s) \/ i = Len(s) + 1
      /\ 1..Len(s) \subseteq 1..Len(s) + 1 /\ Len(s) + 1 \in 1..Len(s) + 1
  BY <1>2
<1>4. ToSet(t) = ToSet(s) \cup {e}
  BY <1>1, <1>2, <1>3 DEF ToSet
<1>5. QED
  BY <1>4 DEF t

LEMMA TailSet ==
  ASSUME NEW S, NEW s \in Seq(S), s # <<>>
  PROVE  ToSet(Tail(s)) = {s[j] : j \in 2..Len(s)}
<1>1. Len(s) \in Nat \ {0}
  BY EmptySeq
<1> DEFINE t == Tail(s)
<1>2. t \in Seq(S) /\ Len(t) = Len(s) - 1 /\ \A i \in 1..Len(t) : t[i] = s[i + 1]
  BY HeadTailProperties
<1> HIDE DEF t
<1>3. DOMAIN t = 1..Len(s) - 1
  BY <1>2, LenProperties
<1>4. \A i \in 1..Len(s) - 1 : i + 1 \in 2..Len(s)
  BY <1>1
<1>5. \A j \in 2..Len(s) : j - 1 \in 1..Len(s) - 1 /\ (j - 1) + 1 = j
  BY <1>1
<1>6. \A j \in 2..Len(s) : t[j - 1] = s[j]
  BY <1>2, <1>5
<1>7. ToSet(t) = {s[j] : j \in 2..Len(s)}
  BY <1>2, <1>3, <1>4, <1>5, <1>6 DEF ToSet
<1>8. QED
  BY <1>7 DEF t

\* The place of a number that is the only one of its kind.
LEMMA MinOfOne ==
  ASSUME NEW k \in Nat
  PROVE  Min({k}) = k
BY DEF Min

\* Removing the first occurrence of an element that occurs once.
LEMMA RemoveFirstProperties ==
  ASSUME NEW S, NEW s \in Seq(S), NEW k \in 1..Len(s),
         \A i \in 1..Len(s) : s[i] = s[k] => i = k
  PROVE  RemoveFirst(s, s[k]) = RemoveAt(s, k)
<1>1. {i \in 1..Len(s) : s[i] = s[k]} = {k}
  OBVIOUS
<1>2. k \in Nat
  BY LenProperties
<1>3. QED
  BY <1>1, <1>2, MinOfOne DEF RemoveFirst, SelectInSeq

----------------------------------------------------------------------------
(* The registry *)

Entries == [repo : Repos, runner : Runner]

\* The repos of a sequence of entries.
ReposOf(s) == [i \in 1..Len(s) |-> s[i].repo]

\* At most one entry for a repo.
OneEach(s) == \A i, j \in 1..Len(s) : s[i].repo = s[j].repo => i = j

RunnersInv ==
  /\ runners \in Seq(Entries) /\ Len(runners) <= MaxRepos
  /\ OneEach(runners)
  /\ KeepsMostRecent

\* A turn under way is one for a repo, with a runner that was built.
TurnsInv ==
  \A c \in Clients : turn[c].pc # "idle" =>
    turn[c].repo \in Repos /\ turn[c].runner \in Runner

RegistryInv == RegistryTypeOK /\ RunnersInv /\ TurnsInv /\ SessionsAreFound

\* The repos of the entries that stay are the repos that stay.
LEMMA ReposOfProperties ==
  ASSUME NEW s \in Seq(Entries)
  PROVE  /\ ReposOf(s) \in Seq(Repos) /\ Len(ReposOf(s)) = Len(s)
         /\ \A i \in 1..Len(s) : ReposOf(s)[i] = s[i].repo
<1>1. Len(s) \in Nat /\ \A i \in 1..Len(s) : s[i] \in Entries
  BY LenProperties
<1>2. \A i \in 1..Len(s) : s[i].repo \in Repos
  BY <1>1 DEF Entries
<1>3. QED
  BY <1>1, <1>2 DEF ReposOf

LEMMA ReposOfRemoved ==
  ASSUME NEW s \in Seq(Entries), NEW k \in 1..Len(s)
  PROVE  ReposOf(RemoveAt(s, k)) = RemoveAt(ReposOf(s), k)
<1> DEFINE t == RemoveAt(s, k)
           u == RemoveAt(ReposOf(s), k)
<1>1. Len(s) \in Nat /\ k \in Nat
  BY LenProperties
<1>2. /\ t \in Seq(Entries) /\ Len(t) = Len(s) - 1
      /\ \A j \in 1..Len(s) - 1 : t[j] = IF j < k THEN s[j] ELSE s[j + 1]
  BY RemoveAtProperties
<1>3. /\ ReposOf(s) \in Seq(Repos) /\ Len(ReposOf(s)) = Len(s)
      /\ \A i \in 1..Len(s) : ReposOf(s)[i] = s[i].repo
  BY ReposOfProperties
<1>4. /\ u \in Seq(Repos) /\ Len(u) = Len(s) - 1
      /\ \A j \in 1..Len(s) - 1 : u[j] = IF j < k THEN ReposOf(s)[j] ELSE ReposOf(s)[j + 1]
  BY <1>3, RemoveAtProperties
<1> HIDE DEF t, u
<1>5. /\ ReposOf(t) \in Seq(Repos) /\ Len(ReposOf(t)) = Len(t)
      /\ \A i \in 1..Len(t) : ReposOf(t)[i] = t[i].repo
  BY <1>2, ReposOfProperties
<1>6. ASSUME NEW j \in 1..Len(s) - 1
      PROVE  ReposOf(t)[j] = u[j]
  <2>1. j \in 1..Len(s) /\ j + 1 \in 1..Len(s)
    BY <1>1
  <2>2. QED
    BY <1>2, <1>3, <1>4, <1>5, <2>1
<1>7. ReposOf(t) = u
  BY <1>2, <1>4, <1>5, <1>6, SeqEqual
<1>8. QED
  BY <1>7 DEF t, u

LEMMA ReposOfAppended ==
  ASSUME NEW s \in Seq(Entries), NEW e \in Entries
  PROVE  ReposOf(Append(s, e)) = Append(ReposOf(s), e.repo)
<1>1. Len(s) \in Nat /\ e.repo \in Repos
  BY LenProperties DEF Entries
<1>2. /\ ReposOf(s) \in Seq(Repos) /\ Len(ReposOf(s)) = Len(s)
      /\ \A i \in 1..Len(s) : ReposOf(s)[i] = s[i].repo
  BY ReposOfProperties
<1> DEFINE t == Append(s, e)
           u == Append(ReposOf(s), e.repo)
<1>3. /\ t \in Seq(Entries) /\ Len(t) = Len(s) + 1 /\ t[Len(s) + 1] = e
      /\ \A i \in 1..Len(s) : t[i] = s[i]
  BY AppendProperties
<1>4. /\ u \in Seq(Repos) /\ Len(u) = Len(s) + 1 /\ u[Len(s) + 1] = e.repo
      /\ \A i \in 1..Len(s) : u[i] = s[i].repo
  BY <1>1, <1>2, AppendProperties
<1> HIDE DEF t, u
<1>5. /\ ReposOf(t) \in Seq(Repos) /\ Len(ReposOf(t)) = Len(t)
      /\ \A i \in 1..Len(t) : ReposOf(t)[i] = t[i].repo
  BY <1>3, ReposOfProperties
<1>6. ASSUME NEW j \in 1..Len(s) + 1
      PROVE  ReposOf(t)[j] = u[j]
  <2>1. j \in 1..Len(s) \/ j = Len(s) + 1
    BY <1>1
  <2>2. QED
    BY <1>3, <1>4, <1>5, <2>1
<1>7. ReposOf(t) = u
  BY <1>3, <1>4, <1>5, <1>6, SeqEqual
<1>8. QED
  BY <1>7 DEF t, u

LEMMA ReposOfTail ==
  ASSUME NEW s \in Seq(Entries), s # <<>>
  PROVE  ReposOf(Tail(s)) = Tail(ReposOf(s))
<1> DEFINE t == Tail(s)
           u == Tail(ReposOf(s))
<1>1. Len(s) \in Nat \ {0}
  BY EmptySeq
<1>2. /\ ReposOf(s) \in Seq(Repos) /\ Len(ReposOf(s)) = Len(s)
      /\ \A i \in 1..Len(s) : ReposOf(s)[i] = s[i].repo
  BY ReposOfProperties
<1>3. ReposOf(s) # <<>>
  BY <1>1, <1>2
<1>4. t \in Seq(Entries) /\ Len(t) = Len(s) - 1 /\ \A i \in 1..Len(t) : t[i] = s[i + 1]
  BY HeadTailProperties
<1>5. /\ u \in Seq(Repos) /\ Len(u) = Len(s) - 1
      /\ \A i \in 1..Len(u) : u[i] = ReposOf(s)[i + 1]
  BY <1>2, <1>3, HeadTailProperties
<1> HIDE DEF t, u
<1>6. /\ ReposOf(t) \in Seq(Repos) /\ Len(ReposOf(t)) = Len(t)
      /\ \A i \in 1..Len(t) : ReposOf(t)[i] = t[i].repo
  BY <1>4, ReposOfProperties
<1>7. ASSUME NEW j \in 1..Len(s) - 1
      PROVE  ReposOf(t)[j] = u[j]
  <2>1. j + 1 \in 1..Len(s)
    BY <1>1
  <2>2. QED
    BY <1>2, <1>4, <1>5, <1>6, <2>1
<1>8. ReposOf(t) = u
  BY <1>4, <1>5, <1>6, <1>7, SeqEqual
<1>9. QED
  BY <1>8 DEF t, u

\* Where p's entry is, and the entry that get_runner finds.
LEMMA PlaceOf ==
  ASSUME RunnersInv, NEW p, HasRunner(p)
  PROVE  \E k \in 1..Len(runners) :
           /\ runners[k].repo = p /\ Kept(p) = runners[k]
           /\ \A i \in 1..Len(runners) : runners[i].repo = p => i = k
<1>1. DOMAIN runners = 1..Len(runners)
  BY LenProperties DEF RunnersInv
<1>2. PICK k \in 1..Len(runners) : runners[k].repo = p
  BY <1>1 DEF HasRunner, ToSet
<1>3. \A i \in 1..Len(runners) : runners[i].repo = p => i = k
  BY <1>2 DEF RunnersInv, OneEach
<1>4. Kept(p) = runners[k]
  BY <1>1, <1>2, <1>3 DEF Kept, ToSet
<1>5. QED
  BY <1>2, <1>3, <1>4

\* The entries without p's.
LEMMA OthersOf ==
  ASSUME RunnersInv, NEW p
  PROVE  /\ \A k \in 1..Len(runners) :
              (\A i \in 1..Len(runners) : runners[i].repo = p <=> i = k)
                => Others(p) = RemoveAt(runners, k)
         /\ ~HasRunner(p) => Others(p) = runners
<1>1. DOMAIN runners = 1..Len(runners) /\ Len(runners) \in Nat
  BY LenProperties DEF RunnersInv
<1>2. ASSUME NEW k \in 1..Len(runners),
             \A i \in 1..Len(runners) : runners[i].repo = p <=> i = k
      PROVE  Others(p) = RemoveAt(runners, k)
  <2>1. {i \in 1..Len(runners) : runners[i].repo = p} = {k}
    BY <1>2
  <2>2. k \in Nat
    BY <1>1
  <2>3. QED
    BY <1>2, <2>1, <2>2, MinOfOne DEF Others, RemoveFirstMatch, SelectInSeq
<1>3. ASSUME ~HasRunner(p) PROVE Others(p) = runners
  BY <1>1, <1>3 DEF Others, RemoveFirstMatch, HasRunner, ToSet
<1>4. QED
  BY <1>2, <1>3

\* The sequence after get_runner used e: e is the latest, and the repos are in
\* the order of their use.
Used(e) == Append(Others(e.repo), e)

LEMMA UsedProperties ==
  ASSUME RunnersInv, NEW e \in Entries, HasRunner(e.repo) => e = Kept(e.repo)
  PROVE  /\ Used(e) \in Seq(Entries) /\ OneEach(Used(e))
         /\ Len(Used(e)) = IF HasRunner(e.repo) THEN Len(runners) ELSE Len(runners) + 1
         /\ ToSet(Used(e)) = ToSet(runners) \cup {e}
         /\ ReposOf(Used(e)) = Append(RemoveFirst(returned, e.repo), e.repo)
<1> DEFINE t == Others(e.repo)
           all == Used(e)
<1>1. /\ runners \in Seq(Entries) /\ OneEach(runners) /\ Len(runners) \in Nat
      /\ DOMAIN runners = 1..Len(runners)
  BY LenProperties DEF RunnersInv
<1>2. /\ returned = ReposOf(runners) /\ returned \in Seq(Repos)
      /\ Len(returned) = Len(runners)
      /\ \A i \in 1..Len(runners) : returned[i] = runners[i].repo
  <2>1. returned = ReposOf(runners)
    BY DEF RunnersInv, KeepsMostRecent, ReposOf
  <2>2. QED
    BY <1>1, <2>1, ReposOfProperties
<1>3. /\ t \in Seq(Entries) /\ OneEach(t) /\ \A i \in 1..Len(t) : t[i].repo # e.repo
      /\ Len(t) = IF HasRunner(e.repo) THEN Len(runners) - 1 ELSE Len(runners)
      /\ ToSet(t) \cup {e} = ToSet(runners) \cup {e}
      /\ ReposOf(t) = RemoveFirst(returned, e.repo)
  <2>1. CASE HasRunner(e.repo)
    <3>1. PICK k \in 1..Len(runners) :
               /\ runners[k].repo = e.repo /\ e = runners[k]
               /\ \A i \in 1..Len(runners) : runners[i].repo = e.repo => i = k
      BY <2>1, PlaceOf
    <3>2. t = RemoveAt(runners, k)
      BY <3>1, OthersOf
    <3>3. /\ t \in Seq(Entries) /\ Len(t) = Len(runners) - 1
          /\ \A j \in 1..Len(runners) - 1 :
               t[j] = IF j < k THEN runners[j] ELSE runners[j + 1]
      BY <1>1, <3>2, RemoveAtProperties
    <3>4. ReposOf(t) = RemoveFirst(returned, e.repo)
      <4>1. returned[k] = e.repo /\ \A i \in 1..Len(returned) : returned[i] = returned[k] => i = k
        BY <1>2, <3>1
      <4>2. RemoveFirst(returned, returned[k]) = RemoveAt(returned, k)
        BY <1>2, <4>1, RemoveFirstProperties
      <4>3. QED
        BY <1>1, <1>2, <3>2, <4>1, <4>2, ReposOfRemoved
    <3> HIDE DEF t
    <3>5. DOMAIN t = 1..Len(t)
      BY <3>3, LenProperties
    <3>6. OneEach(t)
      <4>1. SUFFICES ASSUME NEW i \in 1..Len(t), NEW j \in 1..Len(t), t[i].repo = t[j].repo
                     PROVE  i = j
        BY DEF OneEach
      <4>2. i \in 1..Len(runners) /\ i + 1 \in 1..Len(runners)
            /\ j \in 1..Len(runners) /\ j + 1 \in 1..Len(runners)
        BY <1>1, <3>3
      <4>3. (IF i < k THEN i ELSE i + 1) = (IF j < k THEN j ELSE j + 1)
        BY <1>1, <3>3, <4>1, <4>2 DEF OneEach
      <4>4. QED
        BY <1>1, <4>2, <4>3
    <3>7. \A i \in 1..Len(t) : t[i].repo # e.repo
      <4>1. SUFFICES ASSUME NEW i \in 1..Len(t) PROVE t[i].repo # e.repo
        OBVIOUS
      <4>2. i \in 1..Len(runners) /\ i + 1 \in 1..Len(runners)
        BY <1>1, <3>3
      <4>3. (IF i < k THEN i ELSE i + 1) # k
        BY <1>1, <4>2
      <4>4. QED
        BY <3>1, <3>3, <4>2, <4>3
    <3>8. ToSet(t) \cup {e} = ToSet(runners) \cup {e}
      <4>1. ASSUME NEW i \in 1..Len(t) PROVE t[i] \in ToSet(runners)
        <5>1. i \in 1..Len(runners) /\ i + 1 \in 1..Len(runners)
          BY <1>1, <3>3
        <5>2. QED
          BY <1>1, <3>3, <5>1 DEF ToSet
      <4>2. ASSUME NEW i \in 1..Len(runners), i # k PROVE runners[i] \in ToSet(t)
        <5>1. CASE i < k
          <6>1. i \in 1..Len(t)
            BY <1>1, <3>3, <5>1
          <6>2. QED
            BY <3>3, <3>5, <5>1, <6>1 DEF ToSet
        <5>2. CASE ~(i < k)
          <6>1. i - 1 \in 1..Len(t) /\ ~(i - 1 < k) /\ (i - 1) + 1 = i
            BY <1>1, <3>3, <4>2, <5>2
          <6>2. t[i - 1] = runners[i]
            BY <3>3, <6>1
          <6>3. QED
            BY <3>5, <6>1, <6>2 DEF ToSet
        <5>3. QED
          BY <5>1, <5>2
      <4>3. QED
        BY <1>1, <3>1, <3>5, <4>1, <4>2 DEF ToSet
    <3>9. QED
      BY <2>1, <3>3, <3>4, <3>6, <3>7, <3>8
  <2>2. CASE ~HasRunner(e.repo)
    <3>1. t = runners
      BY <2>2, OthersOf
    <3>2. \A i \in 1..Len(runners) : runners[i].repo # e.repo
      BY <1>1, <2>2 DEF HasRunner, ToSet
    <3>3. RemoveFirst(returned, e.repo) = returned
      BY <1>2, <3>2 DEF RemoveFirst
    <3>4. QED
      BY <1>1, <1>2, <2>2, <3>1, <3>2, <3>3
  <2>3. QED
    BY <2>1, <2>2
<1>4. all = Append(t, e)
  BY DEF Used
<1> HIDE DEF t, all
<1>5. /\ all \in Seq(Entries) /\ Len(all) = Len(t) + 1 /\ all[Len(t) + 1] = e
      /\ \A i \in 1..Len(t) : all[i] = t[i]
  BY <1>3, <1>4, AppendProperties
<1>6. Len(t) \in Nat /\ DOMAIN t = 1..Len(t) /\ DOMAIN all = 1..Len(t) + 1
  BY <1>3, <1>5, LenProperties
<1>7. OneEach(all)
  BY <1>3, <1>5, <1>6 DEF OneEach
<1>8. ToSet(all) = ToSet(t) \cup {e}
  <2>1. \A i \in 1..Len(t) + 1 : i \in 1..Len(t) \/ i = Len(t) + 1
    BY <1>6
  <2>2. 1..Len(t) \subseteq 1..Len(t) + 1 /\ Len(t) + 1 \in 1..Len(t) + 1
    BY <1>6
  <2>3. QED
    BY <1>5, <1>6, <2>1, <2>2 DEF ToSet
<1>9. ReposOf(all) = Append(RemoveFirst(returned, e.repo), e.repo)
  BY <1>3, <1>4, ReposOfAppended
<1>10. Len(all) = IF HasRunner(e.repo) THEN Len(runners) ELSE Len(runners) + 1
  <2>1. CASE HasRunner(e.repo)
    BY <1>1, <1>3, <1>5, <2>1
  <2>2. CASE ~HasRunner(e.repo)
    BY <1>1, <1>3, <1>5, <2>2
  <2>3. QED
    BY <2>1, <2>2
<1>11. QED
  BY <1>3, <1>5, <1>7, <1>8, <1>9, <1>10 DEF all

\* Whoever gets e's runner finds it again, and nobody's runner is lost.
LEMMA SessionsStay ==
  ASSUME SessionsAreFound, Registered \cup evicted \subseteq (Registered \cup evicted)',
         NEW c \in Clients, \A d \in Clients : d # c => turn'[d] = turn[d],
         turn'[c].pc \in {"runner", "session"} =>
           turn'[c].runner \in (Registered \cup evicted)',
         \A d \in Clients : session'[d] = session[d] \/ session'[d] = NoSession
           \/ session'[d].runner \in (Registered \cup evicted)'
  PROVE  SessionsAreFound'
BY DEF SessionsAreFound

\* The bound on the runners drops the one used least recently, or none.
Gone(all) == SubSeq(all, 1, Len(all) - MaxRepos)
Left(all) == SubSeq(all, Len(Gone(all)) + 1, Len(all))
Latest(s) == IF Len(s) > MaxRepos THEN Tail(s) ELSE s

LEMMA EvictOldest ==
  ASSUME NEW all \in Seq(Entries), OneEach(all), Len(all) <= MaxRepos + 1
  PROVE  /\ Left(all) \in Seq(Entries) /\ OneEach(Left(all)) /\ Len(Left(all)) <= MaxRepos
         /\ Latest(ReposOf(all)) = ReposOf(Left(all))
         /\ ToSet(Gone(all)) \cup ToSet(Left(all)) = ToSet(all)
<1>1. /\ Len(all) \in Nat /\ MaxRepos \in Nat \ {0} /\ DOMAIN all = 1..Len(all)
      /\ Len(ReposOf(all)) = Len(all)
  BY LenProperties, ReposOfProperties, RegistryAssumption
<1>2. CASE Len(all) <= MaxRepos
  <2>1. Len(all) - MaxRepos \in Int /\ Len(all) - MaxRepos < 1
    BY <1>1, <1>2
  <2>2. Gone(all) = <<>>
    BY <2>1, SubSeqEmpty DEF Gone
  <2>3. Len(Gone(all)) + 1 = 1 /\ ToSet(Gone(all)) = {}
    BY <2>2 DEF ToSet
  <2>4. Left(all) = all
    BY <2>3, SubSeqFull DEF Left
  <2>5. QED
    BY <1>1, <1>2, <2>3, <2>4 DEF Latest
<1>3. CASE Len(all) = MaxRepos + 1
  <2>1. Len(all) - MaxRepos = 1 /\ all # <<>> /\ 1 \in 1..Len(all)
    BY <1>1, <1>3
  <2>2. \A i \in 1..1 : all[i] \in Entries
    BY <1>1, <2>1, ElementOfSeq
  <2>3. Gone(all) \in Seq(Entries) /\ Len(Gone(all)) = 1 /\ Gone(all)[1] = all[1]
    <3>1. Gone(all) = SubSeq(all, 1, 1)
      BY <2>1 DEF Gone
    <3>2. /\ SubSeq(all, 1, 1) \in Seq(Entries)
          /\ Len(SubSeq(all, 1, 1)) = IF 1 <= 1 THEN 1 - 1 + 1 ELSE 0
          /\ \A i \in 1..1 - 1 + 1 : SubSeq(all, 1, 1)[i] = all[1 + i - 1]
      BY <2>2, SubSeqProperties
    <3>3. QED
      BY <3>1, <3>2
  <2>4. Left(all) = Tail(all)
    BY <2>1, <2>3, TailIsSubSeq DEF Left
  <2>5. /\ Left(all) \in Seq(Entries) /\ Len(Left(all)) = Len(all) - 1
        /\ \A i \in 1..Len(Left(all)) : Left(all)[i] = all[i + 1]
    BY <2>1, <2>4, HeadTailProperties
  <2>6. DOMAIN Gone(all) = {1} /\ DOMAIN Left(all) = 1..Len(Left(all)) /\ Len(Left(all)) \in Nat
    BY <2>3, <2>5, LenProperties
  <2>7. OneEach(Left(all))
    <3>1. SUFFICES ASSUME NEW i \in 1..Len(Left(all)), NEW j \in 1..Len(Left(all)),
                          Left(all)[i].repo = Left(all)[j].repo
                   PROVE  i = j
      BY DEF OneEach
    <3>2. i + 1 \in 1..Len(all) /\ j + 1 \in 1..Len(all)
      BY <1>1, <2>5
    <3>3. i + 1 = j + 1
      BY <2>5, <3>1, <3>2 DEF OneEach
    <3>4. QED
      BY <2>6, <3>3
  <2>8. Latest(ReposOf(all)) = ReposOf(Left(all))
    BY <1>1, <1>3, <2>1, <2>4, ReposOfTail DEF Latest
  <2>9. ToSet(Gone(all)) \cup ToSet(Left(all)) = ToSet(all)
    <3>1. \A i \in 1..Len(all) : i = 1 \/ (i - 1 \in 1..Len(Left(all)) /\ (i - 1) + 1 = i)
      BY <1>1, <2>5
    <3>2. \A i \in 1..Len(Left(all)) : i + 1 \in 1..Len(all)
      BY <1>1, <2>5
    <3>3. \A i \in 1..Len(all) : i = 1 \/ all[i] \in ToSet(Left(all))
      <4>1. SUFFICES ASSUME NEW i \in 1..Len(all), i # 1 PROVE all[i] \in ToSet(Left(all))
        OBVIOUS
      <4>2. i - 1 \in DOMAIN Left(all) /\ Left(all)[i - 1] = all[(i - 1) + 1]
        BY <2>5, <2>6, <3>1, <4>1
      <4>3. Left(all)[i - 1] = all[i]
        BY <3>1, <4>1, <4>2
      <4>4. QED
        BY <4>2, <4>3 DEF ToSet
    <3>4. \A i \in 1..Len(Left(all)) : Left(all)[i] \in ToSet(all)
      BY <1>1, <2>5, <3>2 DEF ToSet
    <3>5. QED
      BY <1>1, <2>1, <2>3, <2>6, <3>3, <3>4 DEF ToSet
  <2>10. QED
    BY <1>1, <1>3, <2>5, <2>7, <2>8, <2>9
<1>4. Len(all) <= MaxRepos \/ Len(all) = MaxRepos + 1
  <2>1. Len(all) \in Int /\ MaxRepos \in Int
    BY <1>1
  <2>2. QED
    BY <2>1
<1>5. QED
  BY <1>2, <1>3, <1>4

Turn == [pc : {"idle", "built", "runner", "session"},
         repo : Repos \cup {""}, runner : 0..MaxBuilds]
Session == [runner : 0..MaxBuilds, idle : BOOLEAN]

LEMMA NothingTyped == NoTurn \in Turn /\ NoTurn.pc = "idle" /\ NoSession \in Session
<1>1. 0 \in 0..MaxBuilds
  BY RegistryAssumption
<1>2. QED
  BY <1>1 DEF NoTurn, Turn, NoSession, Session

\* The state variables other than the runners keep their types.
RestTyped ==
  /\ built \in 0..MaxBuilds
  /\ swept \in [Repos -> BOOLEAN]
  /\ turn \in [Clients -> Turn]
  /\ session \in [Clients -> Session]
  /\ evicted \in SUBSET Runner

\* The types of the two sequences follow from the order they are kept in.
LEMMA RegistryTyped == RestTyped /\ RunnersInv => RegistryTypeOK
<1> SUFFICES ASSUME RestTyped, RunnersInv PROVE RegistryTypeOK
  OBVIOUS
<1>1. runners \in Seq(Entries) /\ DOMAIN runners = 1..Len(runners) /\ Len(runners) <= MaxRepos
  BY LenProperties DEF RunnersInv
<1>2. \A e \in ToSet(runners) : e \in Entries
  BY <1>1, ElementOfSeq DEF ToSet
<1>3. returned = ReposOf(runners)
  BY DEF RunnersInv, KeepsMostRecent, ReposOf
<1>4. returned \in Seq(Repos) /\ Len(returned) = Len(runners)
  BY <1>1, <1>3, ReposOfProperties
<1>5. ToSet(returned) \in SUBSET Repos
  BY <1>4, ElementOfSeq, LenProperties DEF ToSet
<1>6. \A e \in ToSet(runners) : e.repo \in Repos /\ e.runner \in Runner
  BY <1>2 DEF Entries
<1>7. QED
  BY <1>1, <1>4, <1>5, <1>6 DEF RegistryTypeOK, RestTyped, Turn, Session

LEMMA RegistryTypedNext == (RestTyped /\ RunnersInv)' => RegistryTypeOK'
BY RegistryTyped, PTL

\* Every entry is one, whoever registered it.
LEMMA KeptProperties ==
  ASSUME RunnersInv, NEW p, HasRunner(p)
  PROVE  /\ Kept(p) \in Entries /\ Kept(p).repo = p
         /\ Kept(p) \in ToSet(runners)
<1>1. runners \in Seq(Entries) /\ DOMAIN runners = 1..Len(runners)
  BY LenProperties DEF RunnersInv
<1>2. PICK k \in 1..Len(runners) : runners[k].repo = p /\ Kept(p) = runners[k]
  BY PlaceOf
<1>3. QED
  BY <1>1, <1>2, ElementOfSeq DEF ToSet

LEMMA InvTyped ==
  ASSUME RegistryInv
  PROVE  RunnersInv /\ RestTyped /\ TurnsInv /\ SessionsAreFound
BY DEF RegistryInv, RegistryTypeOK, RestTyped, Turn, Session

\* A turn moves on.
LEMMA TurnMoves ==
  ASSUME RegistryInv, NEW c \in Clients, NEW next \in Turn,
         next.pc # "idle" => next.repo \in Repos /\ next.runner \in Runner,
         turn' = [turn EXCEPT ![c] = next]
  PROVE  /\ turn' \in [Clients -> Turn] /\ TurnsInv' /\ turn'[c] = next
         /\ \A d \in Clients : d # c => turn'[d] = turn[d]
<1>1. turn \in [Clients -> Turn] /\ TurnsInv
  BY InvTyped DEF RestTyped
<1>2. /\ turn' \in [Clients -> Turn] /\ turn'[c] = next
      /\ \A d \in Clients : d # c => turn'[d] = turn[d]
  BY <1>1
<1>3. TurnsInv'
  BY <1>1, <1>2 DEF TurnsInv
<1>4. QED
  BY <1>2, <1>3

\* What a turn gets from get_runner, and what it leaves in the registry.
LEMMA ReturnStep ==
  ASSUME RegistryInv, NEW c \in Clients, NEW e \in Entries, Return(c, e)
  PROVE  /\ turn' \in [Clients -> Turn] /\ TurnsInv'
         /\ turn'[c].runner = e.runner
         /\ \A d \in Clients : d # c => turn'[d] = turn[d]
         /\ returned' = Latest(Append(RemoveFirst(returned, e.repo), e.repo))
<1> DEFINE next == [pc |-> "runner", repo |-> e.repo, runner |-> e.runner]
<1>1. e.repo \in Repos /\ e.runner \in Runner /\ Runner \subseteq 0..MaxBuilds
  BY RegistryAssumption DEF Entries, Runner
<1>2. next \in Turn /\ next.repo = e.repo /\ next.runner = e.runner
  BY <1>1 DEF Turn
<1>3. turn' = [turn EXCEPT ![c] = next]
  BY DEF Return
<1> HIDE DEF next
<1>4. /\ turn' \in [Clients -> Turn] /\ TurnsInv' /\ turn'[c] = next
      /\ \A d \in Clients : d # c => turn'[d] = turn[d]
  BY <1>1, <1>2, <1>3, TurnMoves
<1>5. returned' = Latest(Append(RemoveFirst(returned, e.repo), e.repo))
  BY DEF Return, Latest
<1>6. QED
  BY <1>2, <1>4, <1>5

LEMMA HitStep ==
  ASSUME RegistryInv, NEW c \in Clients, NEW p \in Repos, Hit(c, p),
         UNCHANGED <<swept, session, evicted>>
  PROVE  RegistryInv'
<1> DEFINE e == Kept(p)
<1>1. RunnersInv /\ RestTyped /\ HasRunner(p)
  BY InvTyped DEF Hit
<1>2. e \in Entries /\ e.repo = p /\ e \in ToSet(runners)
  BY <1>1, KeptProperties
<1> HIDE DEF e
<1>3. runners' = Used(e) /\ Return(c, e) /\ UNCHANGED built
  BY <1>2 DEF Hit, Used, e
<1>4. /\ Used(e) \in Seq(Entries) /\ OneEach(Used(e)) /\ Len(Used(e)) = Len(runners)
      /\ ToSet(Used(e)) = ToSet(runners)
      /\ ReposOf(Used(e)) = Append(RemoveFirst(returned, e.repo), e.repo)
  <2>1. HasRunner(e.repo) /\ e = Kept(e.repo)
    BY <1>1, <1>2 DEF e
  <2>2. /\ Used(e) \in Seq(Entries) /\ OneEach(Used(e))
        /\ Len(Used(e)) = IF HasRunner(e.repo) THEN Len(runners) ELSE Len(runners) + 1
        /\ ToSet(Used(e)) = ToSet(runners) \cup {e}
        /\ ReposOf(Used(e)) = Append(RemoveFirst(returned, e.repo), e.repo)
    BY <1>1, <1>2, <2>1, UsedProperties
  <2>3. QED
    BY <1>2, <2>1, <2>2
<1>5. /\ turn' \in [Clients -> Turn]
      /\ TurnsInv' /\ turn'[c].runner = e.runner
      /\ \A d \in Clients : d # c => turn'[d] = turn[d]
      /\ returned' = Latest(Append(RemoveFirst(returned, e.repo), e.repo))
  BY <1>2, <1>3, ReturnStep
<1>6. Len(runners) \in Nat /\ Len(runners) <= MaxRepos /\ MaxRepos \in Nat
  BY <1>1, LenProperties, RegistryAssumption DEF RunnersInv
<1>7. RunnersInv'
  <2>1. Len(ReposOf(Used(e))) <= MaxRepos
    BY <1>4, <1>6, ReposOfProperties
  <2>2. returned' = Latest(ReposOf(Used(e)))
    BY <1>4, <1>5
  <2>3. Len(ReposOf(Used(e))) \in Nat
    BY <1>4, <1>6, ReposOfProperties
  <2>4. returned' = ReposOf(Used(e))
    BY <1>6, <2>1, <2>2, <2>3 DEF Latest
  <2>5. KeepsMostRecent'
    BY <1>3, <2>4 DEF KeepsMostRecent, ReposOf
  <2>6. QED
    BY <1>3, <1>4, <1>6, <2>5 DEF RunnersInv
<1>8. RestTyped'
  BY <1>1, <1>3, <1>5 DEF RestTyped
<1>9. SessionsAreFound'
  <2>1. (Registered \cup evicted)' = Registered \cup evicted
    BY <1>3, <1>4 DEF Registered
  <2>2. e.runner \in Registered
    BY <1>2 DEF Registered
  <2>3. QED
    BY <1>5, <2>1, <2>2, SessionsStay DEF RegistryInv
<1>10. QED
  BY <1>5, <1>7, <1>8, <1>9, RegistryTypedNext DEF RegistryInv

\* SetDefault(c) is the entry of c's repo, c's own or one registered before.
LEMMA SetDefaultProperties ==
  ASSUME RegistryInv, NEW c \in Clients, turn[c].pc = "built"
  PROVE  /\ SetDefault(c) \in Entries /\ SetDefault(c).repo = turn[c].repo
         /\ HasRunner(turn[c].repo) => SetDefault(c) = Kept(turn[c].repo)
<1>1. turn[c].repo \in Repos /\ turn[c].runner \in Runner /\ RunnersInv
  BY DEF RegistryInv, TurnsInv
<1>2. CASE HasRunner(turn[c].repo)
  BY <1>1, <1>2, KeptProperties DEF SetDefault
<1>3. CASE ~HasRunner(turn[c].repo)
  BY <1>1, <1>3 DEF SetDefault, Entries
<1>4. QED
  BY <1>2, <1>3

LEMMA RegisterStep ==
  ASSUME RegistryInv, NEW c \in Clients, Register(c)
  PROVE  RegistryInv'
<1> DEFINE e == SetDefault(c)
<1>1. RunnersInv /\ RestTyped /\ turn[c].pc = "built"
  BY InvTyped DEF Register
<1>2. /\ e \in Entries /\ e.repo = turn[c].repo
      /\ HasRunner(e.repo) => e = Kept(e.repo)
  BY <1>1, SetDefaultProperties
<1>3. /\ runners' = Left(Used(e))
      /\ evicted' = evicted \cup {x.runner : x \in ToSet(Gone(Used(e)))}
      /\ swept' \in [Repos -> BOOLEAN]
      /\ Return(c, e) /\ UNCHANGED <<built, session>>
  <2>1. Used(e) = Append(Others(turn[c].repo), SetDefault(c))
    BY <1>2 DEF Used
  <2>2. \A p \in Repos : swept[p] \in BOOLEAN
    BY <1>1 DEF RestTyped
  <2>3. QED
    BY <1>1, <2>1, <2>2 DEF Register, Left, Gone
<1> HIDE DEF e
<1>4. /\ Used(e) \in Seq(Entries) /\ OneEach(Used(e))
      /\ Len(Used(e)) = IF HasRunner(e.repo) THEN Len(runners) ELSE Len(runners) + 1
      /\ ToSet(Used(e)) = ToSet(runners) \cup {e}
      /\ ReposOf(Used(e)) = Append(RemoveFirst(returned, e.repo), e.repo)
  BY <1>1, <1>2, UsedProperties
<1>5. Len(Used(e)) <= MaxRepos + 1
  <2>1. Len(runners) \in Nat /\ Len(runners) <= MaxRepos /\ MaxRepos \in Nat
    BY <1>1, LenProperties, RegistryAssumption DEF RunnersInv
  <2>2. CASE HasRunner(e.repo)
    BY <1>4, <2>1, <2>2
  <2>3. CASE ~HasRunner(e.repo)
    BY <1>4, <2>1, <2>3
  <2>4. QED
    BY <2>2, <2>3
<1>6. /\ runners' \in Seq(Entries) /\ OneEach(runners') /\ Len(runners') <= MaxRepos
      /\ Latest(ReposOf(Used(e))) = ReposOf(runners')
      /\ ToSet(Gone(Used(e))) \cup ToSet(runners') = ToSet(Used(e))
  BY <1>3, <1>4, <1>5, EvictOldest
<1>7. /\ turn' \in [Clients -> Turn]
      /\ TurnsInv' /\ turn'[c].runner = e.runner
      /\ \A d \in Clients : d # c => turn'[d] = turn[d]
      /\ returned' = Latest(Append(RemoveFirst(returned, e.repo), e.repo))
  BY <1>2, <1>3, ReturnStep
<1>8. RunnersInv'
  <2>1. KeepsMostRecent'
    BY <1>4, <1>6, <1>7 DEF KeepsMostRecent, ReposOf
  <2>2. QED
    BY <1>6, <2>1 DEF RunnersInv, OneEach
<1>9. \A x \in ToSet(Gone(Used(e))) : x.runner \in Runner
  <2>1. \A x \in ToSet(runners) : x.runner \in Runner
    BY DEF RegistryInv, RegistryTypeOK
  <2>2. e.runner \in Runner
    BY <1>2 DEF Entries
  <2>3. QED
    BY <1>4, <1>6, <2>1, <2>2
<1>10. RestTyped'
  <2>1. evicted' \in SUBSET Runner
    BY <1>1, <1>3, <1>9 DEF RestTyped
  <2>2. QED
    BY <1>1, <1>3, <1>7, <2>1 DEF RestTyped
<1>11. SessionsAreFound'
  <2>1. \A x \in ToSet(runners) \cup {e} : x.runner \in (Registered \cup evicted)'
    BY <1>3, <1>4, <1>6 DEF Registered
  <2>2. Registered \cup evicted \subseteq (Registered \cup evicted)'
    BY <1>3, <2>1 DEF Registered
  <2>3. e.runner \in (Registered \cup evicted)'
    BY <2>1
  <2>4. QED
    BY <1>3, <1>7, <2>2, <2>3, SessionsStay DEF RegistryInv
<1>12. QED
  BY <1>7, <1>8, <1>10, <1>11, RegistryTypedNext DEF RegistryInv

\* A step that leaves the runners alone, moves turns on with the runner they
\* have, and keeps or drops sessions or opens one in the runner of a turn.
LEMMA RunnersRest ==
  ASSUME RegistryInv, UNCHANGED <<runners, returned, evicted>>,
         built' \in 0..MaxBuilds, swept' \in [Repos -> BOOLEAN],
         turn' \in [Clients -> Turn], TurnsInv', session' \in [Clients -> Session],
         \A c \in Clients :
           /\ turn'[c].pc \in {"runner", "session"} =>
                turn[c].pc \in {"runner", "session"} /\ turn'[c].runner = turn[c].runner
           /\ \/ session'[c] \in {session[c], NoSession}
              \/ session[c] # NoSession /\ session'[c].runner = session[c].runner
              \/ turn[c].pc = "runner" /\ session'[c].runner = turn[c].runner
  PROVE  RegistryInv'
<1>1. RunnersInv /\ RestTyped /\ TurnsInv /\ SessionsAreFound
  BY InvTyped
<1>2. RunnersInv'
  BY <1>1 DEF RunnersInv, KeepsMostRecent
<1>3. RestTyped'
  BY <1>1 DEF RestTyped
<1>4. (Registered \cup evicted)' = Registered \cup evicted
  BY DEF Registered
<1>5. SessionsAreFound'
  BY <1>1, <1>4 DEF SessionsAreFound
<1>6. QED
  BY <1>2, <1>3, <1>5, RegistryTypedNext DEF RegistryInv

LEMMA MissStep ==
  ASSUME RegistryInv, NEW c \in Clients, NEW p \in Repos, Miss(c, p),
         UNCHANGED <<swept, session, evicted>>
  PROVE  RegistryInv'
<1> DEFINE next == [pc |-> "built", repo |-> p, runner |-> built + 1]
<1>1. RestTyped
  BY InvTyped
<1>2. built \in Nat /\ built < MaxBuilds /\ MaxBuilds \in Nat
  BY <1>1, RegistryAssumption DEF RestTyped, Miss
<1>3. built + 1 \in Runner /\ built + 1 \in 0..MaxBuilds
  BY <1>2 DEF Runner
<1>4. next \in Turn /\ next.pc = "built" /\ next.repo = p /\ next.runner = built + 1
  BY <1>3 DEF Turn
<1>5. turn' = [turn EXCEPT ![c] = next] /\ built' = built + 1 /\ UNCHANGED <<runners, returned>>
  BY DEF Miss
<1> HIDE DEF next
<1>6. /\ turn' \in [Clients -> Turn] /\ TurnsInv' /\ turn'[c] = next
      /\ \A d \in Clients : d # c => turn'[d] = turn[d]
  BY <1>3, <1>4, <1>5, TurnMoves
<1>7. QED
  BY <1>1, <1>3, <1>4, <1>5, <1>6, RunnersRest DEF RestTyped

\* A turn keeps its runner when it moves on to its session, or has none left.
LEMMA TurnGoesOn ==
  ASSUME RegistryInv, NEW c \in Clients, turn[c].pc # "idle",
         \/ turn[c].pc = "runner" /\ turn' = [turn EXCEPT ![c].pc = "session"]
         \/ turn' = [turn EXCEPT ![c] = NoTurn]
  PROVE  /\ turn' \in [Clients -> Turn] /\ TurnsInv'
         /\ \A d \in Clients : turn'[d].pc \in {"runner", "session"} =>
              turn[d].pc \in {"runner", "session"} /\ turn'[d].runner = turn[d].runner
<1>1. turn \in [Clients -> Turn] /\ TurnsInv
  BY InvTyped DEF RestTyped
<1>2. CASE turn[c].pc = "runner" /\ turn' = [turn EXCEPT ![c].pc = "session"]
  <2> DEFINE next == [turn[c] EXCEPT !.pc = "session"]
  <2>1. /\ next \in Turn /\ next.repo = turn[c].repo /\ next.runner = turn[c].runner
    BY <1>1 DEF Turn
  <2>2. turn[c].repo \in Repos /\ turn[c].runner \in Runner
    BY <1>1 DEF TurnsInv
  <2>3. turn' = [turn EXCEPT ![c] = next]
    BY <1>2
  <2> HIDE DEF next
  <2>4. /\ turn' \in [Clients -> Turn] /\ TurnsInv' /\ turn'[c] = next
        /\ \A d \in Clients : d # c => turn'[d] = turn[d]
    BY <2>1, <2>2, <2>3, TurnMoves
  <2>5. QED
    BY <1>2, <2>1, <2>4
<1>3. CASE turn' = [turn EXCEPT ![c] = NoTurn]
  <2>1. NoTurn \in Turn /\ NoTurn.pc = "idle"
    BY NothingTyped
  <2>2. /\ turn' \in [Clients -> Turn] /\ TurnsInv' /\ turn'[c] = NoTurn
        /\ \A d \in Clients : d # c => turn'[d] = turn[d]
    BY <1>3, <2>1, TurnMoves
  <2>3. QED
    BY <2>1, <2>2
<1>4. QED
  BY <1>2, <1>3

LEMMA OpenSessionStep ==
  ASSUME RegistryInv, NEW c \in Clients, OpenSession(c)
  PROVE  RegistryInv'
<1>1. RestTyped /\ TurnsInv /\ turn[c].pc = "runner"
  BY InvTyped DEF OpenSession
<1>2. NoSession \in Session /\ turn[c].runner \in 0..MaxBuilds
  <2>1. turn[c] \in Turn
    BY <1>1 DEF RestTyped
  <2>2. QED
    BY <2>1, NothingTyped DEF Turn
<1> DEFINE left == Sweep(turn[c].repo, turn[c].runner)
           new == IF left[c].runner = turn[c].runner THEN left[c]
                  ELSE [runner |-> turn[c].runner, idle |-> FALSE]
<1>3. left \in [Clients -> Session] /\ \A d \in Clients : left[d] \in {session[d], NoSession}
  BY <1>1, <1>2 DEF Sweep, RestTyped
<1>4. session' = [left EXCEPT ![c] = new]
  BY DEF OpenSession
<1> HIDE DEF left
<1>5. new \in Session /\ (new = left[c] \/ new.runner = turn[c].runner)
  <2>1. [runner |-> turn[c].runner, idle |-> FALSE] \in Session
    BY <1>2 DEF Session
  <2>2. QED
    BY <1>3, <2>1
<1> HIDE DEF new
<1>6. /\ session' \in [Clients -> Session] /\ session'[c] = new
      /\ \A d \in Clients : d # c => session'[d] = left[d]
  BY <1>3, <1>4, <1>5
<1>7. /\ turn' \in [Clients -> Turn] /\ TurnsInv'
      /\ \A d \in Clients : turn'[d].pc \in {"runner", "session"} =>
           turn[d].pc \in {"runner", "session"} /\ turn'[d].runner = turn[d].runner
  BY <1>1, TurnGoesOn DEF OpenSession
<1>8. swept' \in [Repos -> BOOLEAN] /\ UNCHANGED <<runners, built, evicted, returned>>
  BY <1>1 DEF OpenSession, RestTyped
<1>9. built' \in 0..MaxBuilds
  BY <1>1, <1>8 DEF RestTyped
<1>10. \A d \in Clients :
         \/ session'[d] \in {session[d], NoSession}
         \/ turn[d].pc = "runner" /\ session'[d].runner = turn[d].runner
  BY <1>1, <1>3, <1>5, <1>6
<1>11. QED
  BY <1>6, <1>7, <1>8, <1>9, <1>10, RunnersRest

\* A session gets older, or is used.
LEMMA SessionAges ==
  ASSUME RegistryInv, NEW c \in Clients, NEW old \in BOOLEAN, session[c] # NoSession,
         session' = [session EXCEPT ![c].idle = old]
  PROVE  /\ session' \in [Clients -> Session]
         /\ \A d \in Clients :
              \/ session'[d] = session[d]
              \/ session[d] # NoSession /\ session'[d].runner = session[d].runner
<1>1. session \in [Clients -> Session]
  BY InvTyped DEF RestTyped
<1> DEFINE new == [session[c] EXCEPT !.idle = old]
<1>2. new \in Session /\ new.runner = session[c].runner
  BY <1>1 DEF Session
<1>3. session' = [session EXCEPT ![c] = new]
  OBVIOUS
<1> HIDE DEF new
<1>4. QED
  BY <1>1, <1>2, <1>3

LEMMA OtherRegistryStep ==
  ASSUME RegistryInv,
         \/ \E c \in Clients : RunTurn(c) \/ FailTurn(c) \/ GoIdle(c)
         \/ \E p \in Repos : SweepDue(p)
         \/ UNCHANGED registryVars
  PROVE  RegistryInv'
<1>1. RestTyped /\ TurnsInv
  BY InvTyped
<1>2. ASSUME NEW c \in Clients, RunTurn(c) PROVE RegistryInv'
  <2>1. /\ turn' \in [Clients -> Turn] /\ TurnsInv'
        /\ \A d \in Clients : turn'[d].pc \in {"runner", "session"} =>
             turn[d].pc \in {"runner", "session"} /\ turn'[d].runner = turn[d].runner
    BY <1>2, TurnGoesOn DEF RunTurn
  <2>2. /\ session' \in [Clients -> Session]
        /\ \A d \in Clients :
             \/ session'[d] = session[d]
             \/ session[d] # NoSession /\ session'[d].runner = session[d].runner
    <3>1. CASE session[c] = NoSession
      BY <1>1, <1>2, <3>1 DEF RunTurn, RestTyped
    <3>2. CASE session[c] # NoSession
      BY <1>2, <3>2, SessionAges DEF RunTurn
    <3>3. QED
      BY <3>1, <3>2
  <2>3. UNCHANGED <<runners, built, swept, evicted, returned>>
    BY <1>2 DEF RunTurn
  <2>4. built' \in 0..MaxBuilds /\ swept' \in [Repos -> BOOLEAN]
    BY <1>1, <2>3 DEF RestTyped
  <2>5. QED
    BY <2>1, <2>2, <2>3, <2>4, RunnersRest
<1>3. ASSUME NEW c \in Clients, FailTurn(c) PROVE RegistryInv'
  <2>1. /\ turn' \in [Clients -> Turn] /\ TurnsInv'
        /\ \A d \in Clients : turn'[d].pc \in {"runner", "session"} =>
             turn[d].pc \in {"runner", "session"} /\ turn'[d].runner = turn[d].runner
    BY <1>3, TurnGoesOn DEF FailTurn
  <2>2. UNCHANGED <<runners, built, swept, session, evicted, returned>>
    BY <1>3 DEF FailTurn
  <2>3. /\ built' \in 0..MaxBuilds /\ swept' \in [Repos -> BOOLEAN]
        /\ session' \in [Clients -> Session]
    BY <1>1, <2>2 DEF RestTyped
  <2>4. QED
    BY <2>1, <2>2, <2>3, RunnersRest
<1>4. ASSUME NEW c \in Clients, GoIdle(c) PROVE RegistryInv'
  <2>1. /\ session' \in [Clients -> Session]
        /\ \A d \in Clients :
             \/ session'[d] = session[d]
             \/ session[d] # NoSession /\ session'[d].runner = session[d].runner
    BY <1>4, SessionAges DEF GoIdle
  <2>2. UNCHANGED <<runners, built, swept, turn, evicted, returned>>
    BY <1>4 DEF GoIdle
  <2>3. /\ built' \in 0..MaxBuilds /\ swept' \in [Repos -> BOOLEAN]
        /\ turn' \in [Clients -> Turn] /\ TurnsInv'
    BY <1>1, <2>2 DEF RestTyped, TurnsInv
  <2>4. QED
    BY <2>1, <2>2, <2>3, RunnersRest
<1>5. CASE (\E p \in Repos : SweepDue(p)) \/ UNCHANGED registryVars
  <2>1. UNCHANGED <<runners, built, turn, session, evicted, returned>>
    BY <1>5 DEF SweepDue, registryVars
  <2>2. swept' \in [Repos -> BOOLEAN]
    BY <1>1, <1>5 DEF SweepDue, registryVars, RestTyped
  <2>3. /\ built' \in 0..MaxBuilds /\ session' \in [Clients -> Session]
        /\ turn' \in [Clients -> Turn] /\ TurnsInv'
    BY <1>1, <2>1 DEF RestTyped, TurnsInv
  <2>4. QED
    BY <2>1, <2>2, <2>3, RunnersRest
<1>6. QED
  BY <1>2, <1>3, <1>4, <1>5

LEMMA RegistryInductive == RegistryInv /\ [RegistryNext]_registryVars => RegistryInv'
<1> SUFFICES ASSUME RegistryInv, [RegistryNext]_registryVars PROVE RegistryInv'
  OBVIOUS
<1>1. CASE \E c \in Clients : GetRunner(c)
  <2>1. PICK c \in Clients, p \in Repos :
             (Hit(c, p) \/ Miss(c, p)) /\ UNCHANGED <<swept, session, evicted>>
    BY <1>1 DEF GetRunner
  <2>2. QED
    BY <2>1, HitStep, MissStep
<1>2. QED
  BY <1>1, RegisterStep, OpenSessionStep, OtherRegistryStep DEF RegistryNext

LEMMA RegistryInitially == RegistryInit => RegistryInv
<1> SUFFICES ASSUME RegistryInit PROVE RegistryInv
  OBVIOUS
<1>1. runners = <<>> /\ returned = <<>> /\ Len(runners) = 0 /\ runners \in Seq(Entries)
  BY EmptySeq DEF RegistryInit
<1>2. RunnersInv
  <2>1. [i \in 1..0 |-> runners[i].repo] = <<>>
    OBVIOUS
  <2>2. QED
    BY <1>1, <2>1, RegistryAssumption DEF RunnersInv, OneEach, KeepsMostRecent
<1>3. RestTyped
  <2>1. NoTurn \in Turn /\ NoSession \in Session /\ 0 \in 0..MaxBuilds
    BY RegistryAssumption, NothingTyped
  <2>2. QED
    BY <2>1 DEF RegistryInit, RestTyped
<1>4. TurnsInv /\ SessionsAreFound
  BY DEF RegistryInit, TurnsInv, SessionsAreFound, NoTurn
<1>5. QED
  BY <1>2, <1>3, <1>4, RegistryTyped DEF RegistryInv

THEOREM RegistryInvariant == RegistrySpec => []RegistryInv
BY RegistryInitially, RegistryInductive, PTL DEF RegistrySpec

\* Whichever of several first turns for a repo registers its runner, all go on
\* with that one, and a session is lost with an evicted runner only.
THEOREM SessionsFound == RegistrySpec => []SessionsAreFound
<1>1. RegistryInv => SessionsAreFound
  BY DEF RegistryInv
<1>2. QED
  BY <1>1, RegistryInvariant, PTL

\* The registry holds the MaxRepos repos used last, however turns interleave
\* between the two locked halves of get_runner.
THEOREM MostRecentKept == RegistrySpec => []KeepsMostRecent
<1>1. RegistryInv => KeepsMostRecent
  BY DEF RegistryInv, RunnersInv
<1>2. QED
  BY <1>1, RegistryInvariant, PTL

----------------------------------------------------------------------------
(* The table of open invocations *)

OpenEntry == [inv : Invocations, agent : BOOLEAN, models : Seq(Run), tools : Seq(Run)]

OneEntryEach(s) == \A m, n \in 1..Len(s) : s[m].inv = s[n].inv => m = n

TableInv == table \in Seq(OpenEntry) /\ Len(table) <= MaxOpen /\ OneEntryEach(table)

\* The entry that invocation_state(i) evicts.
Evicted(i) == IF ~Known(i) /\ Len(table) = MaxOpen THEN {Head(table)} ELSE {}

\* The entries of other invocations that invocation_state(i) leaves.
Rest(i) == {x \in ToSet(table) : x.inv # i /\ x \notin Evicted(i)}

LEMMA TableFacts ==
  ASSUME TableInv
  PROVE  /\ Len(table) \in Nat /\ DOMAIN table = 1..Len(table)
         /\ \A n \in 1..Len(table) : table[n] \in OpenEntry
         /\ ToSet(table) = {table[n] : n \in 1..Len(table)}
         /\ ToSet(table) \subseteq OpenEntry
         /\ \A x, y \in ToSet(table) : x.inv = y.inv => x = y
<1>1. /\ Len(table) \in Nat /\ DOMAIN table = 1..Len(table)
      /\ \A n \in 1..Len(table) : table[n] \in OpenEntry
  BY LenProperties, ElementOfSeq DEF TableInv
<1>2. ToSet(table) = {table[n] : n \in 1..Len(table)}
  BY <1>1 DEF ToSet
<1>3. \A x, y \in ToSet(table) : x.inv = y.inv => x = y
  BY <1>2 DEF TableInv, OneEntryEach
<1>4. QED
  BY <1>1, <1>2, <1>3

\* i has one entry at most.
LEMMA EntryOf ==
  ASSUME TableInv, NEW i, Known(i)
  PROVE  /\ Entry(i) \in ToSet(table) /\ Entry(i).inv = i /\ Entry(i) \in OpenEntry
         /\ \A x \in ToSet(table) : x.inv = i => x = Entry(i)
<1>1. PICK z \in ToSet(table) : z.inv = i
  BY DEF Known
<1>2. \A x, y \in ToSet(table) : x.inv = y.inv => x = y
  BY TableFacts
<1>3. Entry(i) \in ToSet(table) /\ Entry(i).inv = i
  BY <1>1 DEF Entry
<1>4. QED
  BY <1>2, <1>3, TableFacts

LEMMA OwnEntry ==
  ASSUME TableInv, NEW i \in Invocations
  PROVE  Own(i) \in OpenEntry /\ Own(i).inv = i
<1>1. CASE Known(i)
  BY <1>1, EntryOf DEF Own
<1>2. CASE ~Known(i)
  <2>1. <<>> \in Seq(Run)
    BY EmptySeq
  <2>2. QED
    BY <1>2, <2>1 DEF Own, NewEntry, OpenEntry
<1>3. QED
  BY <1>1, <1>2

\* What invocation_state(i) makes of the table.
LEMMA StateTable ==
  ASSUME TableInv, NEW i \in Invocations, NEW t, t = invocation_state(i)
  PROVE  /\ t \in Seq(OpenEntry) /\ Len(t) <= MaxOpen /\ OneEntryEach(t)
         /\ ToSet(t) = {Own(i)} \cup Rest(i)
<1>1. /\ Len(table) \in Nat /\ DOMAIN table = 1..Len(table)
      /\ \A n \in 1..Len(table) : table[n] \in OpenEntry
      /\ ToSet(table) = {table[n] : n \in 1..Len(table)}
  BY TableFacts
<1>2. CASE Known(i)
  <2>1. t = table /\ Own(i) = Entry(i) /\ Evicted(i) = {}
    BY <1>2 DEF invocation_state, Own, Evicted
  <2>2. Rest(i) = ToSet(table) \ {Entry(i)} /\ Entry(i) \in ToSet(table)
    BY <1>2, <2>1, EntryOf DEF Rest
  <2>3. QED
    BY <2>1, <2>2 DEF TableInv
<1>3. CASE ~Known(i)
  <2> DEFINE s == IF Len(table) = MaxOpen THEN Tail(table) ELSE table
  <2>1. Own(i) = NewEntry(i) /\ t = Append(s, NewEntry(i))
    BY <1>3 DEF Own, invocation_state
  <2>2. Own(i) \in OpenEntry /\ Own(i).inv = i
    BY OwnEntry
  <2>3. \A n \in 1..Len(table) : table[n].inv # i
    BY <1>1, <1>3 DEF Known
  <2>4. /\ s \in Seq(OpenEntry) /\ Len(s) < MaxOpen /\ OneEntryEach(s)
        /\ ToSet(s) = Rest(i)
    <3>1. CASE Len(table) = MaxOpen
      <4>1. s = Tail(table) /\ Evicted(i) = {Head(table)}
        BY <1>3, <3>1 DEF Evicted
      <4>2. Len(table) \in Nat \ {0} /\ table # <<>> /\ Head(table) = table[1]
        BY <3>1, TracingAssumption, EmptySeq DEF TableInv
      <4>3. /\ Tail(table) \in Seq(OpenEntry) /\ Len(Tail(table)) = Len(table) - 1
            /\ \A n \in 1..Len(Tail(table)) : Tail(table)[n] = table[n + 1]
        BY <4>2, HeadTailProperties DEF TableInv
      <4>4. ToSet(Tail(table)) = {table[n] : n \in 2..Len(table)}
        BY <4>2, TailSet DEF TableInv
      <4>5. Rest(i) = {table[n] : n \in 2..Len(table)}
        <5>1. \A n \in 1..Len(table) : n # 1 => table[n] # table[1] /\ n \in 2..Len(table)
          BY <1>1, <4>2 DEF TableInv, OneEntryEach
        <5>2. \A n \in 2..Len(table) : n \in 1..Len(table) /\ n # 1
          BY <1>1
        <5>3. QED
          BY <1>1, <2>3, <4>1, <4>2, <5>1, <5>2 DEF Rest
      <4>6. OneEntryEach(Tail(table))
        <5>1. SUFFICES ASSUME NEW m \in 1..Len(Tail(table)), NEW n \in 1..Len(Tail(table)),
                              Tail(table)[m].inv = Tail(table)[n].inv
                       PROVE  m = n
          BY DEF OneEntryEach
        <5>2. m + 1 \in 1..Len(table) /\ n + 1 \in 1..Len(table)
          BY <1>1, <4>3
        <5>3. m + 1 = n + 1
          BY <4>3, <5>1, <5>2 DEF TableInv, OneEntryEach
        <5>4. QED
          BY <1>1, <4>3, <5>3
      <4>7. Len(Tail(table)) < MaxOpen
        BY <1>1, <3>1, <4>3
      <4>8. QED
        BY <4>1, <4>3, <4>4, <4>5, <4>6, <4>7
    <3>2. CASE Len(table) # MaxOpen
      <4>1. s = table /\ Evicted(i) = {}
        BY <1>3, <3>2 DEF Evicted
      <4>2. Len(table) < MaxOpen
        <5>1. Len(table) \in Int /\ MaxOpen \in Int /\ Len(table) <= MaxOpen
          BY <1>1, TracingAssumption DEF TableInv
        <5>2. QED
          BY <3>2, <5>1
      <4>3. Rest(i) = ToSet(table)
        BY <1>1, <2>3, <4>1 DEF Rest
      <4>4. QED
        BY <4>1, <4>2, <4>3 DEF TableInv
    <3>3. QED
      BY <3>1, <3>2
  <2> HIDE DEF s
  <2>5. Len(s) \in Nat /\ DOMAIN s = 1..Len(s) /\ ToSet(s) = {s[n] : n \in 1..Len(s)}
    BY <2>4, LenProperties DEF ToSet
  <2>6. /\ t \in Seq(OpenEntry) /\ Len(t) = Len(s) + 1 /\ t[Len(s) + 1] = Own(i)
        /\ \A n \in 1..Len(s) : t[n] = s[n]
    BY <2>1, <2>2, <2>4, AppendProperties
  <2>7. ToSet(t) = ToSet(s) \cup {Own(i)}
    BY <2>1, <2>2, <2>4, AppendSet
  <2>8. \A n \in 1..Len(s) : s[n].inv # i
    BY <2>4, <2>5 DEF Rest
  <2>9. OneEntryEach(t)
    <3>1. \A n \in 1..Len(t) : n \in 1..Len(s) \/ n = Len(s) + 1
      BY <2>5, <2>6
    <3>2. QED
      BY <2>2, <2>4, <2>6, <2>8, <3>1 DEF OneEntryEach
  <2>10. Len(t) <= MaxOpen
    BY <2>4, <2>5, <2>6, TracingAssumption
  <2>11. QED
    BY <2>4, <2>6, <2>7, <2>9, <2>10
<1>4. QED
  BY <1>2, <1>3

\* i's entry becomes e, and the oldest goes if the table was full without i.
LEMMA PutEffect ==
  ASSUME TableInv, NEW i \in Invocations, NEW e \in OpenEntry, e.inv = i, Put(i, e)
  PROVE  TableInv' /\ ToSet(table') = {e} \cup Rest(i)
<1> DEFINE t == invocation_state(i)
<1>1. /\ t \in Seq(OpenEntry) /\ Len(t) <= MaxOpen /\ OneEntryEach(t)
      /\ ToSet(t) = {Own(i)} \cup Rest(i)
  BY StateTable
<1>2. table' = [n \in 1..Len(t) |-> IF t[n].inv = i THEN e ELSE t[n]]
  BY DEF Put
<1> HIDE DEF t
<1>3. /\ Len(t) \in Nat /\ DOMAIN t = 1..Len(t) /\ \A n \in 1..Len(t) : t[n] \in OpenEntry
      /\ ToSet(t) = {t[n] : n \in 1..Len(t)}
  BY <1>1, LenProperties, ElementOfSeq DEF ToSet
<1>4. /\ \A n \in 1..Len(t) : table'[n] = IF t[n].inv = i THEN e ELSE t[n]
      /\ DOMAIN table' = 1..Len(t)
  BY <1>2
<1>5. table' \in Seq(OpenEntry) /\ Len(table') = Len(t)
  BY <1>2, <1>3
<1>6. OneEntryEach(table')
  BY <1>1, <1>4, <1>5 DEF OneEntryEach
<1>7. ToSet(table') = {table'[n] : n \in 1..Len(t)}
  BY <1>4 DEF ToSet
<1>8. \E n \in 1..Len(t) : t[n].inv = i
  <2>1. Own(i) \in ToSet(t) /\ Own(i).inv = i
    BY <1>1, OwnEntry
  <2>2. QED
    BY <1>3, <2>1
<1>9. \A x \in Rest(i) : x.inv # i /\ \E n \in 1..Len(t) : t[n] = x
  BY <1>1, <1>3 DEF Rest
<1>10. \A n \in 1..Len(t) : t[n].inv # i => t[n] \in Rest(i)
  BY <1>1, <1>3, OwnEntry
<1>11. ToSet(table') = {e} \cup Rest(i)
  BY <1>4, <1>7, <1>8, <1>9, <1>10
<1>12. QED
  BY <1>1, <1>5, <1>6, <1>11 DEF TableInv

\* after_agent_callback takes i's entry out.
LEMMA PopEffect ==
  ASSUME TableInv, NEW i \in Invocations, Known(i),
         table' = RemoveFirstMatch(table, LAMBDA e : e.inv = i)
  PROVE  TableInv' /\ ToSet(table') = ToSet(table) \ {Entry(i)}
<1>1. /\ Len(table) \in Nat /\ DOMAIN table = 1..Len(table)
      /\ \A n \in 1..Len(table) : table[n] \in OpenEntry
      /\ ToSet(table) = {table[n] : n \in 1..Len(table)}
  BY TableFacts
<1>2. PICK k \in 1..Len(table) : table[k].inv = i
  BY <1>1 DEF Known
<1>3. \A n \in 1..Len(table) : table[n].inv = i => n = k
  BY <1>2 DEF TableInv, OneEntryEach
<1>4. Entry(i) = table[k]
  BY <1>1, <1>2, EntryOf
<1>5. table' = RemoveAt(table, k)
  <2>1. {n \in 1..Len(table) : table[n].inv = i} = {k}
    BY <1>2, <1>3
  <2>2. k \in Nat
    BY <1>1
  <2>3. QED
    BY <1>2, <2>1, <2>2, MinOfOne DEF RemoveFirstMatch, SelectInSeq
<1>6. /\ table' \in Seq(OpenEntry) /\ Len(table') = Len(table) - 1
      /\ \A j \in 1..Len(table) - 1 : table'[j] = IF j < k THEN table[j] ELSE table[j + 1]
  BY <1>5, RemoveAtProperties DEF TableInv
<1>7. ToSet(table') = {table[n] : n \in (1..Len(table)) \ {k}}
  BY <1>5, RemoveAtSet DEF TableInv
<1>8. ToSet(table') = ToSet(table) \ {Entry(i)}
  BY <1>1, <1>2, <1>3, <1>4, <1>7
<1>9. OneEntryEach(table')
  <2>1. SUFFICES ASSUME NEW m \in 1..Len(table'), NEW n \in 1..Len(table'),
                        table'[m].inv = table'[n].inv
                 PROVE  m = n
    BY DEF OneEntryEach
  <2>2. /\ m \in 1..Len(table) /\ m + 1 \in 1..Len(table)
        /\ n \in 1..Len(table) /\ n + 1 \in 1..Len(table)
    BY <1>1, <1>6
  <2>3. (IF m < k THEN m ELSE m + 1) = (IF n < k THEN n ELSE n + 1)
    BY <1>1, <1>6, <2>1, <2>2 DEF TableInv, OneEntryEach
  <2>4. QED
    BY <1>1, <2>2, <2>3
<1>10. Len(table') <= MaxOpen
  BY <1>1, <1>6, TracingAssumption DEF TableInv
<1>11. QED
  BY <1>6, <1>8, <1>9, <1>10 DEF TableInv

----------------------------------------------------------------------------
(* The stacks of an entry *)

NoRepeat(s) == \A m, n \in 1..Len(s) : s[m] = s[n] => m = n

LEMMA AppendOnce ==
  ASSUME NEW S, NEW s \in Seq(S), NEW r \in S, NoRepeat(s), r \notin ToSet(s)
  PROVE  /\ Append(s, r) \in Seq(S) /\ ToSet(Append(s, r)) = ToSet(s) \cup {r}
         /\ NoRepeat(Append(s, r)) /\ Last(Append(s, r)) = r
<1> DEFINE t == Append(s, r)
<1>1. /\ t \in Seq(S) /\ Len(t) = Len(s) + 1 /\ t[Len(s) + 1] = r
      /\ \A n \in 1..Len(s) : t[n] = s[n]
  BY AppendProperties
<1>2. ToSet(t) = ToSet(s) \cup {r}
  BY AppendSet
<1> HIDE DEF t
<1>3. Len(s) \in Nat /\ \A n \in 1..Len(s) : s[n] \in ToSet(s)
  BY LenProperties DEF ToSet
<1>4. \A n \in 1..Len(t) : n \in 1..Len(s) \/ n = Len(s) + 1
  BY <1>1, <1>3
<1>5. NoRepeat(t)
  BY <1>1, <1>3, <1>4 DEF NoRepeat
<1>6. Last(t) = r
  BY <1>1 DEF Last
<1>7. QED
  BY <1>1, <1>2, <1>5, <1>6 DEF t

LEMMA FrontOnce ==
  ASSUME NEW S, NEW s \in Seq(S), s # <<>>, NoRepeat(s)
  PROVE  /\ Front(s) \in Seq(S) /\ ToSet(Front(s)) = ToSet(s) \ {Last(s)}
         /\ NoRepeat(Front(s)) /\ Last(s) \in ToSet(s)
<1>1. Len(s) \in Nat \ {0} /\ DOMAIN s = 1..Len(s) /\ \A n \in 1..Len(s) : s[n] \in S
  BY EmptySeq, LenProperties
<1> DEFINE t == SubSeq(s, 1, Len(s) - 1)
<1>2. t \in Seq(S) /\ Len(t) = Len(s) - 1 /\ \A n \in 1..Len(s) - 1 : t[n] = s[n]
  BY <1>1, SubSeqProperties
<1>3. Front(s) = t
  BY DEF Front
<1> HIDE DEF t
<1>4. DOMAIN t = 1..Len(s) - 1
  BY <1>2, LenProperties
<1>5. \A n \in 1..Len(s) : n \in 1..Len(s) - 1 \/ n = Len(s)
  <2>1. Len(s) \in Nat
    BY <1>1
  <2>2. QED
    BY <2>1
<1>6. /\ Len(s) \in 1..Len(s) /\ Len(s) \notin 1..Len(s) - 1
      /\ 1..Len(s) - 1 \subseteq 1..Len(s)
  BY <1>1
<1>7. Last(s) = s[Len(s)] /\ Last(s) \in ToSet(s)
  BY <1>1, <1>6 DEF Last, ToSet
<1>8. ToSet(t) = ToSet(s) \ {Last(s)}
  <2>1. ToSet(t) = {s[n] : n \in 1..Len(s) - 1}
    BY <1>2, <1>4 DEF ToSet
  <2>2. ToSet(s) = {s[n] : n \in 1..Len(s)}
    BY <1>1 DEF ToSet
  <2>3. \A n \in 1..Len(s) - 1 : s[n] # s[Len(s)]
    BY <1>6 DEF NoRepeat
  <2>4. QED
    BY <1>5, <1>6, <1>7, <2>1, <2>2, <2>3
<1>9. NoRepeat(t)
  BY <1>2, <1>6 DEF NoRepeat
<1>10. QED
  BY <1>2, <1>3, <1>7, <1>8, <1>9

----------------------------------------------------------------------------
(* The runs *)

Outcome == {"none", "open", "ended", "other", "twice"}

\* What an entry of the table is made of.
EntryInv(e) ==
  /\ \A r \in ToSet(e.models) : r.inv = e.inv /\ r.kind = "model"
  /\ \A r \in ToSet(e.tools) : r.inv = e.inv /\ r.kind = "tool"
  /\ NoRepeat(e.models) /\ NoRepeat(e.tools)

\* The runs of the entries are the open ones.
RunsInv ==
  /\ run \in [Run -> Outcome]
  /\ \A e \in ToSet(table) : EntryInv(e) /\ \A r \in RunsOf(e) : run[r] = "open"
  /\ NoRunLost

LEMMA RunFacts ==
  /\ \A i \in Invocations :
       AgentRun(i) \in Run /\ AgentRun(i).inv = i /\ AgentRun(i).kind = "agent"
  /\ \A i \in Invocations, n \in Models :
       /\ ModelRun(i, n) \in Run /\ ModelRun(i, n).inv = i
       /\ ModelRun(i, n).kind = "model" /\ ModelRun(i, n).n = n
  /\ \A i \in Invocations, k \in Tools :
       /\ ToolRun(i, k) \in Run /\ ToolRun(i, k).inv = i
       /\ ToolRun(i, k).kind = "tool" /\ ToolRun(i, k).n = k
  /\ \A r \in Run : r.inv \in Invocations
<1>1. /\ \A i : AgentRun(i).inv = i /\ AgentRun(i).kind = "agent"
      /\ \A i, n : /\ ModelRun(i, n).inv = i /\ ModelRun(i, n).kind = "model"
                   /\ ModelRun(i, n).n = n
      /\ \A i, k : /\ ToolRun(i, k).inv = i /\ ToolRun(i, k).kind = "tool"
                   /\ ToolRun(i, k).n = k
  BY DEF AgentRun, ModelRun, ToolRun
<1>2. /\ \A i \in Invocations : AgentRun(i) \in Run
      /\ \A i \in Invocations, n \in Models : ModelRun(i, n) \in Run
      /\ \A i \in Invocations, k \in Tools : ToolRun(i, k) \in Run
  BY DEF Run
<1>3. \A r \in Run : r.inv \in Invocations
  BY <1>1 DEF Run
<1>4. QED
  BY <1>1, <1>2, <1>3

\* An entry's runs are runs of its invocation.
LEMMA OwnRuns ==
  ASSUME NEW e \in OpenEntry, EntryInv(e)
  PROVE  /\ RunsOf(e) \subseteq Run /\ \A r \in RunsOf(e) : r.inv = e.inv
         /\ \A r \in RunsOf(e) : (r.kind = "agent" <=> r = AgentRun(e.inv))
         /\ \A r \in RunsOf(e) : (r.kind = "model" <=> r \in ToSet(e.models))
         /\ \A r \in RunsOf(e) : (r.kind = "tool" <=> r \in ToSet(e.tools))
<1>1. /\ e.inv \in Invocations /\ e.models \in Seq(Run) /\ e.tools \in Seq(Run)
  BY DEF OpenEntry
<1>2. ToSet(e.models) \subseteq Run /\ ToSet(e.tools) \subseteq Run
  BY <1>1, ElementOfSeq, LenProperties DEF ToSet
<1>3. AgentRun(e.inv) \in Run /\ AgentRun(e.inv).inv = e.inv /\ AgentRun(e.inv).kind = "agent"
  BY <1>1, RunFacts
<1>4. QED
  BY <1>2, <1>3 DEF RunsOf, EntryInv

\* The open runs of an invocation are those of its entry, if it has one.
LEMMA OpenRuns ==
  ASSUME TableInv, RunsInv, NEW i \in Invocations
  PROVE  /\ EntryInv(Own(i))
         /\ \A r \in Run : r.inv = i => (run[r] = "open" <=> r \in RunsOf(Own(i)))
<1>1. \A e \in ToSet(table) : \A r \in RunsOf(e) : r.inv = e.inv
  BY TableFacts, OwnRuns DEF RunsInv
<1>2. CASE Known(i)
  <2>1. /\ Own(i) = Entry(i) /\ Entry(i) \in ToSet(table)
        /\ \A x \in ToSet(table) : x.inv = i => x = Entry(i)
    BY <1>2, EntryOf DEF Own
  <2>2. QED
    BY <1>1, <2>1 DEF RunsInv, NoRunLost
<1>3. CASE ~Known(i)
  <2>1. /\ Own(i) = NewEntry(i) /\ \A x \in ToSet(table) : x.inv # i
    BY <1>3 DEF Own, Known
  <2>2. NewEntry(i).models = <<>> /\ NewEntry(i).tools = <<>> /\ NewEntry(i).agent = FALSE
    BY DEF NewEntry
  <2>3. ToSet(<<>>) = {} /\ NoRepeat(<<>>)
    BY DEF ToSet, NoRepeat
  <2>4. EntryInv(NewEntry(i)) /\ RunsOf(NewEntry(i)) = {}
    BY <2>2, <2>3 DEF EntryInv, RunsOf
  <2>5. QED
    BY <1>1, <2>1, <2>4 DEF RunsInv, NoRunLost
<1>4. QED
  BY <1>2, <1>3

LEMMA AbandonedRuns ==
  ASSUME TableInv, RunsInv, NEW i \in Invocations
  PROVE  /\ Evicted(i) \subseteq ToSet(table) /\ \A x \in Evicted(i) : x.inv # i
         /\ Abandoned(i) = UNION {RunsOf(x) : x \in Evicted(i)}
         /\ \A r \in Abandoned(i) : r \in Run /\ r.inv # i /\ run[r] = "open"
<1>1. Evicted(i) \subseteq ToSet(table)
  <2>1. CASE ~Known(i) /\ Len(table) = MaxOpen
    <3>1. Len(table) \in Nat \ {0}
      BY <2>1, TracingAssumption
    <3>2. 1 \in 1..Len(table) /\ Head(table) = table[1]
      BY <3>1, EmptySeq DEF TableInv
    <3>3. QED
      BY <2>1, <3>2, TableFacts DEF Evicted
  <2>2. QED
    BY <2>1 DEF Evicted
<1>2. \A x \in Evicted(i) : x.inv # i
  BY <1>1 DEF Evicted, Known
<1>3. Abandoned(i) = UNION {RunsOf(x) : x \in Evicted(i)}
  BY DEF Abandoned, Evicted
<1>4. \A x \in Evicted(i) : \A r \in RunsOf(x) : r \in Run /\ r.inv = x.inv /\ run[r] = "open"
  BY <1>1, TableFacts, OwnRuns DEF RunsInv
<1>5. QED
  BY <1>1, <1>2, <1>3, <1>4

\* The open runs stay those of the entries, if i's entry becomes e with the
\* open ones of i, and the runs of an evicted entry are ended.
LEMMA RunsMove ==
  ASSUME TableInv, RunsInv, NEW i \in Invocations, NEW e \in OpenEntry, e.inv = i, EntryInv(e),
         ToSet(table') = {e} \cup Rest(i), run' \in [Run -> Outcome],
         \A r \in Run : r.inv # i => run'[r] = IF r \in Abandoned(i) THEN "ended" ELSE run[r],
         \A r \in Run : r.inv = i => run'[r] # "twice" /\ (run'[r] = "open" <=> r \in RunsOf(e))
  PROVE  RunsInv'
<1>1. /\ Evicted(i) \subseteq ToSet(table) /\ \A x \in Evicted(i) : x.inv # i
      /\ Abandoned(i) = UNION {RunsOf(x) : x \in Evicted(i)}
  BY AbandonedRuns
<1>2. \A x \in ToSet(table) :
        /\ EntryInv(x) /\ RunsOf(x) \subseteq Run
        /\ \A r \in RunsOf(x) : r.inv = x.inv /\ run[r] = "open"
  BY TableFacts, OwnRuns DEF RunsInv
<1>3. \A x, y \in ToSet(table) : x.inv = y.inv => x = y
  BY TableFacts
<1>4. ASSUME NEW x \in Rest(i), NEW r \in RunsOf(x)
      PROVE  run'[r] = "open"
  <2>1. x \in ToSet(table) /\ x.inv # i /\ x \notin Evicted(i)
    BY DEF Rest
  <2>2. r \in Run /\ r.inv = x.inv /\ run[r] = "open"
    BY <1>2, <2>1
  <2>3. r \notin Abandoned(i)
    BY <1>1, <1>2, <1>3, <2>1, <2>2
  <2>4. QED
    BY <2>1, <2>2, <2>3
<1>5. \A x \in ToSet(table') : EntryInv(x) /\ \A r \in RunsOf(x) : run'[r] = "open"
  <2>1. \A r \in RunsOf(e) : r \in Run /\ r.inv = i
    BY OwnRuns
  <2>2. QED
    BY <1>2, <1>4, <2>1 DEF Rest
<1>6. ASSUME NEW r \in Run
      PROVE  /\ run'[r] # "twice"
             /\ run'[r] = "open" => \E x \in ToSet(table') : r \in RunsOf(x)
  <2>1. CASE r.inv = i
    BY <2>1
  <2>2. CASE r.inv # i
    <3>1. run[r] # "twice" /\ (run[r] = "open" => \E x \in ToSet(table) : r \in RunsOf(x))
      BY DEF RunsInv, NoRunLost
    <3>2. ASSUME run'[r] = "open"
          PROVE  \E x \in Rest(i) : r \in RunsOf(x)
      <4>1. r \notin Abandoned(i) /\ run[r] = "open"
        BY <2>2, <3>2
      <4>2. PICK x \in ToSet(table) : r \in RunsOf(x)
        BY <3>1, <4>1
      <4>3. x.inv # i /\ x \notin Evicted(i)
        BY <1>1, <1>2, <2>2, <4>1, <4>2
      <4>4. QED
        BY <4>2, <4>3 DEF Rest
    <3>3. QED
      BY <2>2, <3>1, <3>2
  <2>3. QED
    BY <2>1, <2>2
<1>7. QED
  BY <1>5, <1>6 DEF RunsInv, NoRunLost, EntryInv, RunsOf

\* i's entry when its stacks change.
LEMMA ModelsChange ==
  ASSUME NEW own \in OpenEntry, NEW m \in Seq(Run), NEW e, e = [own EXCEPT !.models = m]
  PROVE  /\ e \in OpenEntry /\ e.inv = own.inv /\ e.agent = own.agent
         /\ e.models = m /\ e.tools = own.tools
BY DEF OpenEntry

LEMMA ToolsChange ==
  ASSUME NEW own \in OpenEntry, NEW s \in Seq(Run), NEW e, e = [own EXCEPT !.tools = s]
  PROVE  /\ e \in OpenEntry /\ e.inv = own.inv /\ e.agent = own.agent
         /\ e.models = own.models /\ e.tools = s
BY DEF OpenEntry

\* i's entry with a run put on one of its stacks.
LEMMA Pushed ==
  ASSUME NEW own \in OpenEntry, EntryInv(own), NEW r \in Run, r \notin RunsOf(own),
         r.inv = own.inv, NEW e,
         \/ r = AgentRun(own.inv) /\ e = [own EXCEPT !.agent = TRUE]
         \/ r.kind = "model" /\ e = [own EXCEPT !.models = Append(@, r)]
         \/ r.kind = "tool" /\ e = [own EXCEPT !.tools = Append(@, r)]
  PROVE  /\ e \in OpenEntry /\ e.inv = own.inv /\ EntryInv(e)
         /\ RunsOf(e) = RunsOf(own) \cup {r}
<1>1. /\ own.models \in Seq(Run) /\ own.tools \in Seq(Run)
      /\ r \notin ToSet(own.models) /\ r \notin ToSet(own.tools)
  BY DEF OpenEntry, RunsOf
<1>2. CASE r = AgentRun(own.inv) /\ e = [own EXCEPT !.agent = TRUE]
  <2>1. /\ e \in OpenEntry /\ e.inv = own.inv /\ e.agent = TRUE
        /\ e.models = own.models /\ e.tools = own.tools
    BY <1>2 DEF OpenEntry
  <2>2. QED
    BY <1>2, <2>1 DEF EntryInv, RunsOf
<1>3. CASE r.kind = "model" /\ e = [own EXCEPT !.models = Append(@, r)]
  <2> DEFINE m == Append(own.models, r)
  <2>1. m \in Seq(Run) /\ ToSet(m) = ToSet(own.models) \cup {r} /\ NoRepeat(m)
    BY <1>1, AppendOnce DEF EntryInv
  <2>2. e = [own EXCEPT !.models = m]
    BY <1>3
  <2> HIDE DEF m
  <2>3. /\ e \in OpenEntry /\ e.inv = own.inv /\ e.agent = own.agent
        /\ e.models = m /\ e.tools = own.tools
    BY <2>1, <2>2, ModelsChange
  <2>4. EntryInv(e)
    BY <1>3, <2>1, <2>3 DEF EntryInv
  <2>5. RunsOf(e) = RunsOf(own) \cup {r}
    BY <2>1, <2>3 DEF RunsOf
  <2>6. QED
    BY <2>3, <2>4, <2>5
<1>4. CASE r.kind = "tool" /\ e = [own EXCEPT !.tools = Append(@, r)]
  <2> DEFINE m == Append(own.tools, r)
  <2>1. m \in Seq(Run) /\ ToSet(m) = ToSet(own.tools) \cup {r} /\ NoRepeat(m)
    BY <1>1, AppendOnce DEF EntryInv
  <2>2. e = [own EXCEPT !.tools = m]
    BY <1>4
  <2> HIDE DEF m
  <2>3. /\ e \in OpenEntry /\ e.inv = own.inv /\ e.agent = own.agent
        /\ e.models = own.models /\ e.tools = m
    BY <2>1, <2>2, ToolsChange
  <2>4. EntryInv(e)
    BY <1>4, <2>1, <2>3 DEF EntryInv
  <2>5. RunsOf(e) = RunsOf(own) \cup {r}
    BY <2>1, <2>3 DEF RunsOf
  <2>6. QED
    BY <2>3, <2>4, <2>5
<1>5. QED
  BY <1>2, <1>3, <1>4

\* i's entry with the top of one of its stacks taken off.
LEMMA Popped ==
  ASSUME NEW own \in OpenEntry, EntryInv(own), NEW r, NEW e,
         \/ own.models # <<>> /\ r = Last(own.models) /\ e = [own EXCEPT !.models = Front(@)]
         \/ own.tools # <<>> /\ r = Last(own.tools) /\ e = [own EXCEPT !.tools = Front(@)]
  PROVE  /\ e \in OpenEntry /\ e.inv = own.inv /\ EntryInv(e)
         /\ r \in RunsOf(own) /\ RunsOf(e) = RunsOf(own) \ {r}
<1>1. /\ own.models \in Seq(Run) /\ own.tools \in Seq(Run)
      /\ NoRepeat(own.models) /\ NoRepeat(own.tools)
  BY DEF OpenEntry, EntryInv
<1>2. /\ \A x \in ToSet(own.models) : x.kind = "model"
      /\ \A x \in ToSet(own.tools) : x.kind = "tool"
      /\ AgentRun(own.inv).kind = "agent"
  BY RunFacts DEF EntryInv, OpenEntry
<1>3. CASE own.models # <<>> /\ r = Last(own.models) /\ e = [own EXCEPT !.models = Front(@)]
  <2> DEFINE m == Front(own.models)
  <2>1. /\ m \in Seq(Run) /\ ToSet(m) = ToSet(own.models) \ {r} /\ NoRepeat(m)
        /\ r \in ToSet(own.models)
    BY <1>1, <1>3, FrontOnce
  <2>2. e = [own EXCEPT !.models = m]
    BY <1>3
  <2> HIDE DEF m
  <2>3. /\ e \in OpenEntry /\ e.inv = own.inv /\ e.agent = own.agent
        /\ e.models = m /\ e.tools = own.tools
    BY <2>1, <2>2, ModelsChange
  <2>4. EntryInv(e)
    BY <2>1, <2>3 DEF EntryInv
  <2>5. r \notin ToSet(own.tools) /\ r # AgentRun(own.inv)
    BY <1>2, <2>1
  <2>6. r \in RunsOf(own) /\ RunsOf(e) = RunsOf(own) \ {r}
    BY <2>1, <2>3, <2>5 DEF RunsOf
  <2>7. QED
    BY <2>3, <2>4, <2>6
<1>4. CASE own.tools # <<>> /\ r = Last(own.tools) /\ e = [own EXCEPT !.tools = Front(@)]
  <2> DEFINE m == Front(own.tools)
  <2>1. /\ m \in Seq(Run) /\ ToSet(m) = ToSet(own.tools) \ {r} /\ NoRepeat(m)
        /\ r \in ToSet(own.tools)
    BY <1>1, <1>4, FrontOnce
  <2>2. e = [own EXCEPT !.tools = m]
    BY <1>4
  <2> HIDE DEF m
  <2>3. /\ e \in OpenEntry /\ e.inv = own.inv /\ e.agent = own.agent
        /\ e.models = own.models /\ e.tools = m
    BY <2>1, <2>2, ToolsChange
  <2>4. EntryInv(e)
    BY <2>1, <2>3 DEF EntryInv
  <2>5. r \notin ToSet(own.models) /\ r # AgentRun(own.inv)
    BY <1>2, <2>1
  <2>6. r \in RunsOf(own) /\ RunsOf(e) = RunsOf(own) \ {r}
    BY <2>1, <2>3, <2>5 DEF RunsOf
  <2>7. QED
    BY <2>3, <2>4, <2>6
<1>5. QED
  BY <1>3, <1>4

\* What a callback of i does to the runs and to the entries of the others, if
\* it opens at most the runs P.
Callback(i, P) ==
  /\ TableInv' /\ RunsInv'
  /\ \A r \in Run \ P : run[r] = "none" => run'[r] = "none"
  /\ \A x \in ToSet(table') : x.inv # i => x \in ToSet(table)

LEMMA ClosedRuns ==
  ASSUME TableInv, RunsInv, NEW i \in Invocations, NEW closed,
         closed = [x \in Run |-> IF x \in Abandoned(i) THEN End(x, "ended") ELSE run[x]]
  PROVE  /\ closed \in [Run -> Outcome]
         /\ \A r \in Run : closed[r] = IF r \in Abandoned(i) THEN "ended" ELSE run[r]
         /\ \A r \in Run : r.inv = i => closed[r] = run[r]
         /\ \A r \in Run : run[r] = "none" => closed[r] = "none"
         /\ \A r \in Run : closed[r] = "other" => run[r] = "other"
<1>1. \A r \in Abandoned(i) : r \in Run /\ r.inv # i /\ run[r] = "open"
  BY AbandonedRuns
<1>2. run \in [Run -> Outcome] /\ "ended" \in Outcome
  BY DEF RunsInv, Outcome
<1>3. \A r \in Run : closed[r] = IF r \in Abandoned(i) THEN "ended" ELSE run[r]
  BY <1>1 DEF End
<1>4. closed \in [Run -> Outcome]
  <2>1. \A r \in Run : closed[r] \in Outcome
    BY <1>2, <1>3
  <2>2. QED
    BY <2>1
<1>5. QED
  BY <1>1, <1>3, <1>4

\* A run is posted and put on a stack.
LEMMA PostEffect ==
  ASSUME TableInv, RunsInv, NEW i \in Invocations, NEW r \in Run, r.inv = i, run[r] = "none",
         NEW e,
         \/ r = AgentRun(i) /\ e = [Own(i) EXCEPT !.agent = TRUE]
         \/ r.kind = "model" /\ e = [Own(i) EXCEPT !.models = Append(@, r)]
         \/ r.kind = "tool" /\ e = [Own(i) EXCEPT !.tools = Append(@, r)],
         Put(i, e), Post(i, r)
  PROVE  /\ Callback(i, {r}) /\ e \in OpenEntry /\ e.inv = i
         /\ ToSet(table') = {e} \cup Rest(i)
         /\ \A x \in Run : run'[x] = "other" => run[x] = "other"
<1>1. /\ Own(i) \in OpenEntry /\ Own(i).inv = i /\ EntryInv(Own(i))
      /\ \A x \in Run : x.inv = i => (run[x] = "open" <=> x \in RunsOf(Own(i)))
  BY OwnEntry, OpenRuns
<1>2. /\ e \in OpenEntry /\ e.inv = i /\ EntryInv(e)
      /\ RunsOf(e) = RunsOf(Own(i)) \cup {r}
  BY <1>1, Pushed
<1>3. TableInv' /\ ToSet(table') = {e} \cup Rest(i)
  BY <1>2, PutEffect
<1> DEFINE closed == [x \in Run |-> IF x \in Abandoned(i) THEN End(x, "ended") ELSE run[x]]
<1>4. /\ closed \in [Run -> Outcome]
      /\ \A x \in Run : closed[x] = IF x \in Abandoned(i) THEN "ended" ELSE run[x]
      /\ \A x \in Run : x.inv = i => closed[x] = run[x]
      /\ \A x \in Run : run[x] = "none" => closed[x] = "none"
      /\ \A x \in Run : closed[x] = "other" => run[x] = "other"
  BY ClosedRuns
<1>5. run' = [closed EXCEPT ![r] = "open"]
  BY DEF Post
<1> HIDE DEF closed
<1>6. /\ run' \in [Run -> Outcome] /\ run'[r] = "open"
      /\ \A x \in Run : x # r => run'[x] = closed[x]
  BY <1>4, <1>5 DEF Outcome
<1>7. RunsInv'
  <2>1. \A x \in Run : x.inv # i =>
          run'[x] = IF x \in Abandoned(i) THEN "ended" ELSE run[x]
    BY <1>4, <1>6
  <2>2. \A x \in Run : x.inv = i =>
          run'[x] # "twice" /\ (run'[x] = "open" <=> x \in RunsOf(e))
    BY <1>1, <1>2, <1>4, <1>6 DEF RunsInv, NoRunLost
  <2>3. QED
    BY <1>2, <1>3, <1>6, <2>1, <2>2, RunsMove
<1>8. QED
  BY <1>2, <1>3, <1>4, <1>6, <1>7 DEF Callback, Rest

\* A run cannot be posted, after the entry was looked up.
LEMMA PostFailsEffect ==
  ASSUME TableInv, RunsInv, NEW i \in Invocations, Put(i, Own(i)), PostFails(i)
  PROVE  /\ Callback(i, {}) /\ ToSet(table') = {Own(i)} \cup Rest(i)
         /\ \A x \in Run : run'[x] = "other" => run[x] = "other"
<1>1. /\ Own(i) \in OpenEntry /\ Own(i).inv = i /\ EntryInv(Own(i))
      /\ \A x \in Run : x.inv = i => (run[x] = "open" <=> x \in RunsOf(Own(i)))
  BY OwnEntry, OpenRuns
<1>2. TableInv' /\ ToSet(table') = {Own(i)} \cup Rest(i)
  BY <1>1, PutEffect
<1>3. /\ run' \in [Run -> Outcome]
      /\ \A x \in Run : run'[x] = IF x \in Abandoned(i) THEN "ended" ELSE run[x]
      /\ \A x \in Run : x.inv = i => run'[x] = run[x]
      /\ \A x \in Run : run[x] = "none" => run'[x] = "none"
      /\ \A x \in Run : run'[x] = "other" => run[x] = "other"
  BY ClosedRuns DEF PostFails
<1>4. RunsInv'
  BY <1>1, <1>2, <1>3, RunsMove DEF RunsInv, NoRunLost
<1>5. QED
  BY <1>2, <1>3, <1>4, <1>1 DEF Callback, Rest

\* r is on top of a stack of i's entry, which becomes e without it.
TakesTop(i, r, e) ==
  \/ /\ Entry(i).models # <<>> /\ r = Last(Entry(i).models)
     /\ e = [Own(i) EXCEPT !.models = Front(@)]
  \/ /\ Entry(i).tools # <<>> /\ r = Last(Entry(i).tools)
     /\ e = [Own(i) EXCEPT !.tools = Front(@)]

\* The run on top of a stack gets a result.
LEMMA OutputEffect ==
  ASSUME TableInv, RunsInv, NEW i \in Invocations, Known(i), NEW r, NEW own, NEW e,
         TakesTop(i, r, e), Put(i, e), Output(r, own)
  PROVE  /\ Callback(i, {}) /\ e \in OpenEntry /\ e.inv = i
         /\ ToSet(table') = {e} \cup Rest(i)
         /\ \A x \in Run : run'[x] = "other" =>
              run[x] = "other" \/ (x.inv = i /\ r # own)
<1>1. /\ Own(i) \in OpenEntry /\ Own(i).inv = i /\ EntryInv(Own(i)) /\ Own(i) = Entry(i)
      /\ \A x \in Run : x.inv = i => (run[x] = "open" <=> x \in RunsOf(Own(i)))
  BY OwnEntry, OpenRuns DEF Own
<1>2. /\ e \in OpenEntry /\ e.inv = i /\ EntryInv(e)
      /\ r \in RunsOf(Own(i)) /\ RunsOf(e) = RunsOf(Own(i)) \ {r}
  BY <1>1, Popped DEF TakesTop
<1>3. TableInv' /\ ToSet(table') = {e} \cup Rest(i)
  BY <1>2, PutEffect
<1>4. r \in Run /\ r.inv = i /\ run[r] = "open"
  BY <1>1, <1>2, OwnRuns
<1> DEFINE how == IF r = own THEN "ended" ELSE "other"
<1>5. run \in [Run -> Outcome] /\ run' = [run EXCEPT ![r] = how] /\ how \in Outcome
  BY <1>4 DEF Output, End, RunsInv, Outcome
<1>6. how \in {"ended", "other"} /\ (how = "other" => r # own)
  OBVIOUS
<1> HIDE DEF how
<1>7. /\ run' \in [Run -> Outcome] /\ run'[r] = how
      /\ \A x \in Run : x # r => run'[x] = run[x]
  BY <1>4, <1>5
<1>8. Abandoned(i) = {}
  BY DEF Abandoned
<1>9. RunsInv'
  <2>1. \A x \in Run : x.inv # i =>
          run'[x] = IF x \in Abandoned(i) THEN "ended" ELSE run[x]
    BY <1>4, <1>7, <1>8
  <2>2. \A x \in Run : x.inv = i =>
          run'[x] # "twice" /\ (run'[x] = "open" <=> x \in RunsOf(e))
    BY <1>1, <1>2, <1>6, <1>7 DEF RunsInv, NoRunLost
  <2>3. QED
    BY <1>2, <1>3, <1>7, <2>1, <2>2, RunsMove
<1>10. QED
  BY <1>2, <1>3, <1>4, <1>6, <1>7, <1>9 DEF Callback, Rest

\* The agent run ends with what is open above it.
LEMMA ClosingEffect ==
  ASSUME TableInv, RunsInv, NEW i \in Invocations, after_agent_callback(i)
  PROVE  /\ Callback(i, {}) /\ \A x \in ToSet(table') : x.inv # i
         /\ \A x \in Run : run'[x] = "other" => run[x] = "other"
<1>1. CASE Known(i)
  <2>1. /\ Entry(i) \in ToSet(table) /\ Entry(i).inv = i /\ Entry(i) \in OpenEntry
        /\ \A x \in ToSet(table) : x.inv = i => x = Entry(i)
    BY <1>1, EntryOf
  <2>2. /\ table' = RemoveFirstMatch(table, LAMBDA e : e.inv = i)
        /\ run' = [x \in Run |-> IF x \in RunsOf(Entry(i)) THEN End(x, "ended") ELSE run[x]]
    BY <1>1 DEF after_agent_callback
  <2>3. TableInv' /\ ToSet(table') = ToSet(table) \ {Entry(i)}
    BY <1>1, <2>2, PopEffect
  <2>4. \A r \in RunsOf(Entry(i)) : r \in Run /\ run[r] = "open" /\ r.inv = i
    BY <2>1, OwnRuns DEF RunsInv
  <2>5. /\ run \in [Run -> Outcome]
        /\ \A x \in Run : run'[x] = IF x \in RunsOf(Entry(i)) THEN "ended" ELSE run[x]
    BY <2>2, <2>4 DEF End, RunsInv
  <2>6. run' \in [Run -> Outcome]
    <3>1. \A x \in Run : run'[x] \in Outcome
      BY <2>5 DEF Outcome
    <3>2. QED
      BY <2>2, <3>1
  <2>7. RunsInv'
    <3>1. \A x \in ToSet(table') : \A r \in RunsOf(x) : r \in Run /\ run[r] = "open" /\ r.inv # i
      BY <2>1, <2>3, TableFacts, OwnRuns DEF RunsInv
    <3>2. \A x \in ToSet(table') : EntryInv(x) /\ \A r \in RunsOf(x) : run'[r] = "open"
      BY <2>3, <2>4, <2>5, <3>1 DEF RunsInv
    <3>3. \A r \in Run : /\ run'[r] # "twice"
                         /\ run'[r] = "open" => \E x \in ToSet(table') : r \in RunsOf(x)
      BY <2>3, <2>5 DEF RunsInv, NoRunLost
    <3>4. QED
      BY <2>6, <3>2, <3>3 DEF RunsInv, NoRunLost, EntryInv, RunsOf
  <2>8. QED
    BY <2>1, <2>3, <2>4, <2>5, <2>7 DEF Callback
<1>2. CASE ~Known(i)
  <2>1. UNCHANGED <<table, run>>
    BY <1>2 DEF after_agent_callback
  <2>2. QED
    BY <1>2, <2>1 DEF Callback, Known, TableInv, RunsInv, NoRunLost
<1>3. QED
  BY <1>1, <1>2

----------------------------------------------------------------------------
(* The invocations *)

InvStage == {"idle", "ready", "model", "tools", "answered", "finished", "raised"}
ToolStage == {"none", "called", "running", "done", "raised"}

StagesTyped ==
  /\ inv \in [Invocations -> InvStage]
  /\ asked \in [Invocations -> {0} \cup Models]
  /\ tool \in [Invocations -> [Tools -> ToolStage]]
  /\ unposted \subseteq Invocations /\ overlapped \subseteq Invocations

\* The runs that the callbacks of an invocation have yet to post.
Fresh(r) ==
  \/ r.kind = "agent" /\ inv[r.inv] = "idle"
  \/ r.kind = "model" /\ r.n > asked[r.inv]
  \/ /\ r.kind = "tool"
     /\ \/ tool[r.inv][r.n] = "called"
        \/ tool[r.inv][r.n] = "none" /\ inv[r.inv] # "raised"

FreshInv == \A r \in Run : Fresh(r) => run[r] = "none"

\* An invocation whose runs were all posted, one tool call at a time.
Orderly(i) == i \notin unposted \cup overlapped

\* What is on top of an entry's stack belongs to the call under way.
Tops(e) ==
  Orderly(e.inv) =>
    /\ inv[e.inv] = "model" /\ e.models # <<>> =>
         Last(e.models) = ModelRun(e.inv, asked[e.inv])
    /\ \A k \in Tools : tool[e.inv][k] = "running" /\ e.tools # <<>> =>
         Last(e.tools) = ToolRun(e.inv, k)

TopsInv == \A e \in ToSet(table) : Tops(e)

OneToolOf(i) ==
  i \notin overlapped =>
    \A k, l \in Tools : tool[i][k] = "running" /\ tool[i][l] = "running" => k = l

OneTool == \A i \in Invocations : OneToolOf(i)

TracingInv ==
  /\ StagesTyped /\ TableInv /\ RunsInv
  /\ FreshInv /\ TopsInv /\ OneTool /\ ResultsMatch

LEMMA TracingTyped == TracingInv => TracingTypeOK
<1> SUFFICES ASSUME TracingInv PROVE TracingTypeOK
  OBVIOUS
<1>1. \A e \in ToSet(table) : e.inv \in Invocations /\ RunsOf(e) \subseteq Run
  BY TableFacts, OwnRuns DEF TracingInv, RunsInv, OpenEntry
<1>2. \A m, n \in DOMAIN table : table[m].inv = table[n].inv => m = n
  BY TableFacts DEF TracingInv, TableInv, OneEntryEach
<1>3. QED
  BY <1>1, <1>2
     DEF TracingTypeOK, TracingInv, TableInv, RunsInv, Outcome, StagesTyped, InvStage, ToolStage

\* The numbers of the runs.
LEMMA RunNumbers ==
  /\ \A r \in Run : r.kind = "model" => r.n \in Models
  /\ \A r \in Run : r.kind = "tool" => r.n \in Tools
BY DEF Run, AgentRun, ModelRun, ToolRun

\* A step of i leaves the other invocations where they are.
Alone(i) ==
  /\ \A j \in Invocations : j # i =>
       /\ inv'[j] = inv[j] /\ asked'[j] = asked[j] /\ tool'[j] = tool[j]
       /\ j \in unposted' <=> j \in unposted
       /\ j \in overlapped' <=> j \in overlapped
  /\ unposted \subseteq unposted' /\ overlapped \subseteq overlapped'

\* What a step of i has to keep is what concerns i.
LEMMA TracingMoves ==
  ASSUME TracingInv, NEW i \in Invocations, NEW P, Callback(i, P), Alone(i), StagesTyped',
         \A r \in P : r.inv = i,
         \A r \in Run : r.inv = i /\ Fresh(r)' => Fresh(r) /\ r \notin P,
         \A x \in ToSet(table') : x.inv = i => Tops(x)',
         OneToolOf(i)',
         \A r \in Run : run'[r] = "other" => run[r] = "other" \/ (r.inv = i /\ ~Orderly(i)')
  PROVE  TracingInv'
<1>1. FreshInv'
  <2>1. ASSUME NEW r \in Run, Fresh(r)'
        PROVE  Fresh(r) /\ r \notin P
    <3>1. CASE r.inv = i
      BY <2>1, <3>1
    <3>2. CASE r.inv # i
      <4>1. r.inv \in Invocations
        BY RunFacts
      <4>2. /\ inv'[r.inv] = inv[r.inv] /\ asked'[r.inv] = asked[r.inv]
            /\ tool'[r.inv] = tool[r.inv]
        BY <3>2, <4>1 DEF Alone
      <4>3. QED
        BY <2>1, <3>2, <4>2 DEF Fresh
    <3>3. QED
      BY <3>1, <3>2
  <2>2. QED
    BY <2>1 DEF FreshInv, TracingInv, Callback
<1>2. TopsInv'
  <2>1. ASSUME NEW x \in ToSet(table'), x.inv # i
        PROVE  Tops(x)'
    <3>1. x \in ToSet(table) /\ x.inv \in Invocations
      BY <2>1, TableFacts DEF Callback, TracingInv, OpenEntry
    <3>2. Tops(x)
      BY <3>1 DEF TracingInv, TopsInv
    <3>3. /\ inv'[x.inv] = inv[x.inv] /\ asked'[x.inv] = asked[x.inv]
          /\ tool'[x.inv] = tool[x.inv]
          /\ x.inv \in unposted' <=> x.inv \in unposted
          /\ x.inv \in overlapped' <=> x.inv \in overlapped
      BY <2>1, <3>1 DEF Alone
    <3>4. QED
      BY <3>2, <3>3 DEF Tops, Orderly
  <2>2. QED
    BY <2>1 DEF TopsInv
<1>3. OneTool'
  BY DEF OneTool, OneToolOf, TracingInv, Alone
<1>4. ResultsMatch'
  BY DEF ResultsMatch, TracingInv, Alone, Orderly
<1>5. QED
  BY <1>1, <1>2, <1>3, <1>4 DEF TracingInv, Callback

LEMMA NoCallback ==
  ASSUME TableInv, RunsInv, NEW i \in Invocations, UNCHANGED <<table, run>>
  PROVE  Callback(i, {}) /\ \A r \in Run : run'[r] = "other" => run[r] = "other"
BY DEF Callback, TableInv, RunsInv, NoRunLost

\* What i's entry knows of the call under way.
LEMMA OwnTops ==
  ASSUME TracingInv, NEW i \in Invocations
  PROVE  Tops(Own(i)) /\ Own(i).inv = i /\ Own(i) \in OpenEntry /\ OneToolOf(i)
<1>1. Own(i).inv = i /\ Own(i) \in OpenEntry
  BY OwnEntry DEF TracingInv
<1>2. Tops(Own(i))
  <2>1. CASE Known(i)
    BY <2>1, EntryOf DEF Own, TracingInv, TopsInv
  <2>2. CASE ~Known(i)
    BY <2>2 DEF Own, NewEntry, Tops
  <2>3. QED
    BY <2>1, <2>2
<1>3. QED
  BY <1>1, <1>2 DEF TracingInv, OneTool

\* i's entry keeps it if its stacks stay, and no call of i comes under way.
LEMMA TopsStay ==
  ASSUME TracingInv, NEW i \in Invocations, Alone(i), NEW x, x.inv = i,
         x.models = Own(i).models, x.tools = Own(i).tools,
         inv'[i] = "model" => inv[i] = "model" /\ asked'[i] = asked[i],
         \A k \in Tools : tool'[i][k] = "running" => tool[i][k] = "running"
  PROVE  Tops(x)' /\ OneToolOf(i)'
<1>1. Tops(Own(i)) /\ Own(i).inv = i /\ OneToolOf(i)
  BY OwnTops
<1>2. Orderly(i)' => Orderly(i)
  BY DEF Orderly, Alone
<1>3. Tops(x)'
  BY <1>1, <1>2 DEF Tops
<1>4. OneToolOf(i)'
  BY <1>1 DEF OneToolOf, Alone
<1>5. QED
  BY <1>3, <1>4

LEMMA LastAppend ==
  ASSUME NEW s \in Seq(Run), NEW r \in Run
  PROVE  Append(s, r) \in Seq(Run) /\ Last(Append(s, r)) = r
<1>1. /\ Append(s, r) \in Seq(Run) /\ Len(Append(s, r)) = Len(s) + 1
      /\ Append(s, r)[Len(s) + 1] = r
  BY AppendProperties
<1>2. QED
  BY <1>1 DEF Last

LEMMA StartInvocationStep ==
  ASSUME TracingInv, NEW i \in Invocations, StartInvocation(i)
  PROVE  TracingInv'
<1>1. /\ inv[i] = "idle" /\ inv' = [inv EXCEPT ![i] = "ready"]
      /\ UNCHANGED <<asked, tool, overlapped>>
  BY DEF StartInvocation
<1>2. TableInv /\ RunsInv /\ StagesTyped
  BY DEF TracingInv
<1>3. inv' \in [Invocations -> InvStage] /\ inv'[i] = "ready"
  BY <1>1, <1>2 DEF StagesTyped, InvStage
<1>4. /\ AgentRun(i) \in Run /\ AgentRun(i).inv = i /\ AgentRun(i).kind = "agent"
      /\ run[AgentRun(i)] = "none"
  BY <1>1, RunFacts DEF TracingInv, FreshInv, Fresh
<1>5. \A r \in Run : r.inv = i /\ Fresh(r)' => Fresh(r) /\ r # AgentRun(i)
  BY <1>1, <1>3, <1>4 DEF Fresh
<1>6. CASE /\ Put(i, [Own(i) EXCEPT !.agent = TRUE])
           /\ Post(i, AgentRun(i))
  <2>1. PICK e : e = [Own(i) EXCEPT !.agent = TRUE]
    OBVIOUS
  <2>2. Put(i, e) /\ Post(i, AgentRun(i)) /\ e.models = Own(i).models /\ e.tools = Own(i).tools
    BY <1>6, <2>1, OwnTops DEF OpenEntry
  <2>3. /\ Callback(i, {AgentRun(i)}) /\ e \in OpenEntry /\ e.inv = i
        /\ ToSet(table') = {e} \cup Rest(i)
        /\ \A x \in Run : run'[x] = "other" => run[x] = "other"
    BY <1>2, <1>4, <2>1, <2>2, PostEffect
  <2>4. Alone(i) /\ unposted' = unposted
    BY <1>1, <1>2, <1>6 DEF Alone, Post, StagesTyped
  <2>5. Tops(e)' /\ OneToolOf(i)'
    BY <1>1, <1>3, <2>2, <2>3, <2>4, TopsStay
  <2>6. \A x \in ToSet(table') : x.inv = i => Tops(x)'
    BY <2>3, <2>5 DEF Rest
  <2>7. StagesTyped'
    BY <1>1, <1>2, <1>3, <2>4 DEF StagesTyped
  <2>8. QED
    BY <1>4, <1>5, <2>3, <2>4, <2>5, <2>6, <2>7, TracingMoves
<1>7. CASE unposted' = unposted \cup {i} /\ UNCHANGED <<table, run>>
  <2>1. Callback(i, {}) /\ \A r \in Run : run'[r] = "other" => run[r] = "other"
    BY <1>2, <1>7, NoCallback
  <2>2. Alone(i) /\ ~Orderly(i)'
    BY <1>1, <1>2, <1>7 DEF Alone, Orderly, StagesTyped
  <2>3. /\ \A x \in ToSet(table') : x.inv = i => Tops(x)'
        /\ OneToolOf(i)'
    BY <1>1, <2>2, OwnTops DEF Tops, OneToolOf
  <2>4. StagesTyped'
    BY <1>1, <1>2, <1>3, <1>7 DEF StagesTyped
  <2>5. QED
    BY <1>5, <2>1, <2>2, <2>3, <2>4, TracingMoves
<1>8. QED
  BY <1>6, <1>7 DEF StartInvocation, before_agent_callback

LEMMA CallModelStep ==
  ASSUME TracingInv, NEW i \in Invocations, CallModel(i)
  PROVE  TracingInv'
<1>0. PICK n, r : n = asked[i] + 1 /\ r = ModelRun(i, n)
  OBVIOUS
<1>1. /\ inv[i] = "ready" /\ n \in Models
      /\ inv' = [inv EXCEPT ![i] = "model"] /\ asked' = [asked EXCEPT ![i] = @ + 1]
      /\ UNCHANGED <<tool, overlapped>>
  BY <1>0 DEF CallModel
<1>2. TableInv /\ RunsInv /\ StagesTyped
  BY DEF TracingInv
<1>3. asked[i] \in Nat /\ n \in Nat /\ n > asked[i]
  <2>1. asked[i] \in {0} \cup Models
    BY <1>2 DEF StagesTyped
  <2>2. asked[i] \in Nat
    <3>1. \A m \in Models : m \in Nat
      BY TracingAssumption
    <3>2. asked[i] = 0 \/ asked[i] \in Models
      BY <2>1
    <3>3. QED
      BY <3>1, <3>2
  <2>3. QED
    BY <1>0, <2>2
<1>4. /\ inv' \in [Invocations -> InvStage] /\ inv'[i] = "model"
      /\ asked' \in [Invocations -> {0} \cup Models] /\ asked'[i] = n
      /\ \A j \in Invocations : j # i => inv'[j] = inv[j] /\ asked'[j] = asked[j]
  BY <1>0, <1>1, <1>2 DEF StagesTyped, InvStage
<1>5. r \in Run /\ r.inv = i /\ r.kind = "model" /\ r.n = n
  BY <1>0, <1>1, RunFacts
<1>6. run[r] = "none"
  BY <1>3, <1>5 DEF TracingInv, FreshInv, Fresh
<1>7. \A x \in Run : x.inv = i /\ Fresh(x)' => Fresh(x) /\ x # r
  <2>1. SUFFICES ASSUME NEW x \in Run, x.inv = i, Fresh(x)'
                 PROVE  Fresh(x) /\ x # r
    OBVIOUS
  <2>2. x.kind = "model" => x.n \in Nat
    BY RunNumbers, TracingAssumption
  <2>3. x.kind = "model" => x.n > asked[i] /\ x.n # n
    <3>1. x.kind = "model" => x.n > n
      BY <1>4, <2>1 DEF Fresh
    <3>2. QED
      BY <1>3, <2>2, <3>1
  <2>4. x.kind = "agent" \/ x.kind = "tool" => Fresh(x)
    BY <1>1, <1>4, <2>1 DEF Fresh
  <2>5. QED
    BY <1>5, <2>1, <2>3, <2>4 DEF Fresh
<1>8. CASE /\ Put(i, [Own(i) EXCEPT !.models = Append(@, r)])
           /\ Post(i, r)
  <2>0. PICK e : e = [Own(i) EXCEPT !.models = Append(@, r)]
    OBVIOUS
  <2>1. /\ Own(i).models \in Seq(Run) /\ Tops(Own(i)) /\ Own(i).inv = i
        /\ Own(i) \in OpenEntry /\ OneToolOf(i)
    BY OwnTops DEF OpenEntry
  <2>2. Append(Own(i).models, r) \in Seq(Run) /\ Last(Append(Own(i).models, r)) = r
    BY <1>5, <2>1, LastAppend
  <2>3. Last(e.models) = r /\ e.tools = Own(i).tools
    BY <2>0, <2>1, <2>2, ModelsChange
  <2>4. Put(i, e) /\ Post(i, r)
    BY <1>8, <2>0
  <2>5. /\ Callback(i, {r}) /\ e \in OpenEntry /\ e.inv = i
        /\ ToSet(table') = {e} \cup Rest(i)
        /\ \A x \in Run : run'[x] = "other" => run[x] = "other"
    BY <1>2, <1>5, <1>6, <2>0, <2>4, PostEffect
  <2>6. Alone(i) /\ UNCHANGED <<unposted, tool, overlapped>>
    BY <1>1, <1>4, <1>8 DEF Alone, Post
  <2>7. Tops(e)' /\ OneToolOf(i)'
    <3>1. r = ModelRun(i, asked'[i])
      BY <1>0, <1>4
    <3>2. Orderly(i)' => Orderly(i)
      BY <2>6 DEF Orderly
    <3>3. QED
      BY <2>1, <2>3, <2>5, <2>6, <3>1, <3>2 DEF Tops, OneToolOf
  <2>8. \A x \in ToSet(table') : x.inv = i => Tops(x)'
    BY <2>5, <2>7 DEF Rest
  <2>9. StagesTyped'
    BY <1>2, <1>4, <2>6 DEF StagesTyped
  <2>10. QED
    BY <1>5, <1>7, <2>5, <2>6, <2>7, <2>8, <2>9, TracingMoves
<1>9. CASE Put(i, Own(i)) /\ PostFails(i)
  <2>1. Callback(i, {}) /\ \A x \in Run : run'[x] = "other" => run[x] = "other"
    BY <1>2, <1>9, PostFailsEffect
  <2>2. unposted' = unposted \cup {i}
    BY <1>9 DEF PostFails
  <2>3. Alone(i) /\ ~Orderly(i)'
    BY <1>1, <1>4, <2>2 DEF Alone, Orderly
  <2>4. /\ \A x \in ToSet(table') : x.inv = i => Tops(x)'
        /\ OneToolOf(i)'
    BY <1>1, <2>3, OwnTops DEF Tops, OneToolOf
  <2>5. StagesTyped'
    BY <1>1, <1>2, <1>4, <2>2 DEF StagesTyped
  <2>6. QED
    BY <1>7, <2>1, <2>3, <2>4, <2>5, TracingMoves
<1>10. QED
  BY <1>0, <1>8, <1>9 DEF CallModel, before_model_callback

\* The model's calls of tools are new ones.
LEMMA ModelAnswersStep ==
  ASSUME TracingInv, NEW i \in Invocations, ModelAnswers(i)
  PROVE  TracingInv'
<1>1. inv[i] = "model" /\ UNCHANGED <<asked, unposted, overlapped>>
  BY DEF ModelAnswers
<1>2. TableInv /\ RunsInv /\ StagesTyped
  BY DEF TracingInv
<1>3. /\ inv' \in [Invocations -> InvStage] /\ inv'[i] \in {"answered", "tools"}
      /\ \A j \in Invocations : j # i => inv'[j] = inv[j]
  BY <1>2 DEF ModelAnswers, StagesTyped, InvStage
<1>4. /\ tool' \in [Invocations -> [Tools -> ToolStage]]
      /\ \A j \in Invocations : j # i => tool'[j] = tool[j]
      /\ \A k \in Tools : tool'[i][k] = tool[i][k]
                          \/ (tool[i][k] = "none" /\ tool'[i][k] = "called")
  <2>1. tool \in [Invocations -> [Tools -> ToolStage]]
    BY <1>2 DEF StagesTyped
  <2>2. CASE UNCHANGED tool
    BY <2>1, <2>2
  <2>3. ASSUME NEW S \in SUBSET {k \in Tools : tool[i][k] = "none"},
               tool' = [tool EXCEPT ![i] = [k \in Tools |-> IF k \in S THEN "called" ELSE @[k]]]
        PROVE  <1>4!:
    <3>1. PICK new : new = [k \in Tools |-> IF k \in S THEN "called" ELSE tool[i][k]]
      OBVIOUS
    <3>2. /\ new \in [Tools -> ToolStage]
          /\ \A k \in Tools : new[k] = tool[i][k] \/ (tool[i][k] = "none" /\ new[k] = "called")
      BY <2>1, <3>1 DEF ToolStage
    <3>3. tool' = [tool EXCEPT ![i] = new]
      BY <2>3, <3>1
    <3>4. QED
      BY <2>1, <3>2, <3>3
  <2>4. QED
    BY <2>2, <2>3 DEF ModelAnswers
<1>5. Alone(i) /\ StagesTyped'
  BY <1>1, <1>2, <1>3, <1>4 DEF Alone, StagesTyped
<1>6. \A x \in Run : x.inv = i /\ Fresh(x)' => Fresh(x) /\ x \notin {}
  <2>1. SUFFICES ASSUME NEW x \in Run, x.inv = i, Fresh(x)'
                 PROVE  Fresh(x)
    OBVIOUS
  <2>2. x.kind = "tool" => x.n \in Tools
    BY RunNumbers
  <2>3. QED
    BY <1>1, <1>3, <1>4, <2>1, <2>2 DEF Fresh
<1>7. CASE Known(i) /\ Entry(i).models # <<>>
  <2>1. PICK r, own, e : /\ r = Last(Entry(i).models) /\ own = ModelRun(i, asked[i])
                         /\ e = [Own(i) EXCEPT !.models = Front(@)]
    OBVIOUS
  <2>2. TakesTop(i, r, e) /\ Put(i, e) /\ Output(r, own)
    BY <1>7, <2>1 DEF ModelAnswers, after_model_callback, TakesTop
  <2>3. /\ Callback(i, {}) /\ e \in OpenEntry /\ e.inv = i
        /\ ToSet(table') = {e} \cup Rest(i)
        /\ \A x \in Run : run'[x] = "other" => run[x] = "other" \/ (x.inv = i /\ r # own)
    BY <1>2, <1>7, <2>2, OutputEffect
  <2>4. /\ Own(i) = Entry(i) /\ Tops(Own(i)) /\ OneToolOf(i)
        /\ Own(i).inv = i /\ Own(i) \in OpenEntry
    BY <1>7, OwnTops DEF Own
  <2>5. Orderly(i) => r = own
    BY <1>1, <1>7, <2>1, <2>4 DEF Tops
  <2>6. Orderly(i)' <=> Orderly(i)
    BY <1>1 DEF Orderly
  <2>7. e.tools = Own(i).tools
    BY <2>1, <2>4 DEF OpenEntry
  <2>8. \A x \in ToSet(table') : x.inv = i => x = e
    BY <2>3 DEF Rest
  <2>9. Tops(e)' /\ OneToolOf(i)'
    BY <1>1, <1>3, <1>4, <2>3, <2>4, <2>6, <2>7 DEF Tops, OneToolOf
  <2>10. QED
    BY <1>5, <1>6, <2>3, <2>5, <2>6, <2>8, <2>9, TracingMoves
<1>8. CASE ~(Known(i) /\ Entry(i).models # <<>>)
  <2>1. UNCHANGED <<table, run>>
    BY <1>8 DEF ModelAnswers, after_model_callback
  <2>2. Callback(i, {}) /\ \A r \in Run : run'[r] = "other" => run[r] = "other"
    BY <1>2, <2>1, NoCallback
  <2>3. OneToolOf(i)'
    BY <1>1, <1>4, OwnTops DEF OneToolOf
  <2>4. \A x \in ToSet(table') : x.inv = i => Tops(x)'
    <3>1. \A x \in ToSet(table) : Tops(x)
      BY DEF TracingInv, TopsInv
    <3>2. Orderly(i)' <=> Orderly(i)
      BY <1>1 DEF Orderly
    <3>3. QED
      BY <1>1, <1>3, <1>4, <2>1, <3>1, <3>2 DEF Tops
  <2>5. QED
    BY <1>5, <1>6, <2>2, <2>3, <2>4, TracingMoves
<1>9. QED
  BY <1>7, <1>8

\* Where a tool call of i goes.
LEMMA ToolMoves ==
  ASSUME StagesTyped, NEW i \in Invocations, NEW k \in Tools, NEW to \in ToolStage,
         tool' = [tool EXCEPT ![i][k] = to]
  PROVE  /\ tool' \in [Invocations -> [Tools -> ToolStage]] /\ tool'[i][k] = to
         /\ \A l \in Tools : l # k => tool'[i][l] = tool[i][l]
         /\ \A j \in Invocations : j # i => tool'[j] = tool[j]
<1>1. tool \in [Invocations -> [Tools -> ToolStage]]
  BY DEF StagesTyped
<1>2. PICK new : new = [tool[i] EXCEPT ![k] = to]
  OBVIOUS
<1>3. /\ new \in [Tools -> ToolStage] /\ new[k] = to
      /\ \A l \in Tools : l # k => new[l] = tool[i][l]
  BY <1>1, <1>2
<1>4. tool' = [tool EXCEPT ![i] = new]
  BY <1>2
<1>5. QED
  BY <1>1, <1>3, <1>4

LEMMA StartToolStep ==
  ASSUME TracingInv, NEW i \in Invocations, NEW k \in Tools, StartTool(i, k)
  PROVE  TracingInv'
<1>0. PICK r : r = ToolRun(i, k)
  OBVIOUS
<1>1. /\ tool[i][k] = "called" /\ tool' = [tool EXCEPT ![i][k] = "running"]
      /\ UNCHANGED <<inv, asked>>
  BY DEF StartTool
<1>2. TableInv /\ RunsInv /\ StagesTyped
  BY DEF TracingInv
<1>3. /\ tool' \in [Invocations -> [Tools -> ToolStage]] /\ tool'[i][k] = "running"
      /\ \A l \in Tools : l # k => tool'[i][l] = tool[i][l]
      /\ \A j \in Invocations : j # i => tool'[j] = tool[j]
  BY <1>1, <1>2, ToolMoves DEF ToolStage
<1>4. r \in Run /\ r.inv = i /\ r.kind = "tool" /\ r.n = k /\ run[r] = "none"
  <2>1. r \in Run /\ r.inv = i /\ r.kind = "tool" /\ r.n = k
    BY <1>0, RunFacts
  <2>2. QED
    BY <1>1, <2>1 DEF TracingInv, FreshInv, Fresh
<1>5. \A x \in Run : x.inv = i /\ Fresh(x)' => Fresh(x) /\ x # r
  <2>1. SUFFICES ASSUME NEW x \in Run, x.inv = i, Fresh(x)'
                 PROVE  Fresh(x) /\ x # r
    OBVIOUS
  <2>2. x.kind = "tool" => x.n \in Tools /\ x.n # k
    BY <1>3, <2>1, RunNumbers DEF Fresh
  <2>3. QED
    BY <1>1, <1>3, <1>4, <2>1, <2>2 DEF Fresh
<1>6. /\ overlapped' \in {overlapped, overlapped \cup {i}}
      /\ i \notin overlapped' => \A l \in Tools : tool[i][l] # "running"
  BY DEF StartTool
<1>7. OneToolOf(i)'
  BY <1>3, <1>6 DEF OneToolOf
<1>8. CASE /\ Put(i, [Own(i) EXCEPT !.tools = Append(@, r)])
           /\ Post(i, r)
  <2>0. PICK e : e = [Own(i) EXCEPT !.tools = Append(@, r)]
    OBVIOUS
  <2>1. /\ Own(i).tools \in Seq(Run) /\ Tops(Own(i)) /\ Own(i).inv = i
        /\ Own(i) \in OpenEntry
    BY OwnTops DEF OpenEntry
  <2>2. Append(Own(i).tools, r) \in Seq(Run) /\ Last(Append(Own(i).tools, r)) = r
    BY <1>4, <2>1, LastAppend
  <2>3. Last(e.tools) = r /\ e.models = Own(i).models
    BY <2>0, <2>1, <2>2, ToolsChange
  <2>4. Put(i, e) /\ Post(i, r)
    BY <1>8, <2>0
  <2>5. /\ Callback(i, {r}) /\ e \in OpenEntry /\ e.inv = i
        /\ ToSet(table') = {e} \cup Rest(i)
        /\ \A x \in Run : run'[x] = "other" => run[x] = "other"
    BY <1>2, <1>4, <2>0, <2>4, PostEffect
  <2>6. unposted' = unposted
    BY <1>8 DEF Post
  <2>7. Alone(i) /\ StagesTyped'
    BY <1>1, <1>2, <1>3, <1>6, <2>6 DEF Alone, StagesTyped
  <2>8. Tops(e)'
    <3>1. /\ Orderly(i)' => Orderly(i)
          /\ Orderly(i)' => \A l \in Tools : tool'[i][l] = "running" => l = k
      BY <1>3, <1>6, <2>6 DEF Orderly
    <3>2. QED
      BY <1>0, <1>1, <2>1, <2>3, <2>5, <3>1 DEF Tops
  <2>9. \A x \in ToSet(table') : x.inv = i => Tops(x)'
    BY <2>5, <2>8 DEF Rest
  <2>10. QED
    BY <1>4, <1>5, <1>7, <2>5, <2>7, <2>9, TracingMoves
<1>9. CASE Put(i, Own(i)) /\ PostFails(i)
  <2>1. Callback(i, {}) /\ \A x \in Run : run'[x] = "other" => run[x] = "other"
    BY <1>2, <1>9, PostFailsEffect
  <2>2. unposted' = unposted \cup {i}
    BY <1>9 DEF PostFails
  <2>3. Alone(i) /\ ~Orderly(i)' /\ StagesTyped'
    BY <1>1, <1>2, <1>3, <1>6, <2>2 DEF Alone, Orderly, StagesTyped
  <2>4. \A x \in ToSet(table') : x.inv = i => Tops(x)'
    BY <2>3 DEF Tops
  <2>5. QED
    BY <1>5, <1>7, <2>1, <2>3, <2>4, TracingMoves
<1>10. QED
  BY <1>0, <1>8, <1>9 DEF StartTool, before_tool_callback

LEMMA ToolReturnsStep ==
  ASSUME TracingInv, NEW i \in Invocations, NEW k \in Tools, ToolReturns(i, k)
  PROVE  TracingInv'
<1>1. /\ tool[i][k] = "running" /\ tool' = [tool EXCEPT ![i][k] = "done"]
      /\ UNCHANGED <<inv, asked, unposted, overlapped>>
  BY DEF ToolReturns
<1>2. TableInv /\ RunsInv /\ StagesTyped
  BY DEF TracingInv
<1>3. /\ tool' \in [Invocations -> [Tools -> ToolStage]] /\ tool'[i][k] = "done"
      /\ \A l \in Tools : l # k => tool'[i][l] = tool[i][l]
      /\ \A j \in Invocations : j # i => tool'[j] = tool[j]
  BY <1>1, <1>2, ToolMoves DEF ToolStage
<1>4. Alone(i) /\ StagesTyped'
  BY <1>1, <1>2, <1>3 DEF Alone, StagesTyped
<1>5. \A x \in Run : x.inv = i /\ Fresh(x)' => Fresh(x) /\ x \notin {}
  <2>1. SUFFICES ASSUME NEW x \in Run, x.inv = i, Fresh(x)'
                 PROVE  Fresh(x)
    OBVIOUS
  <2>2. x.kind = "tool" => x.n \in Tools /\ x.n # k
    BY <1>3, <2>1, RunNumbers DEF Fresh
  <2>3. QED
    BY <1>1, <1>3, <2>1, <2>2 DEF Fresh
<1>6. Orderly(i)' <=> Orderly(i)
  BY <1>1 DEF Orderly
<1>7. OneToolOf(i)' /\ (Orderly(i)' => \A l \in Tools : tool'[i][l] # "running")
  <2>1. OneToolOf(i)
    BY OwnTops
  <2>2. QED
    BY <1>1, <1>3, <2>1 DEF OneToolOf, Orderly
<1>8. CASE Known(i) /\ Entry(i).tools # <<>>
  <2>1. PICK r, own, e : /\ r = Last(Entry(i).tools) /\ own = ToolRun(i, k)
                         /\ e = [Own(i) EXCEPT !.tools = Front(@)]
    OBVIOUS
  <2>2. TakesTop(i, r, e) /\ Put(i, e) /\ Output(r, own)
    BY <1>8, <2>1 DEF ToolReturns, after_tool_callback, TakesTop
  <2>3. /\ Callback(i, {}) /\ e \in OpenEntry /\ e.inv = i
        /\ ToSet(table') = {e} \cup Rest(i)
        /\ \A x \in Run : run'[x] = "other" => run[x] = "other" \/ (x.inv = i /\ r # own)
    BY <1>2, <1>8, <2>2, OutputEffect
  <2>4. /\ Own(i) = Entry(i) /\ Tops(Own(i)) /\ Own(i).inv = i /\ Own(i) \in OpenEntry
    BY <1>8, OwnTops DEF Own
  <2>5. Orderly(i) => r = own
    BY <1>1, <1>8, <2>1, <2>4 DEF Tops
  <2>6. e.models = Own(i).models
    BY <2>1, <2>4 DEF OpenEntry
  <2>7. Tops(e)'
    BY <1>1, <1>6, <1>7, <2>3, <2>4, <2>6 DEF Tops
  <2>8. \A x \in ToSet(table') : x.inv = i => x = e
    BY <2>3 DEF Rest
  <2>9. QED
    BY <1>4, <1>5, <1>6, <1>7, <2>3, <2>5, <2>7, <2>8, TracingMoves
<1>9. CASE ~(Known(i) /\ Entry(i).tools # <<>>)
  <2>1. UNCHANGED <<table, run>>
    BY <1>9 DEF ToolReturns, after_tool_callback
  <2>2. Callback(i, {}) /\ \A r \in Run : run'[r] = "other" => run[r] = "other"
    BY <1>2, <2>1, NoCallback
  <2>3. \A x \in ToSet(table') : x.inv = i => Tops(x)'
    <3>1. \A x \in ToSet(table) : Tops(x)
      BY DEF TracingInv, TopsInv
    <3>2. QED
      BY <1>1, <1>6, <1>7, <2>1, <3>1 DEF Tops
  <2>4. QED
    BY <1>4, <1>5, <1>7, <2>2, <2>3, TracingMoves
<1>10. QED
  BY <1>8, <1>9

\* The steps of the framework that no callback sees, and the end.
LEMMA FrameworkStep ==
  ASSUME TracingInv, NEW i \in Invocations,
         ToolsReturned(i) \/ InvocationRaises(i) \/ FinishInvocation(i)
  PROVE  TracingInv'
<1>1. /\ TableInv /\ RunsInv /\ StagesTyped
      /\ tool \in [Invocations -> [Tools -> ToolStage]]
  BY DEF TracingInv, StagesTyped
<1>2. UNCHANGED <<asked, unposted, overlapped>>
  BY DEF ToolsReturned, InvocationRaises, FinishInvocation
<1>3. /\ inv' \in [Invocations -> InvStage]
      /\ inv[i] # "raised" /\ inv'[i] \in {"ready", "finished", "raised"}
      /\ \A j \in Invocations : j # i => inv'[j] = inv[j]
  BY <1>1 DEF ToolsReturned, InvocationRaises, FinishInvocation, StagesTyped, InvStage
<1>4. /\ tool' \in [Invocations -> [Tools -> ToolStage]]
      /\ \A j \in Invocations : j # i => tool'[j] = tool[j]
      /\ \A k \in Tools : \/ tool'[i][k] = tool[i][k]
                          \/ tool'[i][k] = "raised"
                          \/ tool'[i][k] = "none" /\ inv'[i] = "raised"
  <2>1. CASE UNCHANGED tool
    BY <1>1, <2>1
  <2>2. ASSUME NEW k \in Tools, tool' = [tool EXCEPT ![i][k] = "raised"]
        PROVE  <1>4!:
    BY <1>1, <2>2, ToolMoves DEF ToolStage
  <2>3. CASE InvocationRaises(i) /\ tool' = [tool EXCEPT ![i] = [k \in Tools |-> "none"]]
    <3>1. inv'[i] = "raised"
      BY <1>1, <2>3 DEF InvocationRaises, StagesTyped
    <3>2. PICK new : new = [k \in Tools |-> "none"]
      OBVIOUS
    <3>3. new \in [Tools -> ToolStage] /\ \A k \in Tools : new[k] = "none"
      BY <3>2 DEF ToolStage
    <3>4. tool' = [tool EXCEPT ![i] = new]
      BY <2>3, <3>2
    <3>5. QED
      BY <1>1, <3>1, <3>3, <3>4
  <2>4. QED
    BY <2>1, <2>2, <2>3 DEF ToolsReturned, InvocationRaises, FinishInvocation
<1>5. Alone(i) /\ StagesTyped'
  BY <1>1, <1>2, <1>3, <1>4 DEF Alone, StagesTyped
<1>6. \A x \in Run : x.inv = i /\ Fresh(x)' => Fresh(x) /\ x \notin {}
  <2>1. SUFFICES ASSUME NEW x \in Run, x.inv = i, Fresh(x)'
                 PROVE  Fresh(x)
    OBVIOUS
  <2>2. x.kind = "tool" => x.n \in Tools
    BY RunNumbers
  <2>3. QED
    BY <1>2, <1>3, <1>4, <2>1, <2>2 DEF Fresh
<1>7. OneToolOf(i)'
  BY <1>2, <1>4, OwnTops DEF OneToolOf
<1>8. CASE ToolsReturned(i) \/ InvocationRaises(i)
  <2>1. UNCHANGED <<table, run>>
    BY <1>8 DEF ToolsReturned, InvocationRaises
  <2>2. Callback(i, {}) /\ \A r \in Run : run'[r] = "other" => run[r] = "other"
    BY <1>1, <2>1, NoCallback
  <2>3. \A x \in ToSet(table') : x.inv = i => Tops(x)'
    <3>1. \A x \in ToSet(table) : Tops(x)
      BY DEF TracingInv, TopsInv
    <3>2. Orderly(i)' <=> Orderly(i)
      BY <1>2 DEF Orderly
    <3>3. QED
      BY <1>2, <1>3, <1>4, <2>1, <3>1, <3>2 DEF Tops
  <2>4. QED
    BY <1>5, <1>6, <1>7, <2>2, <2>3, TracingMoves
<1>9. CASE FinishInvocation(i)
  <2>1. /\ Callback(i, {}) /\ \A x \in ToSet(table') : x.inv # i
        /\ \A x \in Run : run'[x] = "other" => run[x] = "other"
    BY <1>1, <1>9, ClosingEffect DEF FinishInvocation
  <2>2. QED
    BY <1>5, <1>6, <1>7, <2>1, TracingMoves
<1>10. QED
  BY <1>8, <1>9

LEMMA TracingInductive == TracingInv /\ [TracingNext]_tracingVars => TracingInv'
<1> SUFFICES ASSUME TracingInv, [TracingNext]_tracingVars PROVE TracingInv'
  OBVIOUS
<1>1. CASE UNCHANGED tracingVars
  BY <1>1 DEF tracingVars, TracingInv, StagesTyped, TableInv, RunsInv, NoRunLost, FreshInv, Fresh,
              TopsInv, Tops, Orderly, OneTool, OneToolOf, ResultsMatch
<1>2. QED
  BY <1>1, StartInvocationStep, CallModelStep, ModelAnswersStep, StartToolStep, ToolReturnsStep,
     FrameworkStep DEF TracingNext

LEMMA TracingInitially == TracingInit => TracingInv
<1> SUFFICES ASSUME TracingInit PROVE TracingInv
  OBVIOUS
<1>1. table = <<>> /\ Len(table) = 0 /\ table \in Seq(OpenEntry) /\ ToSet(table) = {}
  BY EmptySeq DEF TracingInit, ToSet
<1>2. TableInv /\ TopsInv
  BY <1>1, TracingAssumption DEF TableInv, OneEntryEach, TopsInv
<1>3. run \in [Run -> Outcome] /\ \A r \in Run : run[r] = "none"
  BY DEF TracingInit, Outcome
<1>4. RunsInv /\ FreshInv /\ ResultsMatch
  BY <1>1, <1>3 DEF RunsInv, NoRunLost, FreshInv, ResultsMatch
<1>5. StagesTyped
  BY DEF TracingInit, StagesTyped, InvStage, ToolStage
<1>6. OneTool
  BY DEF TracingInit, OneTool, OneToolOf
<1>7. QED
  BY <1>2, <1>4, <1>5, <1>6 DEF TracingInv

THEOREM TracingInvariant == TracingSpec => []TracingInv
BY TracingInitially, TracingInductive, PTL DEF TracingSpec

\* Every run that LangSmith has open is in the table, for any number of
\* invocations and any bound on the table, and no run is ended twice.
THEOREM RunsNotLost == TracingSpec => []NoRunLost
<1>1. TracingInv => NoRunLost
  BY DEF TracingInv, RunsInv
<1>2. QED
  BY <1>1, TracingInvariant, PTL

\* A tool run gets the result of another call only in an invocation whose calls
\* overlap, or with a run that could not be posted.
THEOREM ResultsMatched == TracingSpec => []ResultsMatch
<1>1. TracingInv => ResultsMatch
  BY DEF TracingInv
<1>2. QED
  BY <1>1, TracingInvariant, PTL

----------------------------------------------------------------------------
(* The two side by side *)

LEMMA BothInvariant == Spec => [](RegistryInv /\ TracingInv)
<1>1. Init => RegistryInv /\ TracingInv
  BY RegistryInitially, TracingInitially DEF Init
<1>2. (RegistryInv /\ TracingInv) /\ [Next]_vars => (RegistryInv /\ TracingInv)'
  <2>1. [Next]_vars => [RegistryNext]_registryVars /\ [TracingNext]_tracingVars
    BY DEF Next, vars
  <2>2. QED
    BY <2>1, RegistryInductive, TracingInductive
<1>3. QED
  BY <1>1, <1>2, PTL DEF Spec

\* The registry and the table keep their types and their bounds: one entry for
\* each repo and each invocation, MaxRepos and MaxOpen of them at most.
THEOREM AgentsTyped == Spec => []TypeOK
<1>1. RegistryInv /\ TracingInv => TypeOK
  BY TracingTyped DEF RegistryInv, TypeOK
<1>2. QED
  BY <1>1, BothInvariant, PTL

=============================================================================

---------------------- MODULE ConversionAuthorityProofs ----------------------
(***************************************************************************)
(* What holds of the conversion authority for any requests, fingerprints,  *)
(* crashes and orders of job files.                                        *)
(*                                                                         *)
(* AuthorityInv strengthens the invariants that are checked: the names are *)
(* a sequence of the jobs (so the search finds what it looks for), what    *)
(* was not created has no task and no run, the job that holds the lock is  *)
(* running (so the job that ends is none that was replaced), every key     *)
(* with an attempt has a live one (so the attempt that is replaced is      *)
(* the live one), and a job whose converter may run again has run at most  *)
(* once in each process before this one.                                   *)
(***************************************************************************)
EXTENDS ConversionAuthority, FiniteSetTheorems, SequenceTheorems,
        WellFoundedInduction, TLAPS

Named ==
    /\ names \in Seq(Created)
    /\ Cardinality(Created) \in 0 .. MaxConversions

Untouched ==
    \A c \in ConversionIds \ Created : tasks[c] = 0 /\ executed[c] = 0

LockedIsRunning ==
    converting # 0 => conversions[converting].status = "running"

KeyHasLive == \A k \in RequestKeys : Attempts(k) # {} => Live(k) # {}

OneLive ==
    outages.unlinked = 0 =>
        \A k \in RequestKeys : \A c, d \in Live(k) : c = d

MayRun(c) == Unfinished(c) /\ converting # c

RunsBounded ==
    \A c \in Created :
        executed[c] <= outages.all + (IF MayRun(c) THEN 0 ELSE 1)

AuthorityInv ==
    /\ AuthorityTypeOK
    /\ Named
    /\ Untouched
    /\ outages.unlinked <= outages.all
    /\ LockedIsRunning
    /\ SupersededHasFailed
    /\ KeyHasLive
    /\ OneLive
    /\ RunsBounded

-----------------------------------------------------------------------------
LEMMA JobsAreIds ==
    ASSUME AuthorityInv
    PROVE  Created \subseteq ConversionIds
  <1>1. Created = 1 .. Cardinality(Created)
    BY DEF AuthorityInv, AuthorityTypeOK
  <1>2. Cardinality(Created) \in 0 .. MaxConversions
    BY DEF AuthorityInv, Named
  <1> QED
    BY <1>1, <1>2, AuthorityAssumption DEF ConversionIds

(* The search by name finds an attempt of the set it looks for             *)
(* (_find_job_by_idempotency_key).                                         *)
LEMMA FirstFinds ==
    ASSUME AuthorityTypeOK, Named, NEW S \in SUBSET Created, S # {}
    PROVE  First(S) \in S
  <1> DEFINE T == {n \in DOMAIN names : names[n] \in S}
  <1>1. T \subseteq Nat /\ DOMAIN names = 1 .. Len(names)
    BY LenProperties DEF Named
  <1>2. T # {}
    BY DEF AuthorityTypeOK
  <1>3. PICK n \in T : \A m \in T : ~ (<<m, n>> \in OpToRel(<, Nat))
    BY <1>1, <1>2, WFMin, NatLessThanWellFounded
  <1>4. \A m \in T : ~ (m < n)
    BY <1>1, <1>3 DEF OpToRel
  <1>5. \A m \in 1 .. n - 1 : names[m] \notin S
    BY <1>1, <1>4, LenProperties DEF Named
  <1> QED
    BY <1>3, <1>5 DEF First

LEMMA FoundAttempt ==
    ASSUME AuthorityInv, NEW k \in RequestKeys, Attempts(k) # {}
    PROVE  Found(k) \in Live(k)
  <1>1. Live(k) # {} /\ Live(k) \in SUBSET Created
    BY DEF AuthorityInv, KeyHasLive, Live, Attempts
  <1> QED
    BY <1>1, FirstFinds DEF Found, AuthorityInv

(* A new job file has a name before or after those of its second           *)
(* (create_conversion).                                                    *)
LEMMA FiledNames ==
    ASSUME AuthorityTypeOK, Named, NEW c, NEW filed \in Filed(c)
    PROVE  /\ filed \in Seq(Created \cup {c})
           /\ Len(filed) = Len(names) + 1
           /\ \A d \in Created \cup {c} : \E n \in DOMAIN filed : filed[n] = d
  <1> DEFINE S == Created \cup {c}
  <1>1. names \in Seq(S) /\ Len(names) \in Nat
    BY SeqMonotonic, LenProperties DEF Named
  <1>2. \A d \in Created : \E n \in 1 .. Len(names) : names[n] = d
    BY <1>1, LenProperties DEF AuthorityTypeOK
  <1>3. CASE filed = <<c>> \o names
    <2>1. <<c>> \in Seq(S) /\ Len(<<c>>) = 1 /\ <<c>>[1] = c
      OBVIOUS
    <2>2. /\ filed \in Seq(S) /\ Len(filed) = 1 + Len(names)
          /\ \A i \in 1 .. 1 + Len(names) :
                filed[i] = IF i <= 1 THEN <<c>>[i] ELSE names[i - 1]
      BY <1>1, <1>3, <2>1, ConcatProperties
    <2>3. filed[1] = c /\ \A i \in 1 .. Len(names) : filed[i + 1] = names[i]
      BY <1>1, <2>1, <2>2
    <2>4. DOMAIN filed = 1 .. Len(names) + 1
      BY <1>1, <2>2, LenProperties
    <2>5. ASSUME NEW d \in Created PROVE \E n \in DOMAIN filed : filed[n] = d
      <3>1. PICK n \in 1 .. Len(names) : names[n] = d
        BY <1>2
      <3>2. n + 1 \in DOMAIN filed /\ filed[n + 1] = d
        BY <1>1, <2>3, <2>4, <3>1
      <3> QED
        BY <3>2
    <2>6. 1 \in DOMAIN filed
      BY <1>1, <2>4
    <2> QED
      BY <1>1, <2>2, <2>3, <2>5, <2>6
  <1>4. CASE names # <<>> /\ filed = <<Head(names), c>> \o Tail(names)
    <2> DEFINE two == <<Head(names), c>>
    <2>1. /\ two \in Seq(S) /\ Len(two) = 2
          /\ two[1] = names[1] /\ two[2] = c
          /\ Len(names) >= 1
      BY <1>1, <1>4
    <2>2. /\ Tail(names) \in Seq(S) /\ Len(Tail(names)) = Len(names) - 1
          /\ \A i \in 1 .. Len(names) - 1 : Tail(names)[i] = names[i + 1]
      BY <1>1, <1>4, HeadTailProperties
    <2>3. /\ filed \in Seq(S) /\ Len(filed) = Len(names) + 1
          /\ \A i \in 1 .. Len(names) + 1 :
                filed[i] = IF i <= 2 THEN two[i] ELSE Tail(names)[i - 2]
      BY <1>1, <1>4, <2>1, <2>2, ConcatProperties
    <2>4. /\ filed[1] = names[1] /\ filed[2] = c
          /\ \A i \in 2 .. Len(names) : filed[i + 1] = names[i]
      BY <1>1, <2>1, <2>2, <2>3
    <2>5. DOMAIN filed = 1 .. Len(names) + 1
      BY <1>1, <2>3, LenProperties
    <2>6. ASSUME NEW d \in Created PROVE \E n \in DOMAIN filed : filed[n] = d
      <3>1. PICK n \in 1 .. Len(names) : names[n] = d
        BY <1>2
      <3>2. n = 1 \/ n \in 2 .. Len(names)
        BY <1>1, <3>1
      <3>3. CASE n = 1
        BY <1>1, <2>4, <2>5, <3>1, <3>3
      <3>4. CASE n \in 2 .. Len(names)
        <4>1. n + 1 \in DOMAIN filed /\ filed[n + 1] = d
          BY <1>1, <2>4, <2>5, <3>1, <3>4
        <4> QED
          BY <4>1
      <3> QED
        BY <3>2, <3>3, <3>4
    <2>7. 2 \in DOMAIN filed
      BY <1>1, <2>1, <2>5
    <2> QED
      BY <1>1, <2>3, <2>4, <2>6, <2>7
  <1> QED
    BY <1>3, <1>4 DEF Filed

(* The jobs with one more (create_conversion_job).                         *)
LEMMA OneMore ==
    ASSUME AuthorityTypeOK, Named, Created # ConversionIds
    PROVE  /\ NewId \in ConversionIds /\ NewId \notin Created
           /\ NewId = Cardinality(Created) + 1 /\ NewId \in Nat
           /\ \A c \in Created : c < NewId /\ c \in Nat \ {0}
           /\ Created \cup {NewId} = 1 .. NewId
           /\ Cardinality(1 .. NewId) = NewId
  <1>1. Cardinality(Created) \in Nat /\ Created = 1 .. Cardinality(Created)
    BY AuthorityAssumption DEF Named, AuthorityTypeOK
  <1>2. Cardinality(1 .. NewId) = NewId
    BY <1>1, FS_Interval DEF NewId
  <1> QED
    BY <1>1, <1>2, AuthorityAssumption DEF NewId, Named, ConversionIds

(* What a new attempt leaves of the others, and of the attempt it replaces *)
(* if that is linked (_create_conversion_job_locked).                      *)
LEMMA Creation ==
    ASSUME AuthorityInv, Created # ConversionIds,
           NEW k \in RequestKeys, NEW p \in Fingerprints, NEW old,
           \/ old = 0
           \/ old \in Live(k) /\ Replaceable(old) /\ conversions[old].print = p,
           conversions' = Written(NewId, k, p, old),
           names' \in Filed(NewId)
    PROVE  /\ Created' = Created \cup {NewId}
           /\ conversions' \in [Created' -> JobFiles]
           /\ conversions'[NewId] = NewJob(k, p)
           /\ \A c \in Created :
                 /\ conversions'[c].key = conversions[c].key
                 /\ conversions'[c].print = conversions[c].print
                 /\ conversions'[c].status = conversions[c].status
                 /\ conversions'[c].superseded_by =
                       IF c = old THEN NewId ELSE conversions[c].superseded_by
           /\ Named' /\ Len(names') = Cardinality(Created')
           /\ Created' = 1 .. Cardinality(Created')
           /\ \A c \in Created' : \E n \in DOMAIN names' : names'[n] = c
           /\ SupersededHasFailed'
           /\ KeyHasLive'
           /\ \A j \in RequestKeys :
                 Live(j)' = IF j = k THEN (Live(k) \ {old}) \cup {NewId}
                                     ELSE Live(j)
  <1> USE DEF AuthorityInv
  <1> DEFINE N == NewId
  <1>1. /\ N \in ConversionIds /\ N \notin Created /\ N \in Nat /\ N # 0
        /\ N = Cardinality(Created) + 1
        /\ \A c \in Created : c < N /\ c \in Nat \ {0}
        /\ Created \cup {N} = 1 .. N
        /\ Cardinality(1 .. N) = N
        /\ N \in 1 .. MaxConversions
    BY OneMore DEF ConversionIds
  <1>2. Created' = Created \cup {N}
    BY DEF Written, Created
  <1>4. /\ old \in Created => conversions[old].key = k
        /\ old = 0 => old \notin Created
        /\ old # N
    BY <1>1 DEF Live, Attempts
  <1>3. conversions'[N] = NewJob(k, p)
    BY <1>4 DEF Written, Created
  <1>5. \A c \in Created :
           conversions'[c] = IF c = old
                             THEN [conversions[c] EXCEPT !.superseded_by = N]
                             ELSE conversions[c]
    BY <1>1, <1>4 DEF Written, Created
  <1>6. \A c \in Created : conversions[c] \in JobFiles
    BY DEF AuthorityTypeOK
  <1>7. \A c \in Created :
           /\ conversions'[c] \in JobFiles
           /\ conversions'[c].key = conversions[c].key
           /\ conversions'[c].print = conversions[c].print
           /\ conversions'[c].status = conversions[c].status
           /\ conversions'[c].superseded_by =
                 IF c = old THEN N ELSE conversions[c].superseded_by
    <2> TAKE c \in Created
    <2>1. conversions[c] \in JobFiles /\ N \in 0 .. MaxConversions
      BY <1>1, <1>6, AuthorityAssumption
    <2>2. CASE c = old
      BY <1>5, <2>1, <2>2 DEF JobFiles
    <2>3. CASE c # old
      BY <1>5, <2>1, <2>3
    <2> QED
      BY <2>2, <2>3
  <1>8. NewJob(k, p) \in JobFiles
    BY AuthorityAssumption DEF NewJob, JobFiles, Statuses
  <1>9. conversions' \in [Created' -> JobFiles]
    <2>1. conversions' = [d \in Created' |-> conversions'[d]]
      BY <1>2 DEF Written, Created
    <2>2. \A d \in Created' : conversions'[d] \in JobFiles
      BY <1>2, <1>3, <1>7, <1>8
    <2> QED
      BY <2>1, <2>2
  <1>10. /\ names' \in Seq(Created') /\ Len(names') = Len(names) + 1
         /\ \A c \in Created' : \E n \in DOMAIN names' : names'[n] = c
    BY <1>2, FiledNames
  <1>11. /\ Cardinality(Created') = N /\ Created' = 1 .. N
         /\ Cardinality(Created') \in 0 .. MaxConversions
    <2>1. Created' = 1 .. N
      BY <1>1, <1>2
    <2>2. Cardinality(Created') = N
      BY <1>1, <2>1
    <2> QED
      BY <1>1, <2>1, <2>2, AuthorityAssumption
  <1>12. Named' /\ Len(names') = Cardinality(Created')
    <2>1. Len(names) = Cardinality(Created)
      BY DEF AuthorityTypeOK
    <2>2. Len(names') = Cardinality(Created')
      BY <1>1, <1>10, <1>11, <2>1
    <2> QED
      BY <1>10, <1>11, <2>2 DEF Named
  <1>13. SupersededHasFailed'
    <2> SUFFICES ASSUME NEW c \in Created',
                        conversions'[c].superseded_by # 0
                 PROVE  LET d == conversions'[c].superseded_by IN
                            /\ conversions'[c].status = "failed"
                            /\ d \in Created' /\ d > c
                            /\ conversions'[d].key = conversions'[c].key
                            /\ conversions'[d].print = conversions'[c].print
      BY DEF SupersededHasFailed, Created
    <2>1. c \in Created
      BY <1>2, <1>3 DEF NewJob
    <2>2. CASE c = old
      BY <1>1, <1>2, <1>3, <1>4, <1>7, <2>1, <2>2 DEF NewJob, Replaceable
    <2>3. CASE c # old
      <3>1. conversions'[c].superseded_by = conversions[c].superseded_by
        BY <1>7, <2>1, <2>3
      <3> QED
        BY <1>2, <1>7, <2>1, <3>1 DEF SupersededHasFailed
    <2> QED
      BY <2>2, <2>3
  <1>14. \A j \in RequestKeys :
            Attempts(j)' = IF j = k THEN Attempts(k) \cup {N} ELSE Attempts(j)
    BY <1>1, <1>2, <1>3, <1>7 DEF Attempts, NewJob
  <1>15. ASSUME NEW j \in RequestKeys
         PROVE  Live(j)' = IF j = k THEN (Live(k) \ {old}) \cup {N}
                                    ELSE Live(j)
    <2>1. \A c \in Attempts(j) :
             c \in Live(j)' <=> c \in Live(j) /\ c # old
      BY <1>1, <1>7, <1>14 DEF Live, Attempts
    <2>2. N \in Live(j)' <=> j = k
      BY <1>1, <1>3, <1>14 DEF Live, Attempts, NewJob
    <2>3. j # k => old \notin Live(j)
      BY <1>4 DEF Live, Attempts
    <2>4. Live(j)' \subseteq Attempts(j) \cup {N} /\ Live(j) \subseteq Attempts(j)
      BY <1>14 DEF Live
    <2>5. CASE j = k
      BY <2>1, <2>2, <2>4, <2>5
    <2>6. CASE j # k
      BY <2>1, <2>2, <2>3, <2>4, <2>6
    <2> QED
      BY <2>5, <2>6
  <1>16. KeyHasLive'
    <2> SUFFICES ASSUME NEW j \in RequestKeys, Attempts(j)' # {}
                 PROVE  Live(j)' # {}
      BY DEF KeyHasLive
    <2> QED
      BY <1>14, <1>15 DEF KeyHasLive
  <1> QED
    BY <1>2, <1>3, <1>7, <1>9, <1>10, <1>11, <1>12, <1>13, <1>15, <1>16

-----------------------------------------------------------------------------
(* Steps that create no job and change no link leave what depends on both. *)
LEMMA SameJobs ==
    ASSUME AuthorityInv, UNCHANGED names, Created' = Created,
           conversions' \in [Created -> JobFiles],
           \A c \in Created :
               /\ conversions'[c].key = conversions[c].key
               /\ conversions'[c].print = conversions[c].print
               /\ conversions'[c].superseded_by = conversions[c].superseded_by
               /\ \/ conversions'[c].status = conversions[c].status
                  \/ conversions[c].status # "failed"
    PROVE  /\ Named' /\ SupersededHasFailed' /\ KeyHasLive'
           /\ Len(names') = Cardinality(Created')
           /\ Created' = 1 .. Cardinality(Created')
           /\ \A c \in Created' : \E n \in DOMAIN names' : names'[n] = c
           /\ \A j \in RequestKeys : Live(j)' = Live(j)
  <1> USE DEF AuthorityInv
  <1>1. \A j \in RequestKeys : Attempts(j)' = Attempts(j) /\ Live(j)' = Live(j)
    BY DEF Attempts, Live
  <1>2. Named' /\ KeyHasLive'
    BY <1>1 DEF Named, KeyHasLive
  <1>3. SupersededHasFailed'
    <2> SUFFICES ASSUME NEW c \in Created,
                        conversions'[c].superseded_by # 0
                 PROVE  LET d == conversions'[c].superseded_by IN
                            /\ conversions'[c].status = "failed"
                            /\ d \in Created' /\ d > c
                            /\ conversions'[d].key = conversions'[c].key
                            /\ conversions'[d].print = conversions'[c].print
      BY DEF SupersededHasFailed
    <2> QED
      BY DEF SupersededHasFailed
  <1> QED
    BY <1>1, <1>2, <1>3 DEF AuthorityTypeOK

-----------------------------------------------------------------------------
LEMMA AuthorityInitially == AuthorityInit => AuthorityInv
  <1> SUFFICES ASSUME AuthorityInit PROVE AuthorityInv
    OBVIOUS
  <1>1. Created = {} /\ Cardinality(Created) = 0
    BY FS_EmptySet DEF AuthorityInit, Created
  <1>2. names = <<>> /\ Len(names) = 0 /\ names \in Seq(Created)
    BY DEF AuthorityInit
  <1>3. AuthorityTypeOK
    BY <1>1, <1>2, AuthorityAssumption DEF AuthorityInit, AuthorityTypeOK
  <1>4. Named /\ Untouched /\ outages.unlinked <= outages.all
    BY <1>1, <1>2, AuthorityAssumption DEF AuthorityInit, Named, Untouched
  <1>5. LockedIsRunning /\ SupersededHasFailed /\ RunsBounded
    BY <1>1 DEF AuthorityInit, LockedIsRunning, SupersededHasFailed, RunsBounded
  <1>6. KeyHasLive /\ OneLive
    BY <1>1 DEF KeyHasLive, OneLive, Live, Attempts
  <1> QED
    BY <1>3, <1>4, <1>5, <1>6 DEF AuthorityInv

(* create_conversion makes a new attempt.                                  *)
LEMMA CreateAttemptStep ==
    ASSUME AuthorityInv, NEW k \in RequestKeys, NEW p \in Fingerprints,
           CreateAttempt(k, p)
    PROVE  AuthorityInv'
  <1> DEFINE old == IF Attempts(k) = {} THEN 0 ELSE Found(k)
  <1>1. \/ old = 0
        \/ old \in Live(k) /\ Replaceable(old) /\ conversions[old].print = p
    BY FoundAttempt DEF CreateAttempt, Refuses
  <1>2. /\ Created # ConversionIds
        /\ conversions' = Written(NewId, k, p, old)
        /\ names' \in Filed(NewId)
        /\ tasks' = [tasks EXCEPT ![NewId] = @ + 1]
        /\ UNCHANGED <<converting, executed, lost, outages>>
    BY DEF CreateAttempt, Scheduled
  <1> HIDE DEF old
  <1>3. /\ Created' = Created \cup {NewId}
        /\ conversions' \in [Created' -> JobFiles]
        /\ conversions'[NewId] = NewJob(k, p)
        /\ \A c \in Created :
              /\ conversions'[c].key = conversions[c].key
              /\ conversions'[c].print = conversions[c].print
              /\ conversions'[c].status = conversions[c].status
              /\ conversions'[c].superseded_by =
                    IF c = old THEN NewId ELSE conversions[c].superseded_by
        /\ Named' /\ Len(names') = Cardinality(Created')
        /\ Created' = 1 .. Cardinality(Created')
        /\ \A c \in Created' : \E n \in DOMAIN names' : names'[n] = c
        /\ SupersededHasFailed'
        /\ KeyHasLive'
        /\ \A j \in RequestKeys :
              Live(j)' = IF j = k THEN (Live(k) \ {old}) \cup {NewId}
                                  ELSE Live(j)
    BY <1>1, <1>2, Creation
  <1>4. NewId \in ConversionIds /\ NewId \notin Created
    BY <1>2, OneMore DEF AuthorityInv
  <1>5. /\ tasks' \in [ConversionIds -> 0 .. MaxTasks]
        /\ \A c \in Created : tasks'[c] = tasks[c]
        /\ \A c \in ConversionIds \ Created' : tasks'[c] = tasks[c]
    BY <1>2, <1>3, <1>4, AuthorityAssumption
       DEF AuthorityInv, AuthorityTypeOK, Untouched
  <1>6. AuthorityTypeOK'
    <2>1. converting' \in Created' \cup {0} /\ lost' \subseteq Created'
      BY <1>2, <1>3 DEF AuthorityInv, AuthorityTypeOK
    <2>2. converting' # 0 => tasks'[converting'] > 0
      BY <1>2, <1>5 DEF AuthorityInv, AuthorityTypeOK
    <2> QED
      BY <1>2, <1>3, <1>5, <2>1, <2>2 DEF AuthorityInv, AuthorityTypeOK
  <1>7. Untouched'
    BY <1>2, <1>3, <1>5 DEF AuthorityInv, Untouched
  <1>8. LockedIsRunning'
    BY <1>2, <1>3 DEF AuthorityInv, AuthorityTypeOK, LockedIsRunning
  <1>9. OneLive'
    <2> SUFFICES ASSUME outages.unlinked = 0, NEW j \in RequestKeys,
                        NEW c \in Live(j)', NEW d \in Live(j)'
                 PROVE  c = d
      BY <1>2 DEF OneLive
    <2>1. \A a, b \in Live(j) : a = b
      BY DEF AuthorityInv, OneLive
    <2>2. CASE j # k
      BY <1>3, <2>1, <2>2
    <2>3. CASE j = k
      <3>1. Live(k) \ {old} = {}
        <4>1. CASE Attempts(k) = {}
          BY <4>1 DEF Live
        <4>2. CASE Attempts(k) # {}
          <5>1. old \in Live(k)
            BY <4>2, FoundAttempt DEF old
          <5> QED
            BY <2>1, <2>3, <5>1
        <4> QED
          BY <4>1, <4>2
      <3> QED
        BY <1>3, <2>3, <3>1
    <2> QED
      BY <2>2, <2>3
  <1>10. RunsBounded'
    <2> SUFFICES ASSUME NEW c \in Created'
                 PROVE  executed'[c] <=
                           outages'.all + (IF MayRun(c)' THEN 0 ELSE 1)
      BY DEF RunsBounded
    <2>1. executed' = executed /\ outages' = outages /\ outages.all \in Nat
      BY <1>2 DEF AuthorityInv, AuthorityTypeOK
    <2>2. CASE c \in Created
      <3>1. MayRun(c)' <=> MayRun(c)
        BY <1>2, <1>3, <2>2 DEF MayRun, Unfinished
      <3> QED
        BY <2>1, <2>2, <3>1 DEF AuthorityInv, RunsBounded
    <2>3. CASE c = NewId
      <3>1. executed[c] = 0
        BY <1>4, <2>3 DEF AuthorityInv, Untouched
      <3> QED
        BY <2>1, <3>1
    <2> QED
      BY <1>3, <2>2, <2>3
  <1>11. outages'.unlinked <= outages'.all
    BY <1>2 DEF AuthorityInv
  <1> QED
    BY <1>3, <1>6, <1>7, <1>8, <1>9, <1>10, <1>11 DEF AuthorityInv

(* The process ends, in the middle of a retry or not.                      *)
LEMMA OutageStep ==
    ASSUME AuthorityInv,
           \/ Outage
           \/ \E k \in RequestKeys : OutageBeforeLink(k)
    PROVE  AuthorityInv'
  <1> USE DEF AuthorityInv
  <1>1. PICK unlinked \in {0, 1} :
           /\ NoTasks(unlinked)
           /\ \/ unlinked = 0 /\ UNCHANGED <<conversions, names>>
              \/ unlinked = 1 /\ \E k \in RequestKeys : OutageBeforeLink(k)
    BY DEF Outage, OutageBeforeLink
  <1>2. /\ outages'.all = outages.all + 1
        /\ outages'.unlinked = outages.unlinked + unlinked
        /\ outages.all \in Nat /\ outages.unlinked \in Nat
        /\ outages' \in [all : 0 .. MaxOutages, unlinked : 0 .. MaxOutages]
        /\ outages'.unlinked <= outages'.all
    <2>1. /\ outages \in [all : 0 .. MaxOutages, unlinked : 0 .. MaxOutages]
          /\ outages.all < MaxOutages /\ outages.unlinked <= outages.all
          /\ outages' = [all |-> outages.all + 1,
                         unlinked |-> outages.unlinked + unlinked]
      BY <1>1 DEF NoTasks, AuthorityTypeOK
    <2> QED
      BY <2>1, AuthorityAssumption
  <1>3. /\ tasks' = [c \in ConversionIds |-> 0] /\ converting' = 0
        /\ executed' = executed /\ lost' = lost
    BY <1>1 DEF NoTasks
  <1>4. /\ Created \subseteq Created'
        /\ Created' \ Created \subseteq ConversionIds
        /\ conversions' \in [Created' -> JobFiles]
        /\ Named' /\ Len(names') = Cardinality(Created')
        /\ Created' = 1 .. Cardinality(Created')
        /\ \A c \in Created' : \E n \in DOMAIN names' : names'[n] = c
        /\ SupersededHasFailed' /\ KeyHasLive'
        /\ unlinked = 0 => \A j \in RequestKeys : Live(j)' = Live(j)
    <2>1. CASE unlinked = 0 /\ UNCHANGED <<conversions, names>>
      <3>1. Created' = Created /\ conversions \in [Created -> JobFiles]
        BY <2>1 DEF Created, AuthorityTypeOK
      <3> QED
        BY <2>1, <3>1, SameJobs
    <2>2. CASE unlinked = 1 /\ \E k \in RequestKeys : OutageBeforeLink(k)
      <3>1. PICK k \in RequestKeys :
               /\ Created # ConversionIds /\ Attempts(k) # {}
               /\ conversions' =
                     Written(NewId, k, conversions[Found(k)].print, 0)
               /\ names' \in Filed(NewId)
        BY <2>2 DEF OutageBeforeLink
      <3>2. conversions[Found(k)].print \in Fingerprints
        BY <3>1, FoundAttempt DEF Live, Attempts, AuthorityTypeOK, JobFiles
      <3>3. NewId \in ConversionIds
        BY <3>1, OneMore
      <3> QED
        BY <2>2, <3>1, <3>2, <3>3, Creation
    <2> QED
      BY <1>1, <2>1, <2>2
  <1>5. AuthorityTypeOK'
    BY <1>2, <1>3, <1>4, AuthorityAssumption DEF AuthorityTypeOK
  <1>6. Untouched' /\ LockedIsRunning'
    BY <1>3, <1>4 DEF Untouched, LockedIsRunning
  <1>7. OneLive'
    BY <1>1, <1>2, <1>4 DEF OneLive
  <1>8. RunsBounded'
    <2> SUFFICES ASSUME NEW c \in Created'
                 PROVE  executed'[c] <=
                           outages'.all + (IF MayRun(c)' THEN 0 ELSE 1)
      BY DEF RunsBounded
    <2>1. executed' = executed /\ executed[c] \in Nat
      <3>1. Created \subseteq ConversionIds
        BY JobsAreIds
      <3>2. c \in ConversionIds
        BY <1>4, <3>1
      <3> QED
        BY <1>3, <3>2 DEF AuthorityTypeOK
    <2>2. executed[c] <= outages.all + 1
      <3>1. CASE c \in Created
        <4>1. executed[c] <= outages.all + (IF MayRun(c) THEN 0 ELSE 1)
          BY <3>1 DEF RunsBounded
        <4> QED
          BY <1>2, <2>1, <4>1
      <3>2. CASE c \notin Created
        <4>1. executed[c] = 0
          BY <1>4, <3>2 DEF Untouched
        <4> QED
          BY <1>2, <4>1
      <3> QED
        BY <3>1, <3>2
    <2> QED
      BY <1>2, <2>1, <2>2
  <1> QED
    BY <1>2, <1>4, <1>5, <1>6, <1>7, <1>8

-----------------------------------------------------------------------------
(* A background task begins, finds nothing to do, or ends.                 *)
LEMMA WorkStep ==
    ASSUME AuthorityInv, NEW c \in Created,
           \/ Begin(c)
           \/ Skip(c)
           \/ End(c, "succeeded")
           \/ End(c, "failed")
    PROVE  AuthorityInv'
  <1> USE DEF AuthorityInv
  <1>1. /\ c \in ConversionIds /\ c # 0 /\ Created \subseteq ConversionIds
        /\ Created = 1 .. Cardinality(Created)
        /\ \A d \in Created : d # 0
    BY JobsAreIds DEF ConversionIds, AuthorityTypeOK
  <1>2. /\ names' = names /\ lost' = lost /\ outages' = outages
        /\ outages.all \in Nat
    BY DEF Begin, Skip, End, AuthorityTypeOK
  <1>3. CASE Begin(c)
    <2>1. /\ converting = 0 /\ tasks[c] > 0 /\ Unfinished(c)
          /\ conversions' = [conversions EXCEPT ![c].status = "running"]
          /\ converting' = c /\ tasks' = tasks
          /\ executed' = [executed EXCEPT ![c] = @ + 1]
      BY <1>3 DEF Begin
    <2>2. conversions \in [Created -> JobFiles]
      BY DEF AuthorityTypeOK
    <2>3. /\ conversions' \in [Created -> JobFiles] /\ Created' = Created
          /\ \A d \in Created :
                /\ conversions'[d].key = conversions[d].key
                /\ conversions'[d].print = conversions[d].print
                /\ conversions'[d].superseded_by = conversions[d].superseded_by
                /\ conversions'[d].status =
                      IF d = c THEN "running" ELSE conversions[d].status
      BY <2>1, <2>2 DEF JobFiles, Statuses, Created
    <2>4. /\ Named' /\ SupersededHasFailed' /\ KeyHasLive'
          /\ Len(names') = Cardinality(Created')
          /\ Created' = 1 .. Cardinality(Created')
          /\ \A d \in Created' : \E n \in DOMAIN names' : names'[n] = d
          /\ \A j \in RequestKeys : Live(j)' = Live(j)
      <3>1. conversions[c].status # "failed"
        BY <2>1 DEF Unfinished
      <3> QED
        BY <1>2, <2>3, <3>1, SameJobs
    <2>5. /\ executed' \in [ConversionIds -> Nat]
          /\ \A d \in ConversionIds :
                executed'[d] = IF d = c THEN executed[d] + 1 ELSE executed[d]
      BY <1>1, <2>1 DEF AuthorityTypeOK
    <2>6. AuthorityTypeOK'
      BY <1>2, <2>1, <2>3, <2>4, <2>5 DEF AuthorityTypeOK
    <2>7. Untouched' /\ LockedIsRunning' /\ OneLive'
      BY <1>1, <1>2, <2>1, <2>3, <2>4, <2>5
         DEF Untouched, LockedIsRunning, OneLive
    <2>8. RunsBounded'
      <3> SUFFICES ASSUME NEW d \in Created
                   PROVE  executed'[d] <=
                             outages.all + (IF MayRun(d)' THEN 0 ELSE 1)
        BY <1>2, <2>3 DEF RunsBounded
      <3>1. /\ executed[d] \in Nat
            /\ executed[d] <= outages.all + (IF MayRun(d) THEN 0 ELSE 1)
        BY <1>1 DEF RunsBounded, AuthorityTypeOK
      <3>2. CASE d = c
        <4>1. MayRun(c) /\ ~ MayRun(c)'
          BY <1>1, <2>1 DEF MayRun
        <4> QED
          BY <1>1, <1>2, <2>5, <3>1, <3>2, <4>1
      <3>3. CASE d # c
        <4>1. MayRun(d)' => MayRun(d)
          BY <1>1, <2>1, <2>3, <3>3 DEF MayRun, Unfinished
        <4>2. executed'[d] = executed[d]
          BY <1>1, <2>5, <3>3
        <4> QED
          BY <1>2, <3>1, <4>1, <4>2
      <3> QED
        BY <3>2, <3>3
    <2> QED
      BY <1>2, <2>4, <2>6, <2>7, <2>8
  <1>4. CASE Skip(c)
    <2>1. /\ UNCHANGED <<conversions, converting, executed>>
          /\ converting = 0
          /\ tasks' = [tasks EXCEPT ![c] = @ - 1]
          /\ tasks[c] > 0
      BY <1>4 DEF Skip
    <2>2. /\ tasks' \in [ConversionIds -> 0 .. MaxTasks]
          /\ \A d \in ConversionIds \ Created : tasks'[d] = tasks[d]
      BY <1>1, <2>1, AuthorityAssumption DEF AuthorityTypeOK
    <2>3. AuthorityTypeOK'
      BY <1>2, <2>1, <2>2 DEF AuthorityTypeOK, Created
    <2> QED
      BY <1>2, <2>1, <2>2, <2>3
         DEF Named, Untouched, LockedIsRunning, SupersededHasFailed, KeyHasLive,
             OneLive, RunsBounded, MayRun, Unfinished, Live, Attempts, Created
  <1>5. ASSUME NEW status \in {"succeeded", "failed"}, End(c, status)
        PROVE  AuthorityInv'
    <2>1. /\ converting = c /\ converting' = 0
          /\ conversions' = [conversions EXCEPT ![c].status = status]
          /\ tasks' = [tasks EXCEPT ![c] = @ - 1]
          /\ executed' = executed
      BY <1>5 DEF End
    <2>2. conversions \in [Created -> JobFiles]
      BY DEF AuthorityTypeOK
    <2>3. /\ conversions' \in [Created -> JobFiles] /\ Created' = Created
          /\ \A d \in Created :
                /\ conversions'[d].key = conversions[d].key
                /\ conversions'[d].print = conversions[d].print
                /\ conversions'[d].superseded_by = conversions[d].superseded_by
                /\ conversions'[d].status =
                      IF d = c THEN status ELSE conversions[d].status
      BY <2>1, <2>2 DEF JobFiles, Statuses, Created
    <2>4. /\ Named' /\ SupersededHasFailed' /\ KeyHasLive'
          /\ Len(names') = Cardinality(Created')
          /\ Created' = 1 .. Cardinality(Created')
          /\ \A d \in Created' : \E n \in DOMAIN names' : names'[n] = d
          /\ \A j \in RequestKeys : Live(j)' = Live(j)
      <3>1. conversions[c].status # "failed"
        BY <1>1, <2>1 DEF LockedIsRunning
      <3> QED
        BY <1>2, <2>3, <3>1, SameJobs
    <2>5. /\ tasks' \in [ConversionIds -> 0 .. MaxTasks]
          /\ \A d \in ConversionIds \ Created : tasks'[d] = tasks[d]
      BY <1>1, <2>1, AuthorityAssumption DEF AuthorityTypeOK
    <2>6. AuthorityTypeOK'
      BY <1>2, <2>1, <2>3, <2>4, <2>5 DEF AuthorityTypeOK
    <2>7. Untouched' /\ LockedIsRunning' /\ OneLive'
      BY <1>2, <2>1, <2>3, <2>4, <2>5
         DEF Untouched, LockedIsRunning, OneLive
    <2>8. RunsBounded'
      <3> SUFFICES ASSUME NEW d \in Created
                   PROVE  executed[d] <=
                             outages.all + (IF MayRun(d)' THEN 0 ELSE 1)
        BY <1>2, <2>1, <2>3 DEF RunsBounded
      <3>1. /\ executed[d] \in Nat
            /\ executed[d] <= outages.all + (IF MayRun(d) THEN 0 ELSE 1)
        BY <1>1 DEF RunsBounded, AuthorityTypeOK
      <3>2. MayRun(d)' => MayRun(d)
        BY <1>1, <2>1, <2>3 DEF MayRun, Unfinished
      <3> QED
        BY <1>2, <3>1, <3>2
    <2> QED
      BY <1>2, <2>4, <2>6, <2>7, <2>8
  <1> QED
    BY <1>3, <1>4, <1>5

(* What changes no job and no lock: a replay, a lost artifact, a refusal.  *)
LEMMA OtherStep ==
    ASSUME AuthorityInv,
           \/ \E k \in RequestKeys, p \in Fingerprints :
                 ReplayAttempt(k, p) \/ Refuse(k, p)
           \/ \E c \in Created : Lose(c)
           \/ UNCHANGED authorityVars
    PROVE  AuthorityInv'
  <1> USE DEF AuthorityInv
  <1>1. UNCHANGED <<conversions, names, converting, executed, outages>>
    BY DEF ReplayAttempt, Refuse, Lose, authorityVars
  <1>2. lost' \subseteq Created
    BY DEF ReplayAttempt, Refuse, Lose, authorityVars, AuthorityTypeOK
  <1>3. /\ tasks' \in [ConversionIds -> 0 .. MaxTasks]
        /\ \A c \in ConversionIds : tasks'[c] >= tasks[c]
        /\ \A c \in ConversionIds \ Created : tasks'[c] = tasks[c]
    <2>1. CASE tasks' = tasks
      BY <2>1, AuthorityAssumption DEF AuthorityTypeOK
    <2>2. CASE \E k \in RequestKeys :
                  /\ Attempts(k) # {}
                  /\ tasks[Found(k)] < MaxTasks
                  /\ Scheduled(Found(k))
      <3>1. PICK k \in RequestKeys :
               /\ Attempts(k) # {}
               /\ tasks[Found(k)] < MaxTasks
               /\ Scheduled(Found(k))
        BY <2>2
      <3>2. Found(k) \in Created /\ Found(k) \in ConversionIds
        BY <3>1, FoundAttempt, JobsAreIds DEF Live, Attempts
      <3>3. /\ tasks \in [ConversionIds -> 0 .. MaxTasks]
            /\ tasks' = [tasks EXCEPT ![Found(k)] = @ + 1]
        BY <3>1 DEF Scheduled, AuthorityTypeOK
      <3> HIDE DEF AuthorityInv
      <3> QED
        BY <3>1, <3>2, <3>3, AuthorityAssumption
    <2> QED
      BY <2>1, <2>2 DEF ReplayAttempt, Refuse, Lose, authorityVars
  <1>4. AuthorityTypeOK'
    <2>1. converting # 0 => tasks'[converting] > 0
      BY <1>3, JobsAreIds, AuthorityAssumption DEF AuthorityTypeOK
    <2> QED
      BY <1>1, <1>2, <1>3, <2>1 DEF AuthorityTypeOK, Created
  <1> QED
    BY <1>1, <1>3, <1>4
       DEF Named, Untouched, LockedIsRunning, SupersededHasFailed, KeyHasLive,
           OneLive, RunsBounded, MayRun, Unfinished, Live, Attempts, Created

LEMMA AuthorityStep == AuthorityInv /\ [AuthorityNext]_authorityVars => AuthorityInv'
  <1> SUFFICES ASSUME AuthorityInv, [AuthorityNext]_authorityVars
               PROVE  AuthorityInv'
    OBVIOUS
  <1>1. CASE \E k \in RequestKeys, p \in Fingerprints : CreateAttempt(k, p)
    BY <1>1, CreateAttemptStep
  <1>2. CASE Work
    BY <1>2, WorkStep DEF Work
  <1>3. CASE Outage \/ \E k \in RequestKeys : OutageBeforeLink(k)
    BY <1>3, OutageStep
  <1>4. CASE \/ \E k \in RequestKeys, p \in Fingerprints :
                   ReplayAttempt(k, p) \/ Refuse(k, p)
             \/ \E c \in Created : Lose(c)
             \/ UNCHANGED authorityVars
    BY <1>4, OtherStep
  <1> QED
    BY <1>1, <1>2, <1>3, <1>4 DEF AuthorityNext

LEMMA AuthorityInvariant == AuthoritySpec => []AuthorityInv
  BY AuthorityInitially, AuthorityStep, PTL DEF AuthoritySpec

-----------------------------------------------------------------------------
(* The job files, their names, the tasks and the lock are well typed       *)
(* (conversion_authority.py).                                              *)
THEOREM AuthorityTypeCorrect == AuthoritySpec => []AuthorityTypeOK
  BY AuthorityInvariant, PTL DEF AuthorityInv

(* An attempt that another one replaces has failed, for any order of names *)
(* and any crash (_create_conversion_job_locked).                          *)
THEOREM SupersededFailed == AuthoritySpec => []SupersededHasFailed
  BY AuthorityInvariant, PTL DEF AuthorityInv

(* A retry chain has one live end, which alone can have a result, unless a *)
(* crash came between the two writes of a retry                            *)
(* (_find_job_by_idempotency_key).                                         *)
THEOREM ChainHasOneEnd == AuthoritySpec => []OneLiveAttempt
  <1>1. AuthorityInv => OneLiveAttempt
    <2> SUFFICES ASSUME AuthorityInv, outages.unlinked = 0,
                        NEW k \in RequestKeys
                 PROVE  /\ Cardinality(Live(k)) <= 1
                        /\ \A c \in Attempts(k) :
                              conversions[c].status = "succeeded"
                                 => c \in Live(k)
      BY DEF OneLiveAttempt, LinksAreKept
    <2>1. Live(k) = {} \/ \E c : Live(k) = {c}
      BY DEF AuthorityInv, OneLive
    <2>2. Cardinality(Live(k)) <= 1
      <3>1. CASE Live(k) = {}
        BY <3>1, FS_EmptySet
      <3>2. ASSUME NEW c, Live(k) = {c} PROVE Cardinality(Live(k)) = 1
        BY <3>2, FS_Singleton
      <3> QED
        BY <2>1, <3>1, <3>2
    <2>3. \A c \in Attempts(k) :
             conversions[c].status = "succeeded" => c \in Live(k)
      BY DEF AuthorityInv, SupersededHasFailed, Live, Attempts
    <2> QED
      BY <2>2, <2>3
  <1> QED
    BY <1>1, AuthorityInvariant, PTL

(* The converter of a job runs once in a process, however many tasks wait  *)
(* for it (complete_conversion_job).                                       *)
THEOREM ConvertsOnce == AuthoritySpec => []ConvertedOnce
  <1>1. AuthorityInv => ConvertedOnce
    <2> SUFFICES ASSUME AuthorityInv, NEW c \in ConversionIds
                 PROVE  executed[c] <= 1 + outages.all
      BY DEF ConvertedOnce
    <2>1. executed[c] \in Nat /\ outages.all \in Nat
      BY DEF AuthorityInv, AuthorityTypeOK
    <2>2. CASE c \in Created
      BY <2>1, <2>2 DEF AuthorityInv, RunsBounded
    <2>3. CASE c \notin Created
      BY <2>1, <2>3 DEF AuthorityInv, Untouched
    <2> QED
      BY <2>2, <2>3
  <1> QED
    BY <1>1, AuthorityInvariant, PTL

=============================================================================

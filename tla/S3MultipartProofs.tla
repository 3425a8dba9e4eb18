-------------------------- MODULE S3MultipartProofs --------------------------
(***************************************************************************)
(* The checkpoint of a multipart upload never claims a part the provider's *)
(* session does not hold: for every size, chunk size, page length and      *)
(* number of faults, outages, expiries and intrusions.  Nothing that has   *)
(* arrived is sent again, if a page lists all parts.  And where the        *)
(* service never changes its chunk_size, every object it completes is the  *)
(* whole bag, and the session with all its calls is one transfer to the    *)
(* worker.                                                                 *)
(***************************************************************************)
EXTENDS S3Multipart, FiniteSetTheorems, TLAPS

\* Calls made only while the bag has a row in s3_multipart_uploads.
WithSession == {"list", "gone", "send", "complete", "ambiguous", "refused", "confirm"}

\* An attempt that ends in an exception leaves its row queued or failed.
LEMMA WaysOut ==
  Defer \/ Count \/ Fail \/ Translated \/ Untyped \/ Locked => pc' \in {"waiting", "failed"}
BY DEF Defer, Count, Fail, Translated, Untyped, Locked

\* The part rows belong to a session's row: without it there are none (the cascade
\* of clear_multipart), and a new session starts without any.
Owned ==
  /\ ~session => parts = NoParts
  /\ pc = "open" => ~session
  /\ pc \in WithSession => session

CheckpointInv == Owned /\ CheckpointHeld

LEMMA InitCheckpoint == Init => CheckpointInv
BY DEF Init, CheckpointInv, Owned, WithSession, CheckpointHeld

\* What list_parts and the size comparison leave is part of what was held.
LEMMA ReusableIsHeld ==
  ASSUME NEW n \in DOMAIN Reusable
  PROVE  n \in DOMAIN held /\ Reusable[n] = held[n]
<1>1. DOMAIN Reusable \subseteq DOMAIN Listed
      /\ \A k \in DOMAIN Reusable : Reusable[k] = Listed[k]
  BY DEF Reusable, Restrict
<1>2. DOMAIN Listed \subseteq DOMAIN held
      /\ \A k \in DOMAIN Listed : Listed[k] = held[k]
  BY DEF Listed, Restrict
<1> QED BY <1>1, <1>2

\* Every way of ending the session's row leaves no part row behind.
LEMMA ClearedCheckpoint ==
  ASSUME ClearMultipart, pc' \notin WithSession \cup {"open"}
  PROVE  CheckpointInv'
BY DEF ClearMultipart, CheckpointInv, Owned, CheckpointHeld

\* A step that leaves the checkpoint alone, and of the session takes nothing but
\* all of it.
LEMMA SameCheckpoint ==
  ASSUME CheckpointInv, UNCHANGED Checkpoint, held' \in {held, NoSession},
         pc' \in WithSession => session, pc' # "open"
  PROVE  CheckpointInv'
BY DEF CheckpointInv, Owned, CheckpointHeld, Checkpoint

LEMMA StepCheckpoint == CheckpointInv /\ [Next]_vars => CheckpointInv'
<1> SUFFICES ASSUME CheckpointInv, [Next]_vars
             PROVE  CheckpointInv'
  OBVIOUS
<1>1. CASE Retry
  BY <1>1, SameCheckpoint DEF Retry, Remote, WithSession
<1>2. CASE Inspect
  <2>1. CASE Succeed
    BY <2>1, WaysOut, ClearedCheckpoint DEF Succeed, WithSession
  <2>2. CASE ~Succeed
    <3>1. UNCHANGED Checkpoint /\ UNCHANGED held
      BY <1>2, <2>2 DEF Inspect, Remote
    <3>2. (pc' \in WithSession => session) /\ (pc' = "open" => ~session)
      BY <1>2, <2>2, WaysOut DEF Inspect, WithSession
    <3> QED BY <3>1, <3>2 DEF CheckpointInv, Owned, CheckpointHeld, Checkpoint
  <2> QED BY <2>1, <2>2
<1>3. CASE Open
  <2>1. CASE session' = TRUE /\ UNCHANGED parts /\ held' = NoParts /\ pc' = "list"
    BY <1>3, <2>1 DEF Open, CheckpointInv, Owned, CheckpointHeld, NoParts, WithSession
  <2>2. CASE Untyped /\ UNCHANGED <<held, Checkpoint>>
    BY <2>2, WaysOut, SameCheckpoint DEF WithSession
  <2> QED BY <1>3, <2>1, <2>2 DEF Open
<1>4. CASE List
  <2>1. CASE parts' = Reusable /\ pc' = "send"
    <3>1. UNCHANGED <<held, session>> /\ session
      BY <1>4 DEF List, Remote, CheckpointInv, Owned, WithSession
    <3>2. CheckpointHeld'
      BY <2>1, <3>1, ReusableIsHeld DEF CheckpointHeld
    <3> QED BY <2>1, <3>1, <3>2 DEF CheckpointInv, Owned, WithSession
  <2>2. CASE UNCHANGED parts
    BY <1>4, <2>2, WaysOut, SameCheckpoint
       DEF List, Remote, Checkpoint, CheckpointInv, Owned, WithSession
  <2> QED BY <1>4, <2>1, <2>2 DEF List
<1>5. CASE SessionGone
  <2>1. CASE ClearMultipart
    BY <1>5, <2>1, WaysOut, ClearedCheckpoint
       DEF SessionGone, Succeed, DropSession, WithSession
  <2>2. CASE UNCHANGED Checkpoint /\ pc' \in {"conflict", "waiting", "failed"}
    BY <1>5, <2>2, SameCheckpoint DEF SessionGone, Remote, WithSession
  <2> QED BY <1>5, <2>1, <2>2, WaysOut DEF SessionGone, Succeed, DropSession
<1>6. ASSUME NEW n \in AllParts, Send(n)
      PROVE  CheckpointInv'
  <2> DEFINE With(table) ==
               [k \in DOMAIN table \cup {n} |-> IF k = n THEN Data(n) ELSE table[k]]
  <2>1. session /\ UNCHANGED session /\ n \notin DOMAIN parts
    BY <1>6 DEF Send, Unsent, CheckpointInv, Owned, WithSession
  <2>2. pc' \in {"send", "waiting", "failed"}
    BY <1>6, WaysOut DEF Send
  <2>3. CASE held # NoSession /\ held' = With(held) /\ parts' \in {With(parts), parts}
    <3>1. \A k \in DOMAIN parts : k \in DOMAIN held /\ held[k] = parts[k]
      BY <2>1, <2>3 DEF CheckpointInv, CheckpointHeld
    <3>2. n \in DOMAIN held' /\ held'[n] = Data(n)
      BY <2>3
    <3>3. \A k \in DOMAIN parts : k \in DOMAIN held' /\ held'[k] = parts[k]
      BY <2>1, <2>3, <3>1
    <3>4. CASE parts' = parts
      BY <2>1, <2>2, <3>3, <3>4 DEF CheckpointInv, Owned, CheckpointHeld, WithSession
    <3>5. CASE parts' = With(parts)
      <4>1. \A k \in DOMAIN parts' : k \in DOMAIN held' /\ held'[k] = parts'[k]
        BY <3>2, <3>3, <3>5
      <4> QED BY <2>1, <2>2, <4>1 DEF CheckpointInv, Owned, CheckpointHeld, WithSession
    <3> QED BY <2>3, <3>4, <3>5
  <2>4. CASE UNCHANGED <<held, parts>>
    BY <2>1, <2>2, <2>4, SameCheckpoint DEF Checkpoint, WithSession
  <2> QED BY <1>6, <2>3, <2>4 DEF Send
<1>7. CASE AllSent
  BY <1>7, SameCheckpoint DEF AllSent, Remote, CheckpointInv, Owned, WithSession
<1>8. CASE Complete
  BY <1>8, WaysOut, SameCheckpoint DEF Complete, Unanswered, Remote, CheckpointInv, Owned, WithSession
<1>9. CASE LookAgain
  BY <1>9, WaysOut, SameCheckpoint DEF LookAgain, Remote, CheckpointInv, Owned, WithSession
<1>10. CASE Confirm
  <2>1. CASE Succeed
    BY <2>1, WaysOut, ClearedCheckpoint DEF Succeed, WithSession
  <2>2. CASE UNCHANGED Checkpoint /\ pc' \in {"waiting", "failed"}
    BY <1>10, <2>2, SameCheckpoint DEF Confirm, Remote, WithSession
  <2> QED BY <1>10, <2>1, <2>2, WaysOut DEF Confirm
<1>11. CASE Die \/ Crash
  BY <1>11, SameCheckpoint DEF Die, Crash, Remote, WithSession
<1>12. CASE Restart \/ Requeue
  BY <1>12, SameCheckpoint DEF Restart, Requeue, Remote, WithSession
<1>13. CASE Expire
  BY <1>13 DEF Expire, Checkpoint, CheckpointInv, Owned, CheckpointHeld
<1>14. CASE Intrude
  BY <1>14 DEF Intrude, Checkpoint, CheckpointInv, Owned, CheckpointHeld
<1>15. CASE UNCHANGED vars
  BY <1>15 DEF vars, CheckpointInv, Owned, CheckpointHeld
<1> QED
  BY <1>1, <1>2, <1>3, <1>4, <1>5, <1>6, <1>7, <1>8, <1>9, <1>10, <1>11, <1>12, <1>13,
     <1>14, <1>15 DEF Next, Attempt

\* As long as the provider has the session, the checkpoint never counts a part the
\* session does not hold (replace_parts, upsert_part, clear_multipart).
THEOREM CheckpointSound == Spec => []CheckpointHeld
<1>1. Init => CheckpointInv
  BY InitCheckpoint
<1>2. CheckpointInv /\ [Next]_vars => CheckpointInv'
  BY StepCheckpoint
<1>3. CheckpointInv => CheckpointHeld
  BY DEF CheckpointInv
<1> QED BY <1>1, <1>2, <1>3, PTL DEF Spec

-----------------------------------------------------------------------------
(* Types.                                                                  *)

\* The part size is positive, whichever of the three it is.
LEMMA PartSizePositive ==
  ASSUME NEW c \in Chunks
  PROVE  EffectivePartSize(Size, c) \in Nat \ {0}
<1> DEFINE least == CeilDiv(Size, MaxParts)
<1>1. least \in Nat /\ MinPart \in Nat \ {0} /\ c \in Nat \ {0}
  BY MultipartAssumption DEF CeilDiv
<1> HIDE DEF least
<1>2. \E m \in {MinPart, c, least} : m >= MinPart /\ m >= c /\ m >= least
  BY <1>1
<1>3. /\ EffectivePartSize(Size, c) \in {MinPart, c, least}
      /\ EffectivePartSize(Size, c) >= MinPart
  BY <1>2 DEF EffectivePartSize, least
<1> QED
  BY <1>1, <1>3

LEMMA TableDomain ==
  ASSUME NEW t \in PartTables
  PROVE  DOMAIN t \subseteq AllParts /\ t \in [DOMAIN t -> Slices]
BY DEF PartTables

LEMMA TableOf ==
  ASSUME NEW N \in SUBSET AllParts, NEW t \in [N -> Slices]
  PROVE  t \in PartTables
BY DEF PartTables

LEMMA RestrictTable ==
  ASSUME NEW t \in PartTables, NEW N \in SUBSET DOMAIN t
  PROVE  Restrict(t, N) \in PartTables
<1>1. DOMAIN t \subseteq AllParts /\ t \in [DOMAIN t -> Slices]
  BY TableDomain
<1>2. Restrict(t, N) \in [N -> Slices]
  BY <1>1 DEF Restrict
<1> QED
  BY <1>1, <1>2, TableOf

LEMMA NoPartsTable == NoParts \in PartTables
<1>1. NoParts \in [{} -> Slices]
  BY DEF NoParts
<1> QED
  BY <1>1, TableOf

LEMMA ReusableTable ==
  ASSUME held \in PartTables PROVE Reusable \in PartTables
<1>1. Listed \in PartTables
  BY RestrictTable DEF Listed
<1> QED
  BY <1>1, RestrictTable DEF Reusable

\* The slice of the next part, put into a table.
LEMMA WithTable ==
  ASSUME chunk \in Chunks, NEW n \in Numbers(PartSize), NEW t \in PartTables
  PROVE  [k \in DOMAIN t \cup {n} |-> IF k = n THEN Data(n) ELSE t[k]] \in PartTables
<1>1. PartSize \in PartSizes
  BY DEF PartSize, PartSizes
<1>2. n \in AllParts /\ Data(n) \in Slices
  BY <1>1 DEF AllParts, Slices, Data
<1>3. DOMAIN t \subseteq AllParts /\ t \in [DOMAIN t -> Slices]
  BY TableDomain
<1>4. [k \in DOMAIN t \cup {n} |-> IF k = n THEN Data(n) ELSE t[k]]
        \in [DOMAIN t \cup {n} -> Slices]
  BY <1>2, <1>3
<1> QED
  BY <1>2, <1>3, <1>4, TableOf

LEMMA StepType == TypeOK /\ [Next]_vars => TypeOK'
<1> SUFFICES ASSUME TypeOK, [Next]_vars PROVE TypeOK'
  OBVIOUS
<1> USE DEF Stages, Ends
<1>s. ASSUME NEW k \in {"fault", "refusal", "outage", "expiry", "intrusion"}, Spend(k)
      PROVE  spent' \in [Kinds -> Nat]
  BY <1>s DEF TypeOK, Spend, Kinds
<1>f. NoFault => retries' \in Nat /\ spent' \in [Kinds -> Nat]
  BY DEF TypeOK, NoFault
<1>d. Defer \/ Count \/ Fail => retries' \in Nat
  BY DEF TypeOK, Defer, Count, Fail
<1>e. Translated \/ Untyped \/ Locked => retries' \in Nat /\ spent' \in [Kinds -> Nat]
  BY <1>s, <1>d DEF Translated, Untyped, Locked, Fault
<1>b. Unanswered => retries' \in Nat /\ spent' \in [Kinds -> Nat] /\ pc' \in Stages
  BY <1>s DEF Unanswered, Fault, TypeOK
<1>g. UNCHANGED spent => spent' \in [Kinds -> Nat]
  BY DEF TypeOK
<1>v. Succeed => /\ session' \in BOOLEAN /\ parts' \in PartTables
                 /\ retries' \in Nat /\ spent' \in [Kinds -> Nat]
                 /\ pc' \in {"done", "waiting", "failed"}
  BY <1>e, <1>f, NoPartsTable, WaysOut DEF Succeed, ClearMultipart
<1>c. ClearMultipart => session' \in BOOLEAN /\ parts' \in PartTables
  BY NoPartsTable DEF ClearMultipart
<1>k. UNCHANGED Checkpoint => session' \in BOOLEAN /\ parts' \in PartTables
  BY DEF TypeOK, Checkpoint
<1>r. UNCHANGED Remote => /\ object' \in PartTables \cup {Nothing, Foreign}
                          /\ held' \in PartTables \cup {NoSession}
  BY DEF TypeOK, Remote
<1>h. UNCHANGED chunk => chunk' \in Chunks
  BY DEF TypeOK
<1>1. CASE Retry
  BY <1>1 DEF Retry, Remote, Checkpoint, TypeOK
<1>2. CASE Inspect
  BY <1>2, <1>e, <1>f, <1>k, <1>r, <1>h, <1>v, WaysOut DEF Inspect, TypeOK
<1>3. CASE Open
  BY <1>3, <1>e, <1>f, <1>k, <1>h, NoPartsTable, WaysOut DEF Open, TypeOK
<1>4. CASE List
  <2>1. held # NoSession => Reusable \in PartTables
    BY ReusableTable DEF TypeOK
  <2> QED
    BY <1>4, <1>e, <1>f, <1>r, <1>h, <2>1, WaysOut DEF List, TypeOK
<1>5. CASE SessionGone
  BY <1>5, <1>c, <1>d, <1>e, <1>f, <1>g, <1>k, <1>r, <1>h, <1>v, WaysOut
     DEF SessionGone, DropSession, TypeOK
<1>6. ASSUME NEW n \in AllParts, Send(n) PROVE TypeOK'
  <2> DEFINE With(table) ==
               [k \in DOMAIN table \cup {n} |-> IF k = n THEN Data(n) ELSE table[k]]
  <2>1. n \in Numbers(PartSize)
    BY <1>6 DEF Send, Unsent, Expected
  <2>2. With(parts) \in PartTables /\ (held # NoSession => With(held) \in PartTables)
    BY <2>1, WithTable DEF TypeOK
  <2>3. /\ UNCHANGED <<object, session, chunk>>
        /\ NoFault \/ Untyped \/ (Count /\ UNCHANGED spent)
        /\ pc' \in {pc, "waiting", "failed"}
        /\ held' = held \/ (held # NoSession /\ held' = With(held))
        /\ parts' \in {parts, With(parts)}
    BY <1>6, WaysOut DEF Send
  <2> HIDE DEF With
  <2>4. retries' \in Nat /\ spent' \in [Kinds -> Nat]
    BY <1>d, <1>e, <1>f, <1>g, <2>3
  <2> QED
    BY <2>2, <2>3, <2>4 DEF TypeOK
<1>7. CASE AllSent
  BY <1>7 DEF AllSent, Remote, Checkpoint, TypeOK
<1>8. CASE Complete
  BY <1>8, <1>b, <1>e, <1>f, <1>k, <1>r, <1>h, WaysOut DEF Complete, TypeOK
<1>9. CASE LookAgain
  BY <1>9, <1>d, <1>e, <1>f, <1>g, <1>k, <1>r, <1>h, WaysOut DEF LookAgain, TypeOK
<1>10. CASE Confirm
  BY <1>10, <1>d, <1>e, <1>g, <1>k, <1>r, <1>h, <1>v, WaysOut DEF Confirm, TypeOK
<1>11. CASE Die \/ Crash
  BY <1>11, <1>s, <1>k, <1>r, <1>h DEF Die, Crash, Fault, TypeOK
<1>12. CASE Restart \/ Requeue
  BY <1>12, <1>s, <1>k, <1>r DEF Restart, Requeue, TypeOK
<1>13. CASE Expire
  BY <1>13, <1>s, <1>k DEF Expire, TypeOK
<1>14. CASE Intrude
  BY <1>14, <1>s, <1>k DEF Intrude, TypeOK
<1>15. CASE UNCHANGED vars
  BY <1>15 DEF vars, TypeOK
<1> QED
  BY <1>1, <1>2, <1>3, <1>4, <1>5, <1>6, <1>7, <1>8, <1>9, <1>10, <1>11, <1>12, <1>13,
     <1>14, <1>15 DEF Next, Attempt

LEMMA InitType == Init => TypeOK
<1> SUFFICES ASSUME Init PROVE TypeOK
  OBVIOUS
<1>1. object \in PartTables \cup {Nothing, Foreign} /\ held \in PartTables \cup {NoSession}
  BY DEF Init
<1>2. parts \in PartTables /\ session \in BOOLEAN /\ chunk \in Chunks
  BY NoPartsTable DEF Init
<1>3. retries \in Nat /\ spent \in [Kinds -> Nat]
  BY DEF Init
<1> QED
  BY <1>1, <1>2, <1>3 DEF Init, TypeOK, Stages, Ends

\* Every row and every listed part is a slice the bag has at some part size, whatever
\* sizes the restarts bring (upload_entry, s3.py:84).
THEOREM TypeCorrect == Spec => []TypeOK
BY InitType, StepType, PTL DEF Spec

-----------------------------------------------------------------------------
(* Whole objects.                                                          *)

\* The service is never started with another chunk_size.
OneChunk == \A c, d \in Chunks : c = d

\* Rows and listings hold slices of the one part size, under their own numbers.
Uniform(t, ps) == \A n \in DOMAIN t : n \in Numbers(ps) /\ t[n] = Slice(n, ps)

WholeInv ==
  /\ held # NoSession => Uniform(held, PartSize)
  /\ Uniform(parts, PartSize)
  /\ pc = "complete" => DOMAIN parts = Numbers(PartSize)
  /\ object \notin {Nothing, Foreign} => object = Expected(PartSize)

\* The last part ends where the bag ends, and those before it are full.
LEMMA Ceiling ==
  ASSUME NEW a \in Nat \ {0}, NEW b \in Nat \ {0}
  PROVE  /\ CeilDiv(a, b) \in Nat \ {0}
         /\ (CeilDiv(a, b) - 1) * b < a /\ a <= CeilDiv(a, b) * b
<1> DEFINE k == (a + b - 1) \div b
<1>1. k \in Int /\ k * b <= a + b - 1 /\ a + b - 1 < (k + 1) * b
  BY Z3
<1> HIDE DEF k
<1>2. (k + 1) * b = k * b + b /\ (k - 1) * b = k * b - b
  BY <1>1, Z3
<1>3. k * b > 0
  BY <1>1, <1>2
<1>4. k > 0
  BY <1>1, <1>3, Z3
<1>5. k \in Nat \ {0} /\ (k - 1) * b < a /\ a <= k * b
  BY <1>1, <1>2, <1>4
<1> QED
  BY <1>5 DEF CeilDiv, k

LEMMA FullBefore ==
  ASSUME NEW ps \in Nat \ {0}, NEW last \in Nat \ {0}, (last - 1) * ps < Size,
         Size \in Nat, NEW n \in 1 .. last - 1
  PROVE  n * ps < Size
<1> DEFINE rest == last - 1 - n
<1>1. rest \in Nat /\ last - 1 = n + rest
  OBVIOUS
<1>2. (last - 1) * ps = n * ps + rest * ps
  BY <1>1, Z3
<1>3. rest * ps >= 0 /\ rest * ps \in Int /\ n * ps \in Int
  BY <1>1, Z3
<1> HIDE DEF rest
<1> QED
  BY <1>2, <1>3

LEMMA SliceFacts ==
  ASSUME NEW n, NEW ps
  PROVE  /\ Slice(n, ps).from = (n - 1) * ps
         /\ Slice(n, ps).length
              = IF ps < Size - (n - 1) * ps THEN ps ELSE Size - (n - 1) * ps
BY DEF Slice

\* The parts of a bag, put one after another, are the bag.
LEMMA ExpectedIsWhole ==
  ASSUME NEW ps \in Nat \ {0}
  PROVE  LET t == Expected(ps)
             last == Cardinality(DOMAIN t)
         IN  /\ DOMAIN t = 1 .. last
             /\ t[1].from = 0
             /\ \A n \in 1 .. last - 1 : t[n + 1].from = t[n].from + t[n].length
             /\ t[last].from + t[last].length = Size
<1> DEFINE t == Expected(ps)
           last == CeilDiv(Size, ps)
<1>1. Size \in Nat \ {0}
  BY MultipartAssumption
<1>2. last \in Nat \ {0} /\ (last - 1) * ps < Size /\ Size <= last * ps
  BY <1>1, Ceiling
<1>3. DOMAIN t = 1 .. last
      /\ \A n \in 1 .. last : t[n] = Slice(n, ps)
  BY DEF Expected, Numbers
<1> HIDE DEF t, last
<1>4. Cardinality(1 .. last) = last
  BY <1>2, FS_Interval
<1>5. t[1].from = 0
  BY <1>2, <1>3 DEF Slice
<1>6. ASSUME NEW n \in 1 .. last - 1
      PROVE  t[n + 1].from = t[n].from + t[n].length
  <2>1. n * ps < Size
    BY <1>1, <1>2, <1>6, FullBefore
  <2>2. n * ps = (n - 1) * ps + ps /\ (n - 1) * ps \in Int
    BY <1>6, Z3
  <2>3. n \in 1 .. last /\ n + 1 \in 1 .. last /\ n + 1 - 1 = n
    BY <1>2, <1>6
  <2>4. t[n + 1].from = n * ps
    BY <1>3, <2>3, SliceFacts
  <2>5. t[n].from = (n - 1) * ps
        /\ t[n].length = IF ps < Size - (n - 1) * ps THEN ps ELSE Size - (n - 1) * ps
    BY <1>3, <2>3, SliceFacts
  <2>6. t[n].length = ps
    BY <1>1, <2>1, <2>2, <2>5
  <2> QED
    BY <2>2, <2>4, <2>5, <2>6
<1>7. t[last].from + t[last].length = Size
  <2>1. last * ps = (last - 1) * ps + ps /\ (last - 1) * ps \in Int
    BY <1>2, Z3
  <2>2. t[last].from = (last - 1) * ps /\ t[last].length = Size - (last - 1) * ps
    BY <1>1, <1>2, <1>3, <2>1 DEF Slice
  <2> QED
    BY <1>1, <2>1, <2>2
<1>8. Cardinality(DOMAIN t) = last
  BY <1>3, <1>4
<1> QED
  BY <1>3, <1>5, <1>6, <1>7, <1>8 DEF t

LEMMA StepWhole ==
  ASSUME OneChunk, TypeOK, TypeOK', WholeInv, [Next]_vars
  PROVE  WholeInv'
<1>c. chunk' = chunk
  BY DEF OneChunk, TypeOK
<1>p. PartSize' = PartSize
  BY <1>c DEF PartSize
<1> DEFINE ps == PartSize
<1>i. /\ held # NoSession => Uniform(held, ps)
      /\ Uniform(parts, ps)
      /\ pc = "complete" => DOMAIN parts = Numbers(ps)
      /\ object \notin {Nothing, Foreign} => object = Expected(ps)
  BY DEF WholeInv
<1>u. ASSUME held' # NoSession => Uniform(held', ps), Uniform(parts', ps),
             pc' = "complete" => DOMAIN parts' = Numbers(ps),
             object' \notin {Nothing, Foreign} => object' = Expected(ps)
      PROVE  WholeInv'
  BY <1>p, <1>u DEF WholeInv
<1>n. Uniform(NoParts, ps)
  BY DEF NoParts, Uniform
<1> HIDE DEF ps
<1>s. UNCHANGED <<object, held, parts>> /\ pc' # "complete" => WholeInv'
  BY <1>i, <1>u
<1>z. UNCHANGED <<object, held>> /\ ClearMultipart /\ pc' # "complete" => WholeInv'
  BY <1>i, <1>n, <1>u DEF ClearMultipart
<1>1. CASE Retry
  BY <1>1, <1>s DEF Retry, Remote, Checkpoint
<1>2. CASE Inspect
  BY <1>2, <1>s, <1>z, WaysOut DEF Inspect, Succeed, Remote, Checkpoint
<1>3. CASE Open
  <2>1. UNCHANGED <<object, parts>> /\ pc' # "complete" /\ held' \in {held, NoParts}
    BY <1>3, WaysOut DEF Open, Checkpoint
  <2> QED
    BY <1>i, <1>n, <1>u, <2>1
<1>4. CASE List
  <2>1. CASE held # NoSession /\ parts' = Reusable
    <3>1. \A n \in DOMAIN Reusable : n \in DOMAIN held /\ Reusable[n] = held[n]
      BY ReusableIsHeld
    <3>2. Uniform(parts', ps)
      BY <1>i, <2>1, <3>1 DEF Uniform
    <3> QED
      BY <1>4, <1>i, <1>u, <2>1, <3>2, WaysOut DEF List, Remote
  <2>2. CASE UNCHANGED parts
    BY <1>4, <1>s, <2>2, WaysOut DEF List, Remote
  <2> QED
    BY <1>4, <2>1, <2>2 DEF List
<1>5. CASE SessionGone
  BY <1>5, <1>s, <1>z, WaysOut DEF SessionGone, Succeed, DropSession, Remote, Checkpoint
<1>6. ASSUME NEW n \in AllParts, Send(n) PROVE WholeInv'
  <2> DEFINE With(table) ==
               [k \in DOMAIN table \cup {n} |-> IF k = n THEN Data(n) ELSE table[k]]
  <2>1. n \in Numbers(ps) /\ Data(n) = Slice(n, ps)
    BY <1>6 DEF Send, Unsent, Expected, Data, ps
  <2>2. ASSUME NEW t, Uniform(t, ps) PROVE Uniform(With(t), ps)
    BY <2>1, <2>2 DEF Uniform
  <2>3. /\ UNCHANGED object /\ pc' # "complete"
        /\ held' = held \/ (held # NoSession /\ held' = With(held))
        /\ parts' \in {parts, With(parts)}
    BY <1>6, WaysOut DEF Send
  <2> HIDE DEF With
  <2>4. Uniform(parts', ps)
    BY <1>i, <2>2, <2>3
  <2>5. held' # NoSession => Uniform(held', ps)
    BY <1>i, <2>2, <2>3
  <2> QED
    BY <1>i, <1>u, <2>3, <2>4, <2>5
<1>7. CASE AllSent
  <2>1. UNCHANGED <<object, held, parts>> /\ Numbers(ps) \subseteq DOMAIN parts
    BY <1>7 DEF AllSent, Remote, Checkpoint, Unsent, Expected, ps
  <2>2. DOMAIN parts = Numbers(ps)
    BY <1>i, <2>1 DEF Uniform
  <2> QED
    BY <1>i, <1>u, <2>1, <2>2
<1>8. CASE Complete
  <2>1. DOMAIN parts = Numbers(ps) /\ UNCHANGED parts
    BY <1>8, <1>i DEF Complete, Checkpoint
  <2>2. CASE object' = parts /\ held' = NoSession /\ pc' # "complete"
    <3>1. parts = [n \in DOMAIN parts |-> parts[n]]
      BY TableDomain DEF TypeOK
    <3>2. parts = Expected(ps)
      BY <1>i, <2>1, <3>1 DEF Uniform, Expected
    <3> QED
      BY <1>i, <1>u, <2>1, <2>2, <3>2
  <2>3. CASE UNCHANGED Remote /\ pc' # "complete"
    BY <1>s, <2>1, <2>3 DEF Remote
  <2> QED
    BY <1>8, <2>2, <2>3, WaysOut DEF Complete, Unanswered
<1>9. CASE LookAgain
  BY <1>9, <1>s, WaysOut DEF LookAgain, Remote, Checkpoint
<1>10. CASE Confirm
  BY <1>10, <1>s, <1>z, WaysOut DEF Confirm, Succeed, Remote, Checkpoint
<1>11. CASE Die \/ Crash
  BY <1>11, <1>s DEF Die, Crash, Remote, Checkpoint
<1>12. CASE Restart \/ Requeue
  BY <1>12, <1>s DEF Restart, Requeue, Remote, Checkpoint
<1>13. CASE Expire
  BY <1>13, <1>i, <1>u DEF Expire, Checkpoint
<1>14. CASE Intrude
  BY <1>14, <1>i, <1>u DEF Intrude, Checkpoint
<1>15. CASE UNCHANGED vars
  BY <1>15, <1>i, <1>u DEF vars
<1> QED
  BY <1>1, <1>2, <1>3, <1>4, <1>5, <1>6, <1>7, <1>8, <1>9, <1>10, <1>11, <1>12, <1>13,
     <1>14, <1>15 DEF Next, Attempt

\* Where the service keeps its chunk_size, an object it completes is the whole bag, for
\* every size of bag, part and page and whatever was lost, listed again or expired
\* (upload_entry, s3.py:70).
THEOREM ObjectsWhole == ASSUME OneChunk PROVE Spec => []ObjectIsWhole
<1>1. Init => TypeOK /\ WholeInv
  <2>1. Init => WholeInv
    BY DEF Init, WholeInv, NoParts, Uniform
  <2> QED
    BY <2>1, InitType
<1>2. (TypeOK /\ WholeInv) /\ [Next]_vars => (TypeOK /\ WholeInv)'
  BY StepType, StepWhole
<1>3. TypeOK /\ WholeInv => ObjectIsWhole
  <2>1. ASSUME TypeOK PROVE PartSize \in Nat \ {0}
    BY <2>1, PartSizePositive DEF TypeOK, PartSize
  <2> QED
    BY <2>1, ExpectedIsWhole DEF WholeInv, ObjectIsWhole, Whole
<1> QED
  BY <1>1, <1>2, <1>3, PTL DEF Spec

-----------------------------------------------------------------------------
(* Nothing is sent twice.                                                  *)

\* list_parts answers with every part on its first page, the only one the code reads.
OnePage == AllParts \subseteq 1 .. ListLimit

\* What the session holds as this process would send it has its row.
KnownParts ==
  pc = "send" /\ held # NoSession =>
    \A n \in DOMAIN held :
      n \in Numbers(PartSize) /\ held[n] = Slice(n, PartSize) => n \in DOMAIN parts

LEMMA ListedAll ==
  ASSUME OnePage, held \in PartTables
  PROVE  DOMAIN Listed = DOMAIN held /\ \A n \in DOMAIN held : Listed[n] = held[n]
<1>1. DOMAIN held \subseteq 1 .. ListLimit /\ ListLimit \in Nat
  BY TableDomain, MultipartAssumption DEF OnePage
<1>2. IsFiniteSet(1 .. ListLimit) /\ Cardinality(1 .. ListLimit) <= ListLimit
  BY <1>1, FS_Interval
<1>3. ASSUME NEW n \in DOMAIN held
      PROVE  Cardinality({k \in DOMAIN held : k <= n}) <= ListLimit
  <2> DEFINE T == {k \in DOMAIN held : k <= n}
  <2>1. T \in SUBSET (1 .. ListLimit)
    BY <1>1
  <2> HIDE DEF T
  <2>2. IsFiniteSet(T) /\ Cardinality(T) <= Cardinality(1 .. ListLimit)
    BY <1>2, <2>1, FS_Subset
  <2>3. Cardinality(T) \in Nat /\ Cardinality(1 .. ListLimit) \in Nat
    BY <1>2, <2>2, FS_CardinalityType
  <2>4. Cardinality(T) <= ListLimit
    BY <1>1, <1>2, <2>2, <2>3
  <2> QED
    BY <2>4 DEF T
<1>4. {n \in DOMAIN held : Cardinality({k \in DOMAIN held : k <= n}) <= ListLimit} = DOMAIN held
  BY <1>3
<1> QED
  BY <1>4 DEF Listed, Restrict

\* What list_parts shows of the parts this process would send is kept.
LEMMA ReusedAll ==
  ASSUME OnePage, held \in PartTables,
         NEW n \in DOMAIN held, n \in Numbers(PartSize), held[n] = Slice(n, PartSize)
  PROVE  n \in DOMAIN Reusable
<1>1. n \in DOMAIN Listed /\ Listed[n] = held[n]
  BY ListedAll
<1>2. n \in DOMAIN Expected(PartSize) /\ Expected(PartSize)[n] = Slice(n, PartSize)
  BY DEF Expected
<1> QED
  BY <1>1, <1>2 DEF Reusable, Restrict

LEMMA StepKnown ==
  ASSUME OnePage, TypeOK, KnownParts, [Next]_vars
  PROVE  KnownParts'
<1> SUFFICES ASSUME pc' = "send", held' # NoSession,
                    NEW n \in DOMAIN held',
                    n \in Numbers(PartSize'), held'[n] = Slice(n, PartSize')
             PROVE  n \in DOMAIN parts'
  BY DEF KnownParts, Slice, Numbers, CeilDiv
<1>1. CASE List
  <2>1. held # NoSession /\ parts' = Reusable /\ UNCHANGED <<held, chunk>>
    BY <1>1, WaysOut DEF List, Remote
  <2>2. held \in PartTables /\ PartSize' = PartSize
    BY <2>1 DEF TypeOK, PartSize
  <2> QED
    BY <2>1, <2>2, ReusedAll
<1>2. ASSUME NEW m \in AllParts, Send(m) PROVE n \in DOMAIN parts'
  <2> DEFINE With(table) ==
               [k \in DOMAIN table \cup {m} |-> IF k = m THEN Data(m) ELSE table[k]]
  <2>1. /\ pc = "send" /\ held # NoSession /\ held' = With(held) /\ parts' = With(parts)
        /\ UNCHANGED chunk
    BY <1>2, WaysOut DEF Send
  <2>2. PartSize' = PartSize
    BY <2>1 DEF PartSize
  <2>3. CASE n = m
    BY <2>1, <2>3
  <2>4. CASE n # m
    <3>1. n \in DOMAIN held /\ held[n] = Slice(n, PartSize)
      BY <2>1, <2>2, <2>4
    <3>2. n \in DOMAIN parts
      BY <2>1, <2>2, <3>1 DEF KnownParts
    <3> QED
      BY <2>1, <3>2
  <2> QED
    BY <2>3, <2>4
<1>3. CASE Expire
  BY <1>3 DEF Expire
<1>4. CASE Intrude \/ UNCHANGED vars
  <2>1. UNCHANGED <<pc, held, parts, chunk>>
    BY <1>4 DEF Intrude, Checkpoint, vars
  <2>2. PartSize' = PartSize
    BY <2>1 DEF PartSize
  <2> QED
    BY <2>1, <2>2 DEF KnownParts
<1>5. CASE \/ Retry \/ Inspect \/ Open \/ SessionGone \/ AllSent \/ Complete \/ LookAgain \/ Confirm
           \/ Die \/ Crash \/ Restart \/ Requeue
  BY <1>5, WaysOut
  DEF Retry, Inspect, Open, SessionGone, AllSent, Complete, Unanswered, LookAgain, Confirm,
      Die, Crash, Restart, Requeue, Succeed, DropSession
<1> QED
  BY <1>1, <1>2, <1>3, <1>4, <1>5 DEF Next, Attempt

\* No part that has reached the session is sent to it again, across lost answers, rows that
\* could not be written, crashes and changes of chunk_size, as long as one page lists all
\* parts (upload_entry, s3.py:84-98).
THEOREM NothingSentTwice == ASSUME OnePage PROVE Spec => NoRetransmission
<1>1. OnePage
  OBVIOUS
<1>2. Init => KnownParts
  BY DEF Init, KnownParts
<1>3. TypeOK /\ KnownParts /\ [Next]_vars => KnownParts'
  BY <1>1, StepKnown
<1>4. KnownParts /\ [Next]_vars =>
        [\A n \in AllParts :
           Send(n) => (held = NoSession \/ n \notin DOMAIN held
                       \/ held[n] # Slice(n, PartSize))]_vars
  <2> SUFFICES ASSUME KnownParts, NEW n \in AllParts, Send(n)
               PROVE  held = NoSession \/ n \notin DOMAIN held \/ held[n] # Slice(n, PartSize)
    OBVIOUS
  <2>1. pc = "send" /\ n \in Numbers(PartSize) /\ n \notin DOMAIN parts
    BY DEF Send, Unsent, Expected
  <2> QED
    BY <2>1 DEF KnownParts
<1> QED
  BY <1>2, <1>3, <1>4, InitType, StepType, PTL DEF Spec, NoRetransmission

-----------------------------------------------------------------------------
(* Session, parts and checkpoint are one call.                             *)

\* While parts are sent nothing of the bag is under the key: what the HEAD request before
\* them saw has not changed, but for what another client may have put there.
NothingYet ==
  pc \in {"open", "list", "gone", "send", "complete"} => object \in {Nothing, Foreign}

LEMMA StepNothing == NothingYet /\ [Next]_vars => NothingYet'
<1> SUFFICES ASSUME NothingYet, [Next]_vars PROVE NothingYet'
  OBVIOUS
<1>1. CASE Inspect
  BY <1>1, WaysOut DEF Inspect, NothingYet, Remote, Succeed
<1>2. CASE Open \/ List \/ SessionGone \/ (\E n \in AllParts : Send(n)) \/ AllSent
  BY <1>2, WaysOut DEF Open, List, SessionGone, Send, AllSent, NothingYet, Remote, Succeed, DropSession
<1>3. CASE Complete \/ Retry \/ LookAgain \/ Confirm \/ Die \/ Crash \/ Restart \/ Requeue
  BY <1>3, WaysOut
  DEF Complete, Unanswered, Retry, LookAgain, Confirm, Die, Crash, Restart, Requeue, NothingYet, Succeed
<1>4. CASE Expire \/ Intrude \/ UNCHANGED vars
  BY <1>4 DEF Expire, Intrude, vars, NothingYet
<1> QED
  BY <1>1, <1>2, <1>3, <1>4 DEF Next, Attempt

LEMMA Quotient ==
  ASSUME NEW k \in Nat, NEW ps \in Nat \ {0}
  PROVE  /\ k \div ps \in Nat /\ (k \div ps) * ps \in Nat
         /\ k - (k \div ps) * ps \in 0 .. ps - 1
<1> DEFINE q == k \div ps
<1>1. q \in Int /\ q >= 0 /\ q * ps <= k /\ k < (q + 1) * ps
  BY Z3
<1> HIDE DEF q
<1>2. q * ps \in Nat /\ (q + 1) * ps = q * ps + ps
  BY <1>1, Z3
<1>3. q \in Nat /\ q * ps \in Nat /\ k - q * ps \in 0 .. ps - 1
  BY <1>1, <1>2
<1> QED
  BY <1>3 DEF q

LEMMA QuotientUnique ==
  ASSUME NEW ps \in Nat \ {0}, NEW p \in Nat, NEW q \in Nat,
         NEW i \in 0 .. ps - 1, NEW j \in 0 .. ps - 1, p * ps + i = q * ps + j
  PROVE  p = q /\ i = j
<1>1. ASSUME NEW a \in Nat, NEW b \in Nat, a < b PROVE b * ps >= a * ps + ps
  <2>1. PICK c \in Nat : b = a + 1 + c
    <3>1. b - a - 1 \in Nat /\ b = a + 1 + (b - a - 1)
      BY <1>1
    <3> QED
      BY <3>1
  <2>2. b * ps = a * ps + ps + c * ps /\ c * ps >= 0 /\ a * ps \in Int /\ c * ps \in Int
    BY <2>1, Z3
  <2> QED
    BY <2>2
<1>2. p * ps \in Int /\ q * ps \in Int
  BY Z3
<1>3. ~(p < q) /\ ~(q < p)
  BY <1>1, <1>2
<1> QED
  BY <1>2, <1>3

\* Byte k of the bag is byte k - (k \div ps) * ps of part k \div ps + 1, and the parts have no
\* others: the lengths of the parts of a bag add up to its size.
LEMMA ExpectedTotal ==
  ASSUME NEW ps \in Nat \ {0}
  PROVE  Total(Expected(ps)) = Size
<1> DEFINE B == Bytes(Expected(ps))
           last == CeilDiv(Size, ps)
           f == [k \in 0 .. Size - 1 |-> <<k \div ps + 1, k - (k \div ps) * ps>>]
<1>1. Size \in Nat \ {0}
  BY MultipartAssumption
<1>2. last \in Nat \ {0} /\ (last - 1) * ps < Size /\ Size <= last * ps
  BY <1>1, Ceiling
<1>3. B = {b \in (1 .. last) \X (0 .. Size - 1) : b[2] < Slice(b[1], ps).length}
  BY DEF Bytes, Expected, Numbers
<1> HIDE DEF last, B
<1>4. ASSUME NEW n \in 1 .. last, NEW r \in Nat
      PROVE  r < Slice(n, ps).length <=> r < ps /\ (n - 1) * ps + r < Size
  <2>1. (n - 1) * ps \in Int
    BY <1>2, Z3
  <2> QED
    BY <1>1, <2>1, SliceFacts
<1>5. ASSUME NEW k \in 0 .. Size - 1 PROVE f[k] \in B
  <2> DEFINE q == k \div ps
             r == k - q * ps
  <2>1. k \in Nat
    BY <1>1
  <2>2. q \in Nat /\ q * ps \in Nat /\ r \in 0 .. ps - 1
    BY <2>1, Quotient
  <2>3. f[k] = <<q + 1, r>>
    OBVIOUS
  <2>4. k = q * ps + r
    <3> HIDE DEF q
    <3> QED
      BY <2>1, <2>2
  <2> HIDE DEF q, r, f
  <2>5. q < last
    <3>1. CASE q >= last
      <4>1. PICK c \in Nat : q = last + c
        <5> DEFINE c == q - last
        <5>1. c \in Nat /\ q = last + c
          BY <1>2, <2>2, <3>1
        <5> HIDE DEF c
        <5> QED
          BY <5>1
      <4>2. q * ps = last * ps + c * ps /\ c * ps >= 0 /\ c * ps \in Int /\ last * ps \in Int
        BY <1>2, <4>1, Z3
      <4> QED
        BY <1>1, <1>2, <2>2, <2>4, <4>2
    <3> QED
      BY <1>2, <2>2, <3>1
  <2>6. q + 1 \in 1 .. last /\ (q + 1) - 1 = q
    BY <1>2, <2>2, <2>5
  <2>7. r \in 0 .. Size - 1 /\ r < Slice(q + 1, ps).length
    BY <1>1, <1>4, <2>2, <2>4, <2>6
  <2> QED
    BY <1>3, <2>3, <2>6, <2>7
<1>6. ASSUME NEW j \in 0 .. Size - 1, NEW k \in 0 .. Size - 1, f[j] = f[k] PROVE j = k
  <2> DEFINE p == j \div ps
             q == k \div ps
  <2>1. j \in Nat /\ k \in Nat /\ p + 1 = q + 1 /\ j - p * ps = k - q * ps
    BY <1>1, <1>6
  <2>2. p \in Nat /\ q \in Nat /\ p * ps \in Nat /\ q * ps \in Nat
    BY <2>1, Quotient
  <2> HIDE DEF p, q
  <2>3. p = q
    BY <2>1, <2>2
  <2> QED
    BY <2>1, <2>2, <2>3
<1>7. ASSUME NEW b \in B PROVE \E k \in 0 .. Size - 1 : f[k] = b
  <2> DEFINE k == (b[1] - 1) * ps + b[2]
  <2>1. b[1] \in 1 .. last /\ b[2] \in 0 .. Size - 1 /\ b = <<b[1], b[2]>>
        /\ b[2] < Slice(b[1], ps).length
    BY <1>3
  <2>2. b[1] - 1 \in Nat /\ (b[1] - 1) * ps \in Nat
    BY <1>2, <2>1, Z3
  <2>3. b[2] \in 0 .. ps - 1 /\ k \in 0 .. Size - 1
    BY <1>1, <1>4, <2>1, <2>2
  <2>4. b[1] - 1 = k \div ps /\ b[2] = k - (k \div ps) * ps
    <3>1. k \in Nat /\ k = (b[1] - 1) * ps + b[2]
      BY <1>1, <2>3
    <3> HIDE DEF k
    <3>2. /\ k \div ps \in Nat /\ k - (k \div ps) * ps \in 0 .. ps - 1 /\ (k \div ps) * ps \in Nat
      BY <3>1, Quotient
    <3> DEFINE p == b[1] - 1
               q == k \div ps
               i == b[2]
               j == k - (k \div ps) * ps
    <3>3. /\ p \in Nat /\ q \in Nat /\ i \in 0 .. ps - 1 /\ j \in 0 .. ps - 1
          /\ p * ps + i = q * ps + j
      BY <2>2, <2>3, <3>1, <3>2
    <3> HIDE DEF p, q, i, j
    <3>4. p = q /\ i = j
      BY <3>3, QuotientUnique
    <3> QED
      BY <3>4 DEF p, q, i, j
  <2> HIDE DEF k
  <2>5. f[k] = b
    BY <1>2, <2>1, <2>3, <2>4
  <2> QED
    BY <2>3, <2>5
<1>8. ExistsBijection(0 .. Size - 1, B)
  <2>1. f \in [0 .. Size - 1 -> B]
    BY <1>5
  <2> HIDE DEF f
  <2> QED
    BY <1>6, <1>7, <2>1 DEF ExistsBijection, Bijection, Injection, IsInjective, Surjection
<1>9. IsFiniteSet(0 .. Size - 1) /\ Cardinality(0 .. Size - 1) = Size
  BY <1>1, FS_Interval
<1>10. Cardinality(B) = Cardinality(0 .. Size - 1)
  BY <1>8, <1>9, FS_Bijection
<1> QED
  BY <1>9, <1>10 DEF Total, B

\* An object is absent, of another client, or the whole bag, and the HEAD request tells
\* which.
LEMMA ObjectCases ==
  ASSUME TypeOK, WholeInv
  PROVE  \/ object = Nothing /\ StoredObject = "nothing" /\ ~Identical
         \/ object = Foreign /\ StoredObject = "other" /\ ~Identical
         \/ object \notin {Nothing, Foreign} /\ StoredObject = "bag" /\ Identical
<1>1. PartSize \in Nat \ {0}
  BY PartSizePositive DEF TypeOK, PartSize
<1>2. object \notin {Nothing, Foreign} => Whole(object) /\ Total(object) = Size
  BY <1>1, ExpectedIsWhole, ExpectedTotal DEF WholeInv, Whole
<1> QED
  BY <1>2, ObjectAssumption DEF StoredObject, Identical

\* The same of the state after a step.
LEMMA StoredAfter ==
  ASSUME TypeOK', WholeInv'
  PROVE  /\ object' = Nothing => StoredObject' = "nothing"
         /\ object' = Foreign => StoredObject' = "other"
         /\ object' \notin {Nothing, Foreign} => StoredObject' = "bag"
<1>1. PartSize' \in Nat \ {0}
  BY PartSizePositive DEF TypeOK, PartSize
<1>2. object' \notin {Nothing, Foreign} => Whole(object')
  BY <1>1, ExpectedIsWhole DEF WholeInv, Whole
<1> QED
  BY <1>2, ObjectAssumption DEF StoredObject

LEMMA StepAtomic ==
  ASSUME TypeOK, TypeOK', WholeInv, WholeInv', NothingYet, [Next]_vars
  PROVE  [Call!Next]_<<StoredObject, StageOfCall>>
<1> DEFINE s == StoredObject
           g == StageOfCall
           t == StoredObject'
           h == StageOfCall'
           Waits == {"waiting", "dead", "down"}
           Looks == {"ambiguous", "refused"}
           Sends == {"open", "list", "gone", "send", "complete"}
<1>1. /\ object = Nothing => s = "nothing" /\ ~Identical
      /\ object = Foreign => s = "other" /\ ~Identical
      /\ object \notin {Nothing, Foreign} => s = "bag" /\ Identical
  BY ObjectCases, ObjectAssumption
<1>2. /\ object' = Nothing => t = "nothing"
      /\ object' = Foreign => t = "other"
      /\ object' \notin {Nothing, Foreign} => t = "bag"
  BY StoredAfter
<1>3. /\ pc \in Waits => g = "waiting"
      /\ pc \in Sends => g = "transfer"
      /\ pc \in Looks => g = "confirm"
      /\ pc \in {"inspect", "confirm", "done", "conflict", "failed"} => g = pc
  BY DEF StageOfCall
<1>4. /\ pc' \in Waits => h = "waiting"
      /\ pc' \in Sends => h = "transfer"
      /\ pc' \in Looks => h = "confirm"
      /\ pc' \in {"inspect", "confirm", "done", "conflict", "failed"} => h = pc'
  BY DEF StageOfCall
<1>5. object' = object => t = s
  BY DEF StoredObject, Whole
<1>6. pc' = pc => h = g
  BY DEF StageOfCall
<1>7. Foreign # Nothing
  BY ObjectAssumption
<1> HIDE DEF s, g, t, h
<1>g. ASSUME t = s, g \in {"inspect", "transfer", "confirm"}, h \in {"waiting", "failed"}
      PROVE  Call!Next
  BY <1>g DEF Call!Next, Call!GiveUp, Call!Go, s, t, g, h
<1>i. ASSUME t = s, g = "inspect",
             \/ s = "nothing" /\ h = "transfer"
             \/ s = "bag" /\ h = "done"
             \/ s = "other" /\ h = "conflict"
      PROVE  Call!Next
  BY <1>i DEF Call!Next, Call!Inspect, Call!Go, s, t, g, h
<1>t. ASSUME g = "transfer", h = "confirm", s # "bag", t = "bag" \/ t = s
      PROVE  Call!Next
  BY <1>t DEF Call!Next, Call!Transfer, Call!Doubt, Call!Go, s, t, g, h
<1>n. ASSUME t = "other", h = g
      PROVE  Call!Next
  BY <1>n DEF Call!Next, Call!Intrude, s, t, g, h
<1>u. ASSUME t = s, h = g
      PROVE  UNCHANGED <<StoredObject, StageOfCall>>
  BY <1>u DEF s, t, g, h
<1>8. CASE Retry
  <2>1. t = s /\ g = "waiting" /\ h = "inspect"
    BY <1>8, <1>3, <1>4, <1>5 DEF Retry, Remote
  <2> QED
    BY <2>1 DEF Call!Next, Call!Retry, Call!Go, s, t, g, h
<1>9. CASE Inspect
  <2>1. t = s /\ g = "inspect"
    BY <1>9, <1>3, <1>5 DEF Inspect, Remote
  <2>2. CASE pc' \in {"waiting", "failed"}
    BY <1>g, <1>4, <2>1, <2>2
  <2>3. CASE pc' \notin {"waiting", "failed"}
    <3>1. \/ Identical /\ pc' = "done"
          \/ ~Identical /\ object # Nothing /\ pc' = "conflict"
          \/ object = Nothing /\ pc' \in {"list", "open"}
      BY <1>9, <2>3, WaysOut DEF Inspect, Succeed
    <3>2. \/ s = "nothing" /\ h = "transfer"
          \/ s = "bag" /\ h = "done"
          \/ s = "other" /\ h = "conflict"
      BY <1>1, <1>4, <3>1
    <3> QED
      BY <1>i, <2>1, <3>2
  <2> QED
    BY <2>2, <2>3
<1>10. CASE Open \/ List \/ (\E n \in AllParts : Send(n)) \/ AllSent
  <2>1. t = s /\ g = "transfer"
    BY <1>10, <1>3, <1>5 DEF Open, List, Send, AllSent, Remote
  <2>2. h \in {"transfer", "waiting", "failed"}
    BY <1>10, <1>3, <1>4, <2>1, WaysOut DEF Open, List, Send, AllSent
  <2> QED
    BY <1>g, <1>u, <2>1, <2>2
<1>11. CASE SessionGone
  <2>1. t = s /\ g = "transfer" /\ ~Identical
    BY <1>11, <1>1, <1>3, <1>5 DEF SessionGone, Remote, NothingYet
  <2>2. CASE pc' \in {"waiting", "failed"}
    BY <1>g, <1>4, <2>1, <2>2
  <2>3. CASE pc' \notin {"waiting", "failed"}
    <3>1. object # Nothing /\ pc' = "conflict"
      BY <1>11, <2>1, <2>3, WaysOut DEF SessionGone, DropSession
    <3>2. s = "other" /\ h = "conflict"
      BY <1>1, <1>4, <2>1, <3>1
    <3> QED
      BY <2>1, <3>2 DEF Call!Next, Call!Yield, Call!Go, s, t, g, h
  <2> QED
    BY <2>2, <2>3
<1>12. CASE Complete
  <2>1. g = "transfer" /\ s # "bag"
    BY <1>12, <1>1, <1>3 DEF Complete, NothingYet
  <2>2. CASE Locked /\ UNCHANGED Remote
    BY <1>g, <1>4, <1>5, <2>1, <2>2, WaysOut DEF Remote
  <2>3. CASE ~(Locked /\ UNCHANGED Remote)
    <3>1. h = "confirm" /\ (object' = parts \/ object' = object)
      BY <1>12, <1>4, <2>3 DEF Complete, Unanswered, Remote
    <3>2. object' = parts => t = "bag"
      BY <1>2, ObjectAssumption DEF TypeOK
    <3> QED
      BY <1>5, <1>t, <2>1, <3>1, <3>2
  <2> QED
    BY <2>2, <2>3
<1>13. CASE LookAgain
  <2>1. t = s /\ g = "confirm" /\ h \in {"confirm", "waiting", "failed"}
    BY <1>13, <1>3, <1>4, <1>5, WaysOut DEF LookAgain, Remote
  <2> QED
    BY <1>g, <1>u, <2>1
<1>14. CASE Confirm
  <2>1. t = s /\ g = "confirm"
    BY <1>14, <1>3, <1>5 DEF Confirm, Remote
  <2>2. CASE pc' \in {"waiting", "failed"}
    BY <1>g, <1>4, <2>1, <2>2
  <2>3. CASE pc' \notin {"waiting", "failed"}
    <3>1. Identical /\ pc' = "done"
      BY <1>14, <2>3, WaysOut DEF Confirm, Succeed
    <3>2. s = "bag" /\ h = "done"
      BY <1>1, <1>4, <3>1
    <3> QED
      BY <2>1, <3>2 DEF Call!Next, Call!Confirm, Call!Go, s, t, g, h
  <2> QED
    BY <2>2, <2>3
<1>15. CASE Die \/ Crash
  <2>1. t = s /\ g \in {"waiting", "inspect", "transfer", "confirm"} /\ h = "waiting"
    BY <1>15, <1>3, <1>4, <1>5 DEF Die, Crash, Remote, Ends, TypeOK, Stages
  <2> QED
    BY <1>g, <1>u, <2>1
<1>16. CASE Restart \/ Expire \/ UNCHANGED vars
  BY <1>16, <1>3, <1>4, <1>5, <1>6, <1>u DEF Restart, Expire, Remote, vars
<1>17. CASE Requeue
  <2>1. t = s /\ g = "failed" /\ h = "waiting"
    BY <1>17, <1>3, <1>4, <1>5 DEF Requeue, Remote
  <2> QED
    BY <2>1 DEF Call!Next, Call!Requeue, Call!Go, s, t, g, h
<1>18. CASE Intrude
  BY <1>18, <1>2, <1>6, <1>7, <1>n DEF Intrude
<1> QED
  BY <1>8, <1>9, <1>10, <1>11, <1>12, <1>13, <1>14, <1>15, <1>16, <1>17, <1>18 DEF Next, Attempt

\* Where the service keeps its chunk_size, session, parts, checkpoint, lost answers, expiries
\* and restarts together do what the single calls of the worker do that UploadPool makes of
\* them (upload_entry): a step of the protocol is one of those calls or invisible.
THEOREM CallIsAtomic == ASSUME OneChunk PROVE Spec => UploadIsAtomic
<1>1. Init => TypeOK /\ WholeInv /\ NothingYet
  <2>1. Init => WholeInv /\ NothingYet
    BY DEF Init, WholeInv, NoParts, Uniform, NothingYet
  <2> QED
    BY <2>1, InitType
<1>2. (TypeOK /\ WholeInv /\ NothingYet) /\ [Next]_vars => (TypeOK /\ WholeInv /\ NothingYet)'
  BY StepType, StepWhole, StepNothing
<1>3. Init => Call!Init
  BY ObjectAssumption DEF Init, Call!Init, StoredObject, StageOfCall
<1>4. (TypeOK /\ WholeInv /\ NothingYet) /\ (TypeOK /\ WholeInv /\ NothingYet)' /\ [Next]_vars
        => [Call!Next]_<<StoredObject, StageOfCall>>
  BY StepAtomic
<1> QED
  BY <1>1, <1>2, <1>3, <1>4, PTL DEF Spec, UploadIsAtomic, Call!Spec

=============================================================================

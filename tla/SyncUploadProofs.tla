-------------------------- MODULE SyncUploadProofs --------------------------
(***************************************************************************)
(* Theorems about SyncUpload for any number of computers, mutations,       *)
(* retries, restored backups and replaced computers.                       *)
(***************************************************************************)
EXTENDS SyncUpload, FiniteSetTheorems, TLAPS

-----------------------------------------------------------------------------
\* No two envelopes of a set are of one mutation.
OneEach(envelopes) == \A e, f \in envelopes : e.id = f.id => e = f

\* What every profile, restored ones included, keeps of its outbox.
WellFormed(p) ==
  /\ p \in Profile
  /\ IsFiniteSet(p.mutations) /\ IsFiniteSet(p.outbox)
  /\ OneEach(p.outbox)
  /\ Ids(p.outbox) \subseteq Ids(p.mutations) \ p.uploaded

\* A batch on its way.
GoodBatch(batch) == batch \subseteq Envelope /\ IsFiniteSet(batch) /\ OneEach(batch)

\* The rows are numbered 1, 2, ..., one of each mutation.
RowsSound(table) ==
  /\ table \subseteq Stored
  /\ IsFiniteSet(table)
  /\ \A r \in table : 1 <= r.sequence /\ r.sequence <= Cardinality(table)
  /\ \A r, s \in table : r.envelope.id = s.envelope.id \/ r.sequence = s.sequence => r = s

IInv ==
  /\ TypeOK
  /\ \A c \in Computer : WellFormed(profile[c])
  /\ backup # None => WellFormed(backup)
  /\ \A r \in requests : GoodBatch(r.batch)
  /\ RowsSound(rows)
  /\ PushSound
  /\ AcknowledgedIsStored

-----------------------------------------------------------------------------
(* Profiles *)

\* A new profile.
LEMMA EmptyWellFormed == WellFormed(EmptyProfile)
BY FS_EmptySet DEF WellFormed, EmptyProfile, Profile, OneEach, Ids

\* A profile after one more mutation.
LEMMA RecordWellFormed ==
  ASSUME NEW p, WellFormed(p), NEW m \in Mutation
  PROVE  WellFormed([p EXCEPT !.mutations = @ \cup {m}])
<1> DEFINE q == [p EXCEPT !.mutations = @ \cup {m}]
<1>1. q \in Profile /\ q.mutations = p.mutations \cup {m} /\ q.outbox = p.outbox
        /\ q.uploaded = p.uploaded
  BY DEF WellFormed, Profile
<1>2. IsFiniteSet(q.mutations)
  BY <1>1, FS_AddElement DEF WellFormed
<1>3. Ids(p.mutations) \subseteq Ids(q.mutations)
  BY <1>1 DEF Ids
<1> QED
  BY <1>1, <1>2, <1>3 DEF WellFormed

\* A profile that is bound to an identity and connected.
LEMMA ConnectWellFormed ==
  ASSUME NEW p, WellFormed(p), NEW d \in Nat
  PROVE  /\ WellFormed([Rebound(p, d) EXCEPT !.connected = d])
         /\ [Rebound(p, d) EXCEPT !.connected = d].uploaded = p.uploaded
<1> DEFINE q == [Rebound(p, d) EXCEPT !.connected = d]
<1>1. q \in Profile /\ q.mutations = p.mutations /\ q.uploaded = p.uploaded
        /\ (q.outbox = p.outbox \/ q.outbox = {})
  BY DEF WellFormed, Rebound, Profile
<1>2. CASE q.outbox = p.outbox
  BY <1>1, <1>2 DEF WellFormed
<1>3. CASE q.outbox = {}
  BY <1>1, <1>3, FS_EmptySet DEF WellFormed, OneEach, Ids
<1> QED
  BY <1>1, <1>2, <1>3

\* A profile after its batch was acknowledged.
LEMMA AcknowledgedWellFormed ==
  ASSUME NEW p, WellFormed(p), NEW batch \in SUBSET Envelope
  PROVE  /\ WellFormed(Acknowledged(p, batch))
         /\ Acknowledged(p, batch).uploaded = p.uploaded \cup Ids(batch)
<1> DEFINE q == Acknowledged(p, batch)
<1>1. q \in Profile /\ q.mutations = p.mutations /\ q.uploaded = p.uploaded \cup Ids(batch)
        /\ q.outbox = {e \in p.outbox : e.id \notin Ids(batch)}
  <2>1. Ids(batch) \subseteq Nat
    BY DEF Ids, Envelope
  <2> HIDE DEF q
  <2>2. q = [p EXCEPT !.uploaded = p.uploaded \cup Ids(batch),
                      !.outbox = {e \in p.outbox : e.id \notin Ids(batch)}]
    BY DEF q, Acknowledged
  <2> QED
    BY <2>1, <2>2 DEF WellFormed, Profile
<1>2. IsFiniteSet(q.outbox)
  BY <1>1, FS_Subset DEF WellFormed
<1> QED
  BY <1>1, <1>2 DEF WellFormed, OneEach, Ids

\* The batch a push sends, and the profile it leaves: the conjuncts of Push.
LEMMA PushWellFormed ==
  ASSUME NEW p, WellFormed(p), p.device \in Nat, NEW nonce \in Nonce, ToSend(p) # {},
         NEW saved, saved = Reusable(p),
         NEW new, new = {[id |-> m.id, device |-> p.device, nonce |-> nonce] :
                           m \in {n \in ToSend(p) : n.id \notin Ids(saved)}},
         NEW kept, kept = {e \in p.outbox : e.id \notin Ids(new)}
  PROVE  /\ GoodBatch(saved \cup new)
         /\ saved \cup new # {}
         /\ WellFormed([p EXCEPT !.outbox = kept \cup new])
<1> DEFINE T == {n \in ToSend(p) : n.id \notin Ids(saved)}
           f == [m \in T |-> [id |-> m.id, device |-> p.device, nonce |-> nonce]]
           q == [p EXCEPT !.outbox = kept \cup new]
<1>1. ToSend(p) \subseteq p.mutations /\ (\A m \in ToSend(p) : m.id \notin p.uploaded)
  BY DEF ToSend, Oldest, Pending
<1>2. saved \subseteq p.outbox
  BY DEF Reusable
<1>3. p.mutations \subseteq Mutation /\ p.outbox \subseteq Envelope
  BY DEF WellFormed, Profile
<1>4. new \subseteq Envelope
  BY <1>1, <1>3 DEF Envelope, Mutation
<1>5. IsFiniteSet(new)
  <2>1. IsFiniteSet(T)
    BY <1>1, FS_Subset DEF WellFormed
  <2>2. f \in Surjection(T, new)
    BY DEF Surjection
  <2> QED
    BY <2>1, <2>2, FS_Surjection
<1>6. IsFiniteSet(saved) /\ IsFiniteSet(kept)
  BY <1>2, FS_Subset DEF WellFormed
<1>7. OneEach(new)
  BY DEF OneEach
<1>8. Ids(new) = Ids(T)
  <2>1. \A m \in T : f[m] \in new /\ f[m].id = m.id
    OBVIOUS
  <2>2. \A e \in new : e.id \in Ids(T)
    BY DEF Ids
  <2> HIDE DEF T, f
  <2> QED
    BY ONLY <2>1, <2>2 DEF Ids
<1>9. OneEach(saved \cup new)
  BY <1>2, <1>7, <1>8 DEF OneEach, WellFormed, Ids
<1>10. OneEach(kept \cup new)
  BY <1>7 DEF OneEach, WellFormed, Ids
<1>11. IsFiniteSet(saved \cup new) /\ IsFiniteSet(kept \cup new)
  BY <1>5, <1>6, FS_Union
<1>12. saved \cup new # {}
  <2>1. PICK m \in ToSend(p) : TRUE
    OBVIOUS
  <2>2. CASE m.id \in Ids(saved)
    BY <2>2 DEF Ids
  <2>3. CASE m.id \notin Ids(saved)
    BY <2>3
  <2> QED
    BY <2>2, <2>3
<1>13. q \in Profile /\ q.mutations = p.mutations /\ q.uploaded = p.uploaded
         /\ q.outbox = kept \cup new
  BY <1>3, <1>4 DEF WellFormed, Profile
<1>14. Ids(kept \cup new) \subseteq Ids(p.mutations) \ p.uploaded
  BY <1>1, <1>8 DEF Ids, WellFormed
<1>15. GoodBatch(saved \cup new)
  BY <1>2, <1>3, <1>4, <1>9, <1>11 DEF GoodBatch
<1>16. WellFormed(q)
  BY <1>10, <1>11, <1>13, <1>14 DEF WellFormed
<1> QED
  BY <1>12, <1>15, <1>16

-----------------------------------------------------------------------------
(* The table *)

\* pushMutations appends: new rows come after the old ones, no two share a
\* sequence or a mutation, and the whole batch is stored.
LEMMA AppendedSound ==
  ASSUME NEW table, table = rows, RowsSound(table), NEW batch, GoodBatch(batch)
  PROVE  /\ RowsSound(table \cup Appended(batch))
         /\ Ids(batch) \subseteq Ids({r.envelope : r \in table \cup Appended(batch)})
         /\ \A r \in table, s \in Appended(batch) : r.sequence < s.sequence
         /\ \A r, s \in Appended(batch) : r.envelope.id < s.envelope.id => r.sequence < s.sequence
         /\ \A r \in Appended(batch) : r.envelope \in batch
<1> DEFINE N    == Cardinality(table)
           M    == Missing(batch)
           Upto(e) == {f \in M : f.id <= e.id}
           rank == [e \in M |-> Cardinality(Upto(e))]
           row  == [e \in M |-> [sequence |-> N + rank[e], envelope |-> e]]
           new  == Appended(batch)
<1>1. M \subseteq batch /\ M \subseteq Envelope /\ IsFiniteSet(M) /\ OneEach(M)
  <2>1. M \subseteq batch
    BY DEF Missing
  <2> QED
    BY <2>1, FS_Subset DEF GoodBatch, OneEach
<1>2. N \in Nat /\ Cardinality(M) \in Nat
  BY <1>1, FS_CardinalityType DEF RowsSound
<1>3. new = {row[e] : e \in M}
  BY DEF Appended
<1>4. \A e \in M : rank[e] \in Nat /\ 1 <= rank[e] /\ rank[e] <= Cardinality(M)
  <2> TAKE e \in M
  <2>1. Upto(e) \subseteq M /\ e \in Upto(e)
    BY <1>1 DEF Envelope
  <2>2. IsFiniteSet(Upto(e)) /\ Cardinality(Upto(e)) <= Cardinality(M)
    BY <1>1, <2>1, FS_Subset
  <2>3. Cardinality(Upto(e)) \in Nat /\ Cardinality(Upto(e)) # 0
    BY <2>1, <2>2, FS_CardinalityType, FS_EmptySet
  <2> QED
    BY <2>2, <2>3
<1>5. \A e, g \in M : e.id < g.id => rank[e] < rank[g]
  <2> SUFFICES ASSUME NEW e \in M, NEW g \in M, e.id < g.id
               PROVE  rank[e] < rank[g]
    OBVIOUS
  <2>1. Upto(e) \subseteq Upto(g) /\ g \in Upto(g) /\ g \notin Upto(e)
    BY <1>1 DEF Envelope
  <2>2. IsFiniteSet(Upto(g))
    BY <1>1, FS_Subset
  <2>3. Cardinality(Upto(e)) <= Cardinality(Upto(g)) /\ Cardinality(Upto(e)) # Cardinality(Upto(g))
    BY <2>1, <2>2, FS_Subset
  <2> QED
    BY <1>4, <2>3
<1>6. \A e, g \in M : rank[e] = rank[g] => e = g
  <2> SUFFICES ASSUME NEW e \in M, NEW g \in M, rank[e] = rank[g]
               PROVE  e = g
    OBVIOUS
  <2>1. e.id \in Nat /\ g.id \in Nat
    BY <1>1 DEF Envelope
  <2>2. ~(e.id < g.id) /\ ~(g.id < e.id)
    BY <1>4, <1>5
  <2> QED
    BY <1>1, <2>1, <2>2 DEF OneEach
<1> HIDE DEF rank
<1>7. \A e \in M : row[e].sequence = N + rank[e] /\ row[e].envelope = e /\ row[e] \in Stored
  BY <1>1, <1>2, <1>4 DEF Stored
<1> HIDE DEF row
<1>8. /\ IsFiniteSet(new)
      /\ Cardinality(new) = Cardinality(M)
  <2>1. row \in [M -> new]
    BY <1>3 DEF row
  <2>2. row \in Surjection(M, new)
    BY <1>3, <2>1 DEF Surjection
  <2>3. row \in Injection(M, new)
    BY <1>7, <2>1 DEF Injection, IsInjective
  <2> QED
    BY <1>1, <2>2, <2>3, FS_Surjection
<1>9. \A r \in table, s \in new : r.sequence < s.sequence /\ r.envelope.id # s.envelope.id
  <2> SUFFICES ASSUME NEW r \in table, NEW e \in M
               PROVE  r.sequence < row[e].sequence /\ r.envelope.id # row[e].envelope.id
    BY <1>3
  <2>1. r.sequence \in Nat /\ r.sequence <= N
    BY DEF RowsSound, Stored
  <2>2. r.envelope.id # e.id
    BY DEF Missing, StoredEnvelopes, Ids
  <2> QED
    BY <1>2, <1>4, <1>7, <2>1, <2>2
<1>10. IsFiniteSet(table \cup new) /\ Cardinality(table \cup new) = N + Cardinality(M)
  <2>1. table \cap new = {}
    BY <1>9 DEF RowsSound, Stored
  <2>2. IsFiniteSet(table) /\ Cardinality(table \cap new) = 0
    BY <2>1, FS_EmptySet DEF RowsSound
  <2>3. /\ IsFiniteSet(table \cup new)
        /\ Cardinality(table \cup new) = Cardinality(table) + Cardinality(new) - Cardinality(table \cap new)
    BY <1>8, <2>2, FS_Union
  <2> QED
    BY ONLY <1>2, <1>8, <2>2, <2>3
<1>11. \A r \in table \cup new : 1 <= r.sequence /\ r.sequence <= N + Cardinality(M)
  <2>1. \A e \in M : 1 <= row[e].sequence /\ row[e].sequence <= N + Cardinality(M)
    BY <1>2, <1>4, <1>7
  <2>2. \A r \in table : 1 <= r.sequence /\ r.sequence <= N + Cardinality(M)
    BY <1>2 DEF RowsSound, Stored
  <2> QED
    BY <1>3, <2>1, <2>2
<1>12. \A r, s \in new : r.envelope.id = s.envelope.id \/ r.sequence = s.sequence => r = s
  <2> SUFFICES ASSUME NEW e \in M, NEW g \in M,
                      row[e].envelope.id = row[g].envelope.id \/ row[e].sequence = row[g].sequence
               PROVE  e = g
    BY <1>3
  <2>1. CASE row[e].envelope.id = row[g].envelope.id
    BY <1>1, <1>7, <2>1 DEF OneEach
  <2>2. CASE row[e].sequence = row[g].sequence
    BY <1>2, <1>4, <1>6, <1>7, <2>2
  <2> QED
    BY <2>1, <2>2
<1>13. \A r, s \in table \cup new : r.envelope.id = s.envelope.id \/ r.sequence = s.sequence => r = s
  <2> SUFFICES ASSUME NEW r \in table \cup new, NEW s \in table \cup new,
                      r.envelope.id = s.envelope.id \/ r.sequence = s.sequence
               PROVE  r = s
    OBVIOUS
  <2>1. CASE r \in table /\ s \in table
    BY <2>1 DEF RowsSound
  <2>2. CASE r \in new /\ s \in new
    BY <1>12, <2>2
  <2>3. ~(r \in table /\ s \in new) /\ ~(r \in new /\ s \in table)
    BY <1>3, <1>7, <1>9 DEF RowsSound, Stored
  <2> QED
    BY <2>1, <2>2, <2>3
<1>14. table \cup new \subseteq Stored
  BY <1>3, <1>7 DEF RowsSound
<1>15. RowsSound(table \cup new)
  <2> HIDE DEF new, N, M
  <2> QED
    BY ONLY <1>10, <1>11, <1>13, <1>14 DEF RowsSound
<1>16. Ids(batch) \subseteq Ids({r.envelope : r \in table \cup new})
  <2> SUFFICES ASSUME NEW e \in batch
               PROVE  \E r \in table \cup new : r.envelope.id = e.id
    BY DEF Ids
  <2>1. CASE e \in M
    BY <1>3, <1>7, <2>1
  <2>2. CASE e \notin M
    BY <2>2 DEF Missing, StoredEnvelopes, Ids
  <2> QED
    BY <2>1, <2>2
<1>17. \A r, s \in new : r.envelope.id < s.envelope.id => r.sequence < s.sequence
  BY <1>2, <1>3, <1>4, <1>5, <1>7
<1>18. \A r \in new : r.envelope \in batch
  BY <1>1, <1>3, <1>7
<1> QED
  BY <1>9, <1>15, <1>16, <1>17, <1>18

-----------------------------------------------------------------------------
(* The invariant *)

LEMMA InitInv == Init => IInv
<1> SUFFICES ASSUME Init PROVE IInv
  OBVIOUS
<1>1. EmptyProfile \in Profile /\ Ids(EmptyProfile.outbox) = {} /\ EmptyProfile.uploaded = {}
  BY DEF EmptyProfile, Profile, Ids
<1>2. TypeOK
  BY <1>1 DEF Init, TypeOK, Answer, Ids, EmptyProfile
<1>3. \A c \in Computer : WellFormed(profile[c])
  BY EmptyWellFormed DEF Init
<1>4. RowsSound(rows)
  BY FS_EmptySet DEF Init, RowsSound
<1>5. PushSound /\ AcknowledgedIsStored
  BY <1>1 DEF Init, PushSound, AcknowledgedIsStored
<1> QED
  BY <1>2, <1>3, <1>4, <1>5 DEF Init, IInv

\* One profile changes into a well-formed one, and the table does not.
LEMMA ProfileStep ==
  ASSUME IInv, NEW c \in Computer, NEW q, WellFormed(q),
         q.uploaded \subseteq Ids(StoredEnvelopes),
         profile' = [profile EXCEPT ![c] = q], rows' = rows
  PROVE  /\ profile' \in [Computer -> Profile]
         /\ \A d \in Computer : WellFormed(profile'[d])
         /\ \A d \in Computer : Ids(profile'[d].outbox) \subseteq Ids(profile'[d].mutations) \ profile'[d].uploaded
         /\ AcknowledgedIsStored'
<1>1. \A d \in Computer : profile'[d] = IF d = c THEN q ELSE profile[d]
  BY DEF IInv, TypeOK
<1>2. \A d \in Computer : WellFormed(profile'[d])
  BY <1>1 DEF IInv
<1>3. profile' \in [Computer -> Profile]
  BY <1>2 DEF IInv, TypeOK, WellFormed
<1>4. \A d \in Computer : profile'[d].uploaded \subseteq Ids(StoredEnvelopes)
  BY <1>1 DEF IInv, AcknowledgedIsStored
<1> QED
  BY <1>2, <1>3, <1>4 DEF WellFormed, AcknowledgedIsStored, StoredEnvelopes

\* A profile that is what it was, but for what its caller names.
LEMMA KnownProfile ==
  ASSUME IInv, NEW c \in Computer
  PROVE  WellFormed(profile[c]) /\ profile[c] \in Profile
           /\ profile[c].uploaded \subseteq Ids(StoredEnvelopes)
BY DEF IInv, WellFormed, AcknowledgedIsStored

LEMMA RecordInv ==
  ASSUME IInv, NEW c \in Computer, NEW replicated \in BOOLEAN, Record(c, replicated)
  PROVE  IInv'
<1> DEFINE m == [id |-> recorded + 1, replicated |-> replicated]
           q == [profile[c] EXCEPT !.mutations = @ \cup {m}]
<1>1. m \in Mutation /\ recorded' \in Nat
  BY DEF IInv, TypeOK, Record, Mutation
<1>2. WellFormed(q)
  BY <1>1, RecordWellFormed, KnownProfile
<1>3. q.uploaded \subseteq Ids(StoredEnvelopes)
  BY KnownProfile DEF Profile
<1>4. profile' = [profile EXCEPT ![c] = q] /\ rows' = rows
  BY DEF Record
<1> HIDE DEF q
<1> QED
  BY <1>1, <1>2, <1>3, <1>4, ProfileStep DEF Record, IInv, TypeOK, PushSound, StoredEnvelopes

LEMMA ProtectInv ==
  ASSUME IInv, NEW c \in Computer, Protect(c)
  PROVE  IInv'
BY DEF Protect, IInv, TypeOK, PushSound, AcknowledgedIsStored, StoredEnvelopes

LEMMA ConnectInv ==
  ASSUME IInv, NEW c \in Computer, Connect(c)
  PROVE  IInv'
<1> DEFINE q == [Rebound(profile[c], identity[c]) EXCEPT !.connected = identity[c]]
<1>1. identity[c] \in Nat
  BY DEF IInv, TypeOK, Connect
<1>2. WellFormed(q) /\ q.uploaded = profile[c].uploaded
  BY <1>1, ConnectWellFormed, KnownProfile
<1>3. profile' = [profile EXCEPT ![c] = q] /\ rows' = rows
  BY DEF Connect
<1> HIDE DEF q
<1> QED
  BY <1>2, <1>3, KnownProfile, ProfileStep DEF Connect, IInv, TypeOK, PushSound, StoredEnvelopes

LEMMA ExportInv ==
  ASSUME IInv, NEW c \in Computer, Export(c)
  PROVE  IInv'
BY KnownProfile DEF Export, IInv, TypeOK, PushSound, AcknowledgedIsStored, StoredEnvelopes

LEMMA RestoreInv ==
  ASSUME IInv, NEW c \in Computer, Restore(c)
  PROVE  IInv'
<1>1. WellFormed(backup) /\ backup.uploaded \subseteq Ids(StoredEnvelopes)
  BY DEF Restore, IInv, PushSound
<1>2. profile' = [profile EXCEPT ![c] = backup] /\ rows' = rows
  BY DEF Restore
<1>3. /\ profile' \in [Computer -> Profile]
      /\ \A d \in Computer : WellFormed(profile'[d])
      /\ \A d \in Computer : Ids(profile'[d].outbox) \subseteq Ids(profile'[d].mutations) \ profile'[d].uploaded
      /\ AcknowledgedIsStored'
  BY <1>1, <1>2, ProfileStep
<1> QED
  BY <1>1, <1>3 DEF Restore, IInv, TypeOK, PushSound, StoredEnvelopes

LEMMA PushInv ==
  ASSUME IInv, NEW c \in Computer, Push(c)
  PROVE  IInv'
<1> DEFINE p     == profile[c]
           saved == Reusable(p)
<1>1. PICK nonce \in Nonce :
        LET new  == {[id |-> m.id, device |-> p.device, nonce |-> nonce] :
                       m \in {n \in ToSend(p) : n.id \notin Ids(saved)}}
            kept == {e \in p.outbox : e.id \notin Ids(new)}
        IN  /\ push' = [push EXCEPT ![c] = saved \cup new]
            /\ requests' = requests \cup {[from |-> c, batch |-> saved \cup new, awaited |-> TRUE]}
            /\ profile' = [profile EXCEPT ![c].outbox = kept \cup new]
  BY DEF Push, Fresh
<1> DEFINE new   == {[id |-> m.id, device |-> p.device, nonce |-> nonce] :
                       m \in {n \in ToSend(p) : n.id \notin Ids(saved)}}
           kept  == {e \in p.outbox : e.id \notin Ids(new)}
           batch == saved \cup new
           q     == [p EXCEPT !.outbox = kept \cup new]
<1>2. p.device \in Nat /\ ToSend(p) # {}
  BY DEF Push, IInv, TypeOK
<1>3. GoodBatch(batch) /\ batch # {} /\ WellFormed(q)
  BY <1>2, KnownProfile, PushWellFormed, ZenonT(60)
<1>4. q.uploaded = p.uploaded
  BY KnownProfile DEF Profile
<1>5. /\ push' = [push EXCEPT ![c] = batch]
      /\ requests' = requests \cup {[from |-> c, batch |-> batch, awaited |-> TRUE]}
      /\ profile' = [profile EXCEPT ![c] = q]
      /\ answer' = [answer EXCEPT ![c] = "none"]
      /\ UNCHANGED <<identity, backup, rows, recorded, identities, givenUp, restores>>
  BY <1>1 DEF Push
<1> HIDE DEF q, batch
<1>6. \A r \in requests : r.awaited => r.from # c
  BY DEF Push, IInv, PushSound
<1>7. PushSound'
  <2>1. \A r \in requests' : r.awaited =>
          push'[r.from] # {} /\ push'[r.from] = r.batch /\ answer'[r.from] = "none"
    BY <1>3, <1>5, <1>6 DEF IInv, TypeOK, PushSound, Request
  <2>2. \A d \in Computer : answer'[d] # "none" => answer'[d] = answer[d] /\ push'[d] = push[d]
    BY <1>5 DEF IInv, TypeOK
  <2> QED
    BY <1>5, <2>1, <2>2 DEF IInv, PushSound, StoredEnvelopes
<1>8. requests' \subseteq Request /\ push' \in [Computer -> SUBSET Envelope]
        /\ answer' \in [Computer -> Answer]
  <2>1. batch \in SUBSET Envelope
    BY <1>3 DEF GoodBatch
  <2>2. [from |-> c, batch |-> batch, awaited |-> TRUE] \in Request
    BY <2>1 DEF Request
  <2>3. requests' \subseteq Request
    BY <1>5, <2>2 DEF IInv, TypeOK
  <2> QED
    BY <1>5, <2>1, <2>3 DEF IInv, TypeOK, Answer
<1>9. \A r \in requests' : GoodBatch(r.batch)
  BY <1>3, <1>5 DEF IInv
<1> QED
  BY <1>3, <1>4, <1>5, <1>7, <1>8, <1>9, KnownProfile, ProfileStep DEF IInv, TypeOK

\* The service appends and answers.
LEMMA ServeInv ==
  ASSUME IInv, NEW r \in requests, Serve(r)
  PROVE  IInv'
<1>1. r \in Request /\ GoodBatch(r.batch) /\ RowsSound(rows)
  BY DEF IInv, TypeOK
<1>2. /\ RowsSound(rows')
      /\ Ids(StoredEnvelopes) \subseteq Ids(StoredEnvelopes)'
      /\ Verdict(r) = "stored" => Ids(r.batch) \subseteq Ids(StoredEnvelopes)'
  <2>1. CASE Substituted(r.batch)
    BY <1>1, <2>1 DEF Serve, Verdict, StoredEnvelopes
  <2>2. CASE ~Substituted(r.batch)
    <3>1. rows' = rows \cup Appended(r.batch)
      BY <2>2 DEF Serve
    <3>2. RowsSound(rows') /\ Ids(r.batch) \subseteq Ids({s.envelope : s \in rows'})
      BY <1>1, <3>1, AppendedSound
    <3>3. Ids(StoredEnvelopes) \subseteq Ids({s.envelope : s \in rows'})
      BY <3>1 DEF StoredEnvelopes, Ids
    <3> QED
      BY <3>2, <3>3 DEF StoredEnvelopes, Ids
  <2> QED
    BY <2>1, <2>2
<1>3. AcknowledgedIsStored'
  BY <1>2 DEF Serve, IInv, AcknowledgedIsStored
<1>4. \A q \in requests' : q \in requests /\ q # r
  BY DEF Serve
<1>5. r.awaited => push[r.from] # {} /\ push[r.from] = r.batch
  BY DEF IInv, PushSound
<1>6. \A q \in requests' : q.awaited /\ r.awaited => q.from # r.from
  <2> SUFFICES ASSUME NEW q \in requests', q.awaited, r.awaited, q.from = r.from
               PROVE  FALSE
    OBVIOUS
  <2>1. q \in Request /\ q.batch = r.batch /\ q.awaited = r.awaited
    BY <1>1, <1>4, <1>5 DEF IInv, TypeOK, PushSound, Request
  <2> QED
    BY <1>1, <1>4, <2>1 DEF Request
<1>7. Verdict(r) \in {"stored", "conflict"}
  BY DEF Verdict
<1>8. \A c \in Computer :
        \/ answer'[c] = answer[c] /\ (r.awaited => c # r.from)
        \/ r.awaited /\ c = r.from /\ answer'[c] = Verdict(r)
  BY <1>1 DEF Serve, Answers, IInv, TypeOK
<1>9. PushSound'
  <2>1. \A q \in requests' : q.awaited =>
          push'[q.from] # {} /\ push'[q.from] = q.batch /\ answer'[q.from] = "none"
    BY <1>4, <1>6, <1>8 DEF Serve, IInv, TypeOK, PushSound, Request
  <2>2. \A c \in Computer : answer'[c] = "stored" =>
          push'[c] # {} /\ Ids(push'[c]) \subseteq Ids(StoredEnvelopes)'
    BY <1>2, <1>5, <1>8 DEF Serve, IInv, PushSound
  <2>3. \A c \in Computer : answer'[c] # "none" => push'[c] # {}
    BY <1>5, <1>8 DEF Serve, IInv, PushSound
  <2>4. backup' # None => backup'.uploaded \subseteq Ids(StoredEnvelopes)'
    BY <1>2 DEF Serve, IInv, PushSound
  <2> QED
    BY <2>1, <2>2, <2>3, <2>4 DEF PushSound
<1>10. TypeOK'
  <2>1. answer' \in [Computer -> Answer]
    BY <1>7 DEF Serve, Answers, IInv, TypeOK, Answer
  <2> QED
    BY <1>2, <1>4, <2>1 DEF Serve, IInv, TypeOK, RowsSound
<1> QED
  BY <1>2, <1>3, <1>4, <1>9, <1>10 DEF Serve, IInv

\* The requests of a computer are given up.
LEMMA NotAwaited ==
  ASSUME IInv, NEW c \in Computer,
         requests' = (requests \ Awaited(c)) \cup {[r EXCEPT !.awaited = FALSE] : r \in Awaited(c)}
  PROVE  /\ requests' \subseteq Request
         /\ \A r \in requests' : GoodBatch(r.batch)
         /\ \A r \in requests' : r.awaited => r \in requests /\ r.from # c
         /\ \A r \in requests' : \E q \in requests : r.batch = q.batch
<1>1. \A r \in Awaited(c) : /\ [r EXCEPT !.awaited = FALSE] \in Request
                            /\ [r EXCEPT !.awaited = FALSE].batch = r.batch
                            /\ [r EXCEPT !.awaited = FALSE].awaited = FALSE
  BY DEF Awaited, IInv, TypeOK, Request
<1>2. \A r \in requests' : \/ r \in requests \ Awaited(c)
                           \/ \E q \in Awaited(c) : r = [q EXCEPT !.awaited = FALSE]
  OBVIOUS
<1>3. Awaited(c) \subseteq requests
  BY DEF Awaited
<1>4. requests' \subseteq Request
  BY <1>1, <1>2, <1>3 DEF IInv, TypeOK
<1>5. \A r \in requests' : \E q \in requests : r.batch = q.batch
  <2> TAKE r \in requests'
  <2>1. CASE r \in requests
    BY <2>1
  <2>2. CASE r \notin requests
    <3>1. PICK q \in Awaited(c) : r = [q EXCEPT !.awaited = FALSE]
      BY <1>2, <2>2
    <3>2. r.batch = q.batch /\ q \in requests
      BY <1>1, <1>3, <3>1
    <3> QED
      BY <3>2
  <2> QED
    BY <2>1, <2>2
<1>6. \A r \in requests' : GoodBatch(r.batch)
  <2>1. \A r \in requests : GoodBatch(r.batch)
    BY DEF IInv
  <2> QED
    BY ONLY <1>5, <2>1
<1>7. \A r \in requests' : r.awaited => r \in requests /\ r.from # c
  BY <1>1, <1>2 DEF Awaited
<1> QED
  BY <1>4, <1>5, <1>6, <1>7

\* A push that ends without more being stored, its requests given up.
LEMMA PushEnds ==
  ASSUME IInv, NEW c \in Computer,
         push' = [push EXCEPT ![c] = {}], answer' = [answer EXCEPT ![c] = "none"],
         rows' = rows, backup' = backup,
         \A r \in requests' : r.awaited => r \in requests /\ r.from # c
  PROVE  /\ PushSound'
         /\ push' \in [Computer -> SUBSET Envelope]
         /\ answer' \in [Computer -> Answer]
<1>1. \A d \in Computer : push'[d] = IF d = c THEN {} ELSE push[d]
  BY DEF IInv, TypeOK
<1>2. \A d \in Computer : answer'[d] = IF d = c THEN "none" ELSE answer[d]
  BY DEF IInv, TypeOK
<1>3. \A r \in requests' : r.awaited =>
        push'[r.from] # {} /\ push'[r.from] = r.batch /\ answer'[r.from] = "none"
  BY <1>1, <1>2 DEF IInv, TypeOK, PushSound, Request
<1>4. PushSound'
  BY <1>1, <1>2, <1>3 DEF IInv, PushSound, StoredEnvelopes
<1> QED
  BY <1>4 DEF IInv, TypeOK, Answer

LEMMA AcknowledgeInv ==
  ASSUME IInv, NEW c \in Computer, Acknowledge(c)
  PROVE  IInv'
<1> DEFINE q == Acknowledged(profile[c], push[c])
<1>1. push[c] \in SUBSET Envelope /\ Ids(push[c]) \subseteq Ids(StoredEnvelopes)
  BY DEF Acknowledge, IInv, TypeOK, PushSound
<1>2. WellFormed(q) /\ q.uploaded \subseteq Ids(StoredEnvelopes)
  BY <1>1, KnownProfile, AcknowledgedWellFormed
<1>3. profile' = [profile EXCEPT ![c] = q] \/ profile' = profile
  BY DEF Acknowledge
<1> HIDE DEF q
<1>4. /\ profile' \in [Computer -> Profile]
      /\ \A d \in Computer : WellFormed(profile'[d])
      /\ \A d \in Computer : Ids(profile'[d].outbox) \subseteq Ids(profile'[d].mutations) \ profile'[d].uploaded
      /\ AcknowledgedIsStored'
  <2>1. CASE profile' = profile
    BY <2>1 DEF Acknowledge, IInv, TypeOK, AcknowledgedIsStored, StoredEnvelopes
  <2>2. CASE profile' = [profile EXCEPT ![c] = q]
    BY <1>2, <2>2, ProfileStep DEF Acknowledge
  <2> QED
    BY <1>3, <2>1, <2>2
<1>5. \A r \in requests' : r.awaited => r \in requests /\ r.from # c
  BY DEF Acknowledge, IInv, PushSound
<1> QED
  BY <1>4, <1>5, PushEnds DEF Acknowledge, IInv, TypeOK

LEMMA RefusedInv ==
  ASSUME IInv, NEW c \in Computer, Refused(c)
  PROVE  IInv'
<1>1. \A r \in requests' : r.awaited => r \in requests /\ r.from # c
  BY DEF Refused, IInv, PushSound
<1>2. PushSound' /\ push' \in [Computer -> SUBSET Envelope] /\ answer' \in [Computer -> Answer]
  BY <1>1, PushEnds DEF Refused
<1> QED
  BY <1>2 DEF Refused, IInv, TypeOK, AcknowledgedIsStored, StoredEnvelopes

LEMMA GiveUpInv ==
  ASSUME IInv, NEW c \in Computer, GiveUp(c)
  PROVE  IInv'
<1>1. requests' = (requests \ Awaited(c)) \cup {[r EXCEPT !.awaited = FALSE] : r \in Awaited(c)}
  BY DEF GiveUp
<1>2. PushSound' /\ push' \in [Computer -> SUBSET Envelope] /\ answer' \in [Computer -> Answer]
  BY <1>1, NotAwaited, PushEnds DEF GiveUp
<1>3. requests' \subseteq Request /\ \A r \in requests' : GoodBatch(r.batch)
  BY <1>1, NotAwaited
<1> HIDE <1>1
<1> QED
  BY <1>2, <1>3 DEF GiveUp, IInv, TypeOK, AcknowledgedIsStored, StoredEnvelopes

LEMMA ReplaceInv ==
  ASSUME IInv, NEW c \in Computer, Replace(c)
  PROVE  IInv'
<1>1. requests' = (requests \ Awaited(c)) \cup {[r EXCEPT !.awaited = FALSE] : r \in Awaited(c)}
  BY DEF Replace
<1>2. EmptyProfile.uploaded = {} /\ profile' = [profile EXCEPT ![c] = EmptyProfile] /\ rows' = rows
  BY DEF Replace, EmptyProfile
<1>3. /\ profile' \in [Computer -> Profile]
      /\ \A d \in Computer : WellFormed(profile'[d])
      /\ \A d \in Computer : Ids(profile'[d].outbox) \subseteq Ids(profile'[d].mutations) \ profile'[d].uploaded
      /\ AcknowledgedIsStored'
  BY <1>2, EmptyWellFormed, ProfileStep
<1> QED
  BY <1>1, <1>3, NotAwaited, PushEnds DEF Replace, IInv, TypeOK

LEMMA LoseInv ==
  ASSUME IInv, NEW r \in requests, Lose(r)
  PROVE  IInv'
BY DEF Lose, IInv, TypeOK, PushSound, AcknowledgedIsStored, StoredEnvelopes

LEMMA NextInv == IInv /\ [Next]_vars => IInv'
<1> SUFFICES ASSUME IInv, [Next]_vars PROVE IInv'
  OBVIOUS
<1>1. ASSUME NEW c \in Computer, Student(c) PROVE IInv'
  BY <1>1, RecordInv, ExportInv, RestoreInv, ReplaceInv DEF Student
<1>2. ASSUME NEW c \in Computer, Synchronize(c) PROVE IInv'
  BY <1>2, ProtectInv, ConnectInv, PushInv, AcknowledgeInv, RefusedInv DEF Synchronize
<1>3. CASE UNCHANGED vars
  BY <1>3 DEF vars, IInv, TypeOK, PushSound, AcknowledgedIsStored, StoredEnvelopes
<1> QED
  BY <1>1, <1>2, <1>3, GiveUpInv, ServeInv, LoseInv DEF Next

\* The strengthening of the theorems below.
THEOREM Invariance == Spec => []IInv
BY InitInv, NextInv, PTL DEF Spec

\* Every variable keeps its type, and no outbox holds an uploaded mutation.
THEOREM TypeCorrect == Spec => []TypeOK
<1>1. IInv => TypeOK
  BY DEF IInv
<1> QED
  BY <1>1, Invariance, PTL

\* A mutation marked uploaded is in the account's log, whatever was given up,
\* delivered late, lost, exported, restored or replaced in between.
THEOREM UploadsAreStored == Spec => []AcknowledgedIsStored
<1>1. IInv => AcknowledgedIsStored
  BY DEF IInv
<1> QED
  BY <1>1, Invariance, PTL

\* What a push relies on between two of its steps.
THEOREM PushesAreSound == Spec => []PushSound
<1>1. IInv => PushSound
  BY DEF IInv
<1> QED
  BY <1>1, Invariance, PTL

-----------------------------------------------------------------------------
(* The service implements the log *)

\* The table only grows, at its end.
LEMMA RowsGrow ==
  ASSUME IInv, [Next]_vars
  PROVE  /\ rows \subseteq rows'
         /\ \A r \in rows, s \in rows' \ rows : r.sequence < s.sequence
<1>1. ASSUME NEW r \in requests, Serve(r)
      PROVE  rows' = rows \/ rows' = rows \cup Appended(r.batch)
  BY <1>1 DEF Serve
<1>2. rows' = rows \/ \E r \in requests : rows' = rows \cup Appended(r.batch)
  BY <1>1 DEF Next, vars, Student, Synchronize, Record, Export, Restore, Replace, Protect,
     Connect, Push, Acknowledge, Refused, GiveUp, Lose
<1>3. CASE rows' = rows
  BY <1>3
<1>4. ASSUME NEW r \in requests, rows' = rows \cup Appended(r.batch)
      PROVE  \A t \in rows, s \in rows' \ rows : t.sequence < s.sequence
  <2>1. RowsSound(rows) /\ GoodBatch(r.batch)
    BY DEF IInv
  <2> QED
    BY <1>4, <2>1, AppendedSound
<1> QED
  BY <1>2, <1>3, <1>4

\* However requests are lost, late and retried, the computers see the
\* append-only log of AccountLog.
THEOREM ServiceIsALog == Spec => ImplementsLog
<1>1. Init => Log!Init
  BY DEF Init, Log!Init, EmptyProfile
<1>2. ASSUME IInv, IInv', [Next]_vars
      PROVE  Log!Next
  <2> DEFINE entry(r) == [position |-> r.sequence, id |-> r.envelope.id]
  <2>1. rows \subseteq rows' /\ \A r \in rows, s \in rows' \ rows : r.sequence < s.sequence
    BY <1>2, RowsGrow
  <2>2. {entry(r) : r \in rows} \subseteq {entry(r) : r \in rows'}
    BY <2>1
  <2>3. \A e \in {entry(r) : r \in rows}, f \in {entry(r) : r \in rows'} \ {entry(r) : r \in rows} :
          e.position < f.position
    BY <2>1
  <2>4. \A r, s \in rows' : r.envelope.id = s.envelope.id \/ r.sequence = s.sequence => r = s
    BY <1>2 DEF IInv, RowsSound
  <2>5. \A e, f \in {entry(r) : r \in rows'} : e.id = f.id \/ e.position = f.position => e = f
    BY <2>4
  <2>6. \A c \in Computer : profile'[c].uploaded \subseteq {e.id : e \in {entry(r) : r \in rows'}}
    <3>1. \A c \in Computer : \A i \in profile'[c].uploaded : \E r \in rows' : r.envelope.id = i
      BY <1>2 DEF IInv, AcknowledgedIsStored, StoredEnvelopes, Ids
    <3>2. \A r \in rows' : entry(r).id = r.envelope.id
      OBVIOUS
    <3> HIDE DEF entry
    <3> QED
      BY ONLY <3>1, <3>2
  <2> QED
    BY <2>2, <2>3, <2>5, <2>6 DEF Log!Next
<1> QED
  BY <1>1, <1>2, Invariance, PTL DEF Spec, ImplementsLog, Log!Spec

-----------------------------------------------------------------------------
(* As long as no backup is restored: retries are not substitutions, and what  *)
(* is stored is in order                                                      *)

\* Whatever was encrypted and sent, if it may still be stored.
Sent == StoredEnvelopes \cup UNION {r.batch : r \in requests}

\* Mutations stay with the computer that recorded them.
OwnMutations ==
  /\ \A c \in Computer : \A m \in profile[c].mutations : m.id <= recorded
  /\ \A c, d \in Computer : \A m \in profile[c].mutations, n \in profile[d].mutations :
       m.id = n.id => c = d

\* Identities stay with the computer they were made for.
OwnIdentities ==
  /\ \A c \in Computer : identity[c] # None => identity[c] <= identities
  /\ \A c, d \in Computer : identity[c] # None /\ identity[c] = identity[d] => c = d
  /\ \A c \in Computer : profile[c].device \in {None, identity[c]}

\* A mutation is encrypted once: what was sent of one that is not marked
\* uploaded is in the outbox.
SentOnce ==
  /\ \A e \in Sent : e.id <= recorded /\ e.device <= identities
  /\ \A e, f \in Sent : e.id = f.id => e = f
  /\ \A c \in Computer : answer[c] # "conflict"
  /\ \A c \in Computer : \A e \in profile[c].outbox : e.device = profile[c].device
  /\ \A c \in Computer : \A e \in Sent : \A m \in profile[c].mutations :
       e.id = m.id => e.id \in profile[c].uploaded \/ e \in profile[c].outbox

\* What is sent with a mutation, or is marked uploaded, covers the older ones.
SentInOrder ==
  /\ \A c \in Computer : \A e \in Sent : e.device = identity[c] => e.device = profile[c].device
  /\ \A c \in Computer, r \in requests : \A e \in r.batch :
       e.device = profile[c].device =>
         \A m \in profile[c].mutations :
           m.replicated /\ m.id < e.id => m.id \in Ids(r.batch) \cup profile[c].uploaded

Undisturbed ==
  restores = 0 => OwnMutations /\ OwnIdentities /\ SentOnce /\ SentInOrder /\ StoredInOrder

Strong == IInv /\ Undisturbed

LEMMA SentType == IInv => Sent \subseteq Envelope
BY DEF IInv, TypeOK, Sent, StoredEnvelopes, Stored, GoodBatch

\* What is on its way or stored is sent.
LEMMA SentIs ==
  /\ \A r \in rows : r.envelope \in Sent
  /\ \A r \in requests : \A e \in r.batch : e \in Sent
  /\ \A e \in Sent : (\E r \in rows : e = r.envelope) \/ (\E r \in requests : e \in r.batch)
BY DEF Sent, StoredEnvelopes

\* Nothing is encrypted by a step that adds no request and no row of its own.
LEMMA NothingSent ==
  ASSUME rows' = rows, \A r \in requests' : \E q \in requests : r.batch = q.batch
  PROVE  Sent' \subseteq Sent
BY DEF Sent, StoredEnvelopes

\* The oldest pending mutations are sent.
LEMMA OldestFirst ==
  ASSUME NEW p, WellFormed(p), NEW t \in ToSend(p), NEW m \in Pending(p), m.id < t.id
  PROVE  m \in ToSend(p)
<1> DEFINE before(x) == {n \in Pending(p) : n.id < x}
<1>1. \A n \in Pending(p) : n.id \in Nat
  BY DEF WellFormed, Profile, Mutation, Pending
<1>2. t \in Pending(p) /\ Cardinality(before(t.id)) < BatchSize
  BY DEF ToSend, Oldest
<1>3. before(m.id) \subseteq before(t.id)
  BY <1>1, <1>2
<1>4. IsFiniteSet(before(t.id))
  BY FS_Subset DEF WellFormed, Pending
<1>5. /\ Cardinality(before(m.id)) <= Cardinality(before(t.id))
      /\ Cardinality(before(m.id)) \in Nat /\ Cardinality(before(t.id)) \in Nat
  BY <1>3, <1>4, FS_Subset, FS_CardinalityType
<1>6. Cardinality(before(m.id)) < BatchSize
  BY <1>2, <1>5, UploadAssumption
<1> QED
  BY <1>6 DEF ToSend, Oldest

LEMMA InitUndisturbed == Init => Undisturbed
BY DEF Init, EmptyProfile, Undisturbed, OwnMutations, OwnIdentities, SentOnce, SentInOrder,
   StoredInOrder, Sent, StoredEnvelopes, Ids

\* A step of the service or of a push that leaves the profiles alone.
LEMMA QuietUndisturbed ==
  ASSUME Strong,
         UNCHANGED <<identity, profile, rows, recorded, identities, restores>>,
         \A c \in Computer : answer'[c] \in {"none", answer[c]},
         \A r \in requests' : \E q \in requests : r.batch = q.batch
  PROVE  Undisturbed'
<1> SUFFICES ASSUME restores = 0
             PROVE  (OwnMutations /\ OwnIdentities /\ SentOnce /\ SentInOrder /\ StoredInOrder)'
  BY DEF Undisturbed
<1>1. OwnMutations /\ OwnIdentities /\ SentOnce /\ SentInOrder /\ StoredInOrder
  BY DEF Strong, Undisturbed
<1>2. Sent' \subseteq Sent
  BY NothingSent
<1>3. OwnMutations' /\ OwnIdentities' /\ StoredInOrder'
  BY <1>1 DEF OwnMutations, OwnIdentities, StoredInOrder
<1>4. SentOnce'
  BY <1>1, <1>2 DEF SentOnce
<1>5. SentInOrder'
  BY <1>1, <1>2 DEF SentInOrder
<1> QED
  BY <1>3, <1>4, <1>5

\* The envelopes a push encrypts, and the outbox it leaves.
Encrypted(p, nonce) ==
  {[id |-> m.id, device |-> p.device, nonce |-> nonce] :
     m \in {n \in ToSend(p) : n.id \notin Ids(Reusable(p))}}

Kept(p, nonce) == {e \in p.outbox : e.id \notin Ids(Encrypted(p, nonce))}

\* A push sends one envelope of each mutation to send, and none of another.
LEMMA EncryptedIds ==
  ASSUME NEW p, NEW nonce
  PROVE  /\ Ids(Reusable(p) \cup Encrypted(p, nonce)) = Ids(ToSend(p))
         /\ \A e \in Encrypted(p, nonce) :
              /\ e.id \in Ids(ToSend(p)) /\ e.id \notin Ids(Reusable(p))
              /\ e.device = p.device
         /\ \A e \in Reusable(p) : e.id \in Ids(ToSend(p)) /\ e \in p.outbox /\ e.device = p.device
<1> DEFINE T == {n \in ToSend(p) : n.id \notin Ids(Reusable(p))}
           f(m) == [id |-> m.id, device |-> p.device, nonce |-> nonce]
<1>1. \A m \in T : f(m) \in Encrypted(p, nonce) /\ f(m).id = m.id
  BY DEF Encrypted
<1>2. \A e \in Encrypted(p, nonce) : \E m \in T : e.id = m.id /\ e.device = p.device
  BY DEF Encrypted
<1>3. \A e \in Encrypted(p, nonce) :
        /\ e.id \in Ids(ToSend(p)) /\ e.id \notin Ids(Reusable(p))
        /\ e.device = p.device
  BY <1>2 DEF Ids
<1>4. \A e \in Reusable(p) : e.id \in Ids(ToSend(p)) /\ e \in p.outbox /\ e.device = p.device
  BY DEF Reusable
<1>5. \A m \in ToSend(p) : m.id \in Ids(Reusable(p)) \cup Ids(Encrypted(p, nonce))
  BY <1>1 DEF Ids
<1> HIDE DEF T, f
<1>6. Ids(ToSend(p)) = {m.id : m \in ToSend(p)}
  BY DEF Ids
<1>7. Ids(Reusable(p) \cup Encrypted(p, nonce)) = Ids(Reusable(p)) \cup Ids(Encrypted(p, nonce))
  BY DEF Ids
<1>8. Ids(Reusable(p)) \subseteq Ids(ToSend(p)) /\ Ids(Encrypted(p, nonce)) \subseteq Ids(ToSend(p))
  BY <1>3, <1>4 DEF Ids
<1>9. Ids(ToSend(p)) \subseteq Ids(Reusable(p)) \cup Ids(Encrypted(p, nonce))
  BY ONLY <1>5, <1>6
<1> QED
  BY ONLY <1>3, <1>4, <1>7, <1>8, <1>9

LEMMA RecordUndisturbed ==
  ASSUME Strong, NEW c \in Computer, NEW replicated \in BOOLEAN, Record(c, replicated)
  PROVE  Undisturbed'
<1> SUFFICES ASSUME restores = 0
             PROVE  (OwnMutations /\ OwnIdentities /\ SentOnce /\ SentInOrder /\ StoredInOrder)'
  BY DEF Undisturbed, Record
<1> DEFINE m == [id |-> recorded + 1, replicated |-> replicated]
<1>1. /\ OwnMutations /\ OwnIdentities /\ SentOnce /\ SentInOrder /\ StoredInOrder
      /\ Sent \subseteq Envelope
  BY SentType DEF Strong, Undisturbed
<1>2. recorded \in Nat /\ m.id = recorded + 1 /\ recorded' = recorded + 1
  BY DEF Strong, IInv, TypeOK, Record
<1>3. UNCHANGED <<identity, answer, requests, rows, identities, restores>>
  BY DEF Record
<1>4. Sent' = Sent
  BY <1>3 DEF Sent, StoredEnvelopes
<1>5. \A d \in Computer :
        /\ profile'[d].mutations = profile[d].mutations \cup (IF d = c THEN {m} ELSE {})
        /\ profile'[d].uploaded = profile[d].uploaded
        /\ profile'[d].outbox = profile[d].outbox
        /\ profile'[d].device = profile[d].device
  <2>1. profile' = [profile EXCEPT ![c].mutations = @ \cup {m}]
    BY DEF Record
  <2> HIDE DEF m
  <2>2. profile \in [Computer -> Profile]
    BY DEF Strong, IInv, TypeOK
  <2>3. profile'[c] = [profile[c] EXCEPT !.mutations = @ \cup {m}]
    BY <2>1, <2>2
  <2>4. \A d \in Computer : d # c => profile'[d] = profile[d]
    BY <2>1, <2>2
  <2>5. /\ profile'[c].mutations = profile[c].mutations \cup {m}
        /\ profile'[c].uploaded = profile[c].uploaded
        /\ profile'[c].outbox = profile[c].outbox
        /\ profile'[c].device = profile[c].device
    BY <2>2, <2>3 DEF Profile
  <2> QED
    BY ONLY <2>4, <2>5
<1>6. \A d \in Computer : \A n \in profile[d].mutations : n.id \in Nat
  BY DEF Strong, IInv, TypeOK, Profile, Mutation
<1> HIDE DEF m
<1>7. \A d \in Computer : \A n \in profile'[d].mutations :
        n \in profile[d].mutations \/ (d = c /\ n.id = recorded + 1)
  BY <1>2, <1>5
<1>8. OwnMutations'
  BY <1>1, <1>2, <1>6, <1>7 DEF OwnMutations
<1>9. OwnIdentities'
  BY <1>1, <1>3, <1>5 DEF OwnIdentities
<1>10. \A e \in Sent : e.id \in Nat /\ e.id <= recorded /\ e.device <= identities
  BY <1>1 DEF SentOnce, Envelope
<1>11. SentOnce'
  BY <1>1, <1>2, <1>3, <1>4, <1>5, <1>7, <1>10 DEF SentOnce
<1>12. SentInOrder'
  <2>1. \A r \in requests : \A e \in r.batch : e \in Sent
    BY SentIs
  <2> QED
    BY <1>1, <1>2, <1>3, <1>4, <1>5, <1>7, <1>10, <2>1 DEF SentInOrder
<1>13. StoredInOrder'
  <2>1. \A r \in rows : r.envelope \in Sent
    BY SentIs
  <2> QED
    BY <1>1, <1>2, <1>3, <1>5, <1>7, <1>10, <2>1 DEF StoredInOrder
<1> QED
  BY <1>8, <1>9, <1>11, <1>12, <1>13

LEMMA ProtectUndisturbed ==
  ASSUME Strong, NEW c \in Computer, Protect(c)
  PROVE  Undisturbed'
<1> SUFFICES ASSUME restores = 0
             PROVE  (OwnMutations /\ OwnIdentities /\ SentOnce /\ SentInOrder /\ StoredInOrder)'
  BY DEF Undisturbed, Protect
<1>1. /\ OwnMutations /\ OwnIdentities /\ SentOnce /\ SentInOrder /\ StoredInOrder
      /\ Sent \subseteq Envelope
  BY SentType DEF Strong, Undisturbed
<1>2. /\ identities \in Nat /\ identities' = identities + 1
      /\ identity[c] = None
      /\ \A d \in Computer : identity'[d] = IF d = c THEN identities + 1 ELSE identity[d]
      /\ \A d \in Computer : identity[d] \in Nat \cup {None}
  BY DEF Strong, IInv, TypeOK, Protect
<1>3. UNCHANGED <<profile, answer, requests, rows, recorded, restores>>
  BY DEF Protect
<1>4. Sent' = Sent
  BY <1>3 DEF Sent, StoredEnvelopes
<1>5. OwnMutations' /\ StoredInOrder'
  BY <1>1, <1>3 DEF OwnMutations, StoredInOrder
<1>6. OwnIdentities'
  BY <1>1, <1>2, <1>3, UploadAssumption DEF OwnIdentities
<1>7. \A e \in Sent : e.device \in Nat /\ e.device <= identities
  BY <1>1 DEF SentOnce, Envelope
<1>8. SentOnce'
  BY <1>1, <1>2, <1>3, <1>4, <1>7 DEF SentOnce
<1>9. SentInOrder'
  BY <1>1, <1>2, <1>3, <1>4, <1>7 DEF SentInOrder
<1> QED
  BY <1>5, <1>6, <1>8, <1>9

\* A profile takes an identity when it has sent nothing yet.
LEMMA ConnectUndisturbed ==
  ASSUME Strong, NEW c \in Computer, Connect(c)
  PROVE  Undisturbed'
<1> SUFFICES ASSUME restores = 0
             PROVE  (OwnMutations /\ OwnIdentities /\ SentOnce /\ SentInOrder /\ StoredInOrder)'
  BY DEF Undisturbed, Connect
<1> DEFINE q == [Rebound(profile[c], identity[c]) EXCEPT !.connected = identity[c]]
<1>1. /\ OwnMutations /\ OwnIdentities /\ SentOnce /\ SentInOrder /\ StoredInOrder
      /\ Sent \subseteq Envelope
  BY SentType DEF Strong, Undisturbed
<1>2. identity[c] \in Nat /\ profile[c] \in Profile /\ profile \in [Computer -> Profile]
  BY DEF Strong, IInv, TypeOK, Connect
<1>3. UNCHANGED <<identity, answer, requests, rows, recorded, identities, restores>>
  BY DEF Connect
<1>4. Sent' = Sent
  BY <1>3 DEF Sent, StoredEnvelopes
<1>5. /\ q.mutations = profile[c].mutations /\ q.uploaded = profile[c].uploaded
      /\ q.device = identity[c]
      /\ q.outbox = IF profile[c].device = identity[c] THEN profile[c].outbox ELSE {}
  BY <1>2 DEF Rebound, Profile
<1>6. \A d \in Computer : profile'[d] = IF d = c THEN q ELSE profile[d]
  BY <1>2 DEF Connect
<1> HIDE DEF q
<1>7. profile[c].device # identity[c] => profile[c].device = None /\ profile[c].outbox = {}
  <2>1. \A e \in profile[c].outbox : e.device \in Nat /\ e.device = profile[c].device
    BY <1>1, <1>2 DEF SentOnce, Profile, Envelope
  <2> QED
    BY <1>1, <2>1, UploadAssumption DEF OwnIdentities
<1>8. \A d \in Computer : /\ profile'[d].mutations = profile[d].mutations
                          /\ profile'[d].uploaded = profile[d].uploaded
                          /\ profile'[d].outbox = profile[d].outbox
                          /\ profile'[d].device = IF d = c THEN identity[c] ELSE profile[d].device
  BY <1>5, <1>6, <1>7
<1>9. OwnMutations' /\ OwnIdentities'
  BY <1>1, <1>3, <1>8 DEF OwnMutations, OwnIdentities
<1>10. \A e \in profile[c].outbox : e.device = identity[c]
  BY <1>1, <1>7 DEF SentOnce
<1>11. SentOnce'
  BY <1>1, <1>3, <1>4, <1>8, <1>10 DEF SentOnce
<1>12. \A d \in Computer : \A e \in Sent : e.device = profile'[d].device => e.device = profile[d].device
  BY <1>1, <1>8 DEF SentInOrder
<1>13. SentInOrder'
  <2>1. \A r \in requests : \A e \in r.batch : e \in Sent
    BY SentIs
  <2> QED
    BY <1>1, <1>3, <1>4, <1>8, <1>12, <2>1 DEF SentInOrder
<1>14. StoredInOrder'
  <2>1. \A r \in rows : r.envelope \in Sent
    BY SentIs
  <2> QED
    BY <1>1, <1>3, <1>8, <1>12, <2>1 DEF StoredInOrder
<1> QED
  BY <1>9, <1>11, <1>13, <1>14

\* A replaced computer keeps nothing that was sent.
LEMMA ReplaceUndisturbed ==
  ASSUME Strong, NEW c \in Computer, Replace(c)
  PROVE  Undisturbed'
<1> SUFFICES ASSUME restores = 0
             PROVE  (OwnMutations /\ OwnIdentities /\ SentOnce /\ SentInOrder /\ StoredInOrder)'
  BY DEF Undisturbed, Replace
<1>1. /\ OwnMutations /\ OwnIdentities /\ SentOnce /\ SentInOrder /\ StoredInOrder
      /\ Sent \subseteq Envelope
  BY SentType DEF Strong, Undisturbed
<1>2. UNCHANGED <<rows, recorded, identities, restores>>
  BY DEF Replace
<1>3. \A r \in requests' : \E q \in requests : r.batch = q.batch
  BY NotAwaited DEF Replace, Strong
<1>4. Sent' \subseteq Sent
  BY <1>2, <1>3, NothingSent
<1>5. \A d \in Computer : profile'[d] = IF d = c THEN EmptyProfile ELSE profile[d]
  BY DEF Strong, IInv, TypeOK, Replace
<1>6. \A d \in Computer : identity'[d] = IF d = c THEN None ELSE identity[d]
  BY DEF Strong, IInv, TypeOK, Replace
<1>7. \A d \in Computer : answer'[d] = IF d = c THEN "none" ELSE answer[d]
  BY DEF Strong, IInv, TypeOK, Replace
<1>8. EmptyProfile.mutations = {} /\ EmptyProfile.outbox = {} /\ EmptyProfile.device = None
  BY DEF EmptyProfile
<1>9. \A e \in Sent : e.device # None
  BY <1>1, UploadAssumption DEF Envelope
<1>10. OwnMutations' /\ OwnIdentities'
  BY <1>1, <1>2, <1>5, <1>6, <1>8 DEF OwnMutations, OwnIdentities
<1>11. SentOnce'
  BY <1>1, <1>2, <1>4, <1>5, <1>7, <1>8 DEF SentOnce
<1>12. SentInOrder'
  BY <1>1, <1>3, <1>4, <1>5, <1>6, <1>8, <1>9 DEF SentInOrder
<1>13. StoredInOrder'
  BY <1>1, <1>2, <1>5, <1>8 DEF StoredInOrder
<1> QED
  BY <1>10, <1>11, <1>12, <1>13

\* What is acknowledged leaves the outbox and is marked uploaded.
LEMMA AcknowledgeUndisturbed ==
  ASSUME Strong, NEW c \in Computer, Acknowledge(c)
  PROVE  Undisturbed'
<1> SUFFICES ASSUME restores = 0
             PROVE  (OwnMutations /\ OwnIdentities /\ SentOnce /\ SentInOrder /\ StoredInOrder)'
  BY DEF Undisturbed, Acknowledge
<1>1. OwnMutations /\ OwnIdentities /\ SentOnce /\ SentInOrder /\ StoredInOrder
  BY DEF Strong, Undisturbed
<1>2. UNCHANGED <<identity, requests, rows, recorded, identities, restores>>
  BY DEF Acknowledge
<1>3. Sent' = Sent
  BY <1>2 DEF Sent, StoredEnvelopes
<1>4. \A d \in Computer : answer'[d] \in {"none", answer[d]}
  BY DEF Strong, IInv, TypeOK, Acknowledge
<1>5. \A d \in Computer :
        /\ profile'[d].mutations = profile[d].mutations
        /\ profile'[d].device = profile[d].device
        /\ profile[d].uploaded \subseteq profile'[d].uploaded
        /\ profile'[d].outbox \subseteq profile[d].outbox
        /\ \A e \in profile[d].outbox \ profile'[d].outbox : e.id \in profile'[d].uploaded
  <2>1. profile \in [Computer -> Profile]
    BY DEF Strong, IInv, TypeOK
  <2>2. CASE profile' = profile
    BY <2>2
  <2>3. CASE profile' = [profile EXCEPT ![c] = Acknowledged(@, push[c])]
    <3>1. profile'[c] = [profile[c] EXCEPT !.uploaded = @ \cup Ids(push[c]),
                                           !.outbox = {e \in @ : e.id \notin Ids(push[c])}]
      BY <2>1, <2>3 DEF Acknowledged
    <3>2. \A d \in Computer : d # c => profile'[d] = profile[d]
      BY <2>1, <2>3
    <3>3. /\ profile'[c].mutations = profile[c].mutations
          /\ profile'[c].device = profile[c].device
          /\ profile'[c].uploaded = profile[c].uploaded \cup Ids(push[c])
          /\ profile'[c].outbox = {e \in profile[c].outbox : e.id \notin Ids(push[c])}
      BY <2>1, <3>1 DEF Profile
    <3> QED
      BY ONLY <3>2, <3>3
  <2> QED
    BY <2>2, <2>3 DEF Acknowledge
<1>6. OwnMutations' /\ OwnIdentities'
  BY <1>1, <1>2, <1>5 DEF OwnMutations, OwnIdentities
<1>7. SentOnce'
  BY <1>1, <1>2, <1>3, <1>4, <1>5 DEF SentOnce
<1>8. SentInOrder'
  BY <1>1, <1>2, <1>3, <1>5 DEF SentInOrder
<1>9. StoredInOrder'
  BY <1>1, <1>2, <1>5 DEF StoredInOrder
<1> QED
  BY <1>6, <1>7, <1>8, <1>9

\* The service stores a batch in the order of its mutations, after what covers them.
LEMMA ServeUndisturbed ==
  ASSUME Strong, NEW q \in requests, Serve(q)
  PROVE  Undisturbed'
<1> SUFFICES ASSUME restores = 0
             PROVE  (OwnMutations /\ OwnIdentities /\ SentOnce /\ SentInOrder /\ StoredInOrder)'
  BY DEF Undisturbed, Serve
<1>1. /\ OwnMutations /\ OwnIdentities /\ SentOnce /\ SentInOrder /\ StoredInOrder
      /\ Sent \subseteq Envelope
  BY SentType DEF Strong, Undisturbed
<1>2. UNCHANGED <<identity, profile, recorded, identities, restores>>
  BY DEF Serve
<1>3. requests' \subseteq requests
  BY DEF Serve
<1>4. \A e \in q.batch : e \in Sent
  BY SentIs
<1>5. ~Substituted(q.batch)
  BY <1>1, <1>4 DEF Substituted, SentOnce, Sent
<1>6. rows' = rows \cup Appended(q.batch)
  BY <1>5 DEF Serve
<1>7. RowsSound(rows) /\ GoodBatch(q.batch)
  BY DEF Strong, IInv
<1>8. /\ \A r \in rows, s \in Appended(q.batch) : r.sequence < s.sequence
      /\ \A r, s \in Appended(q.batch) : r.envelope.id < s.envelope.id => r.sequence < s.sequence
      /\ \A r \in Appended(q.batch) : r.envelope \in q.batch
      /\ Ids(q.batch) \subseteq Ids({r.envelope : r \in rows \cup Appended(q.batch)})
  BY <1>7, AppendedSound
<1>9. Sent' \subseteq Sent
  <2>1. \A r \in rows' : r.envelope \in Sent
    BY <1>4, <1>6, <1>8, SentIs
  <2>2. \A r \in requests' : r.batch \subseteq Sent
    BY <1>3, SentIs
  <2> QED
    BY <2>1, <2>2 DEF Sent, StoredEnvelopes
<1>10. \A c \in Computer : answer'[c] # "conflict"
  <2>1. Verdict(q) = "stored"
    BY <1>5 DEF Verdict
  <2> QED
    BY <1>1, <2>1 DEF Strong, IInv, TypeOK, Serve, Answers, SentOnce
<1>11. OwnMutations' /\ OwnIdentities'
  BY <1>1, <1>2 DEF OwnMutations, OwnIdentities
<1>12. SentOnce'
  BY <1>1, <1>2, <1>9, <1>10 DEF SentOnce
<1>13. SentInOrder'
  BY <1>1, <1>2, <1>3, <1>9 DEF SentInOrder
<1>14. StoredInOrder'
  <2> SUFFICES ASSUME NEW c \in Computer, NEW r \in rows', r.envelope.device = profile[c].device,
                      NEW m \in profile[c].mutations, m.replicated, m.id < r.envelope.id
               PROVE  \E s \in rows' : s.envelope.id = m.id /\ s.sequence < r.sequence
    BY <1>2 DEF StoredInOrder
  <2>1. CASE r \in rows
    BY <1>1, <1>6, <2>1 DEF StoredInOrder
  <2>2. CASE r \in Appended(q.batch)
    <3>1. r.envelope \in q.batch
      BY <1>8, <2>2
    <3>2. m.id \in Ids(q.batch) \cup profile[c].uploaded
      BY <1>1, <3>1 DEF SentInOrder
    <3>3. profile[c].uploaded \subseteq Ids(StoredEnvelopes)
      BY DEF Strong, IInv, AcknowledgedIsStored
    <3>4. \E s \in rows' : s.envelope.id = m.id
      BY <1>6, <1>8, <3>2, <3>3 DEF Ids, StoredEnvelopes
    <3>5. PICK s \in rows' : s.envelope.id = m.id
      BY <3>4
    <3>6. s.sequence < r.sequence
      BY <1>6, <1>8, <2>2, <3>5
    <3> QED
      BY <3>5, <3>6
  <2> QED
    BY <1>6, <2>1, <2>2
<1> QED
  BY <1>11, <1>12, <1>13, <1>14

\* A push sends what it has saved, and encrypts what was never sent.
LEMMA PushUndisturbed ==
  ASSUME Strong, NEW c \in Computer, Push(c)
  PROVE  Undisturbed'
<1> SUFFICES ASSUME restores = 0
             PROVE  (OwnMutations /\ OwnIdentities /\ SentOnce /\ SentInOrder /\ StoredInOrder)'
  BY DEF Undisturbed, Push
<1> DEFINE p == profile[c]
<1>1. PICK nonce \in Nonce :
        /\ requests' = requests \cup
             {[from |-> c, batch |-> Reusable(p) \cup Encrypted(p, nonce), awaited |-> TRUE]}
        /\ profile' = [profile EXCEPT ![c].outbox = Kept(p, nonce) \cup Encrypted(p, nonce)]
  BY DEF Push, Fresh, Encrypted, Kept
<1> DEFINE new   == Encrypted(p, nonce)
           batch == Reusable(p) \cup new
<1>2. /\ OwnMutations /\ OwnIdentities /\ SentOnce /\ SentInOrder /\ StoredInOrder
      /\ Sent \subseteq Envelope
  BY SentType DEF Strong, Undisturbed
<1>3. /\ WellFormed(p) /\ p \in Profile /\ profile \in [Computer -> Profile]
      /\ p.device = identity[c] /\ identity[c] \in Nat
  BY KnownProfile DEF Strong, IInv, TypeOK, Push
<1>4. UNCHANGED <<identity, rows, recorded, identities, restores>>
  BY DEF Push
<1>5. \A d \in Computer : answer'[d] \in {"none", answer[d]}
  BY DEF Strong, IInv, TypeOK, Push
<1>6. \A d \in Computer :
        /\ profile'[d].mutations = profile[d].mutations
        /\ profile'[d].uploaded = profile[d].uploaded
        /\ profile'[d].device = profile[d].device
        /\ profile'[d].outbox = IF d = c THEN Kept(p, nonce) \cup new ELSE profile[d].outbox
  <2>1. profile'[c] = [profile[c] EXCEPT !.outbox = Kept(p, nonce) \cup new]
    BY <1>1, <1>3
  <2>2. \A d \in Computer : d # c => profile'[d] = profile[d]
    BY <1>1, <1>3
  <2>3. /\ profile'[c].mutations = profile[c].mutations
        /\ profile'[c].uploaded = profile[c].uploaded
        /\ profile'[c].device = profile[c].device
        /\ profile'[c].outbox = Kept(p, nonce) \cup new
    BY <1>3, <2>1 DEF Profile
  <2> QED
    BY ONLY <2>2, <2>3
<1>7. /\ Ids(batch) = Ids(ToSend(p))
      /\ \A e \in new : e.id \in Ids(ToSend(p)) /\ e.id \notin Ids(Reusable(p)) /\ e.device = p.device
      /\ \A e \in Reusable(p) : e.id \in Ids(ToSend(p)) /\ e \in p.outbox /\ e.device = p.device
  BY EncryptedIds
<1>8. \A i \in Ids(ToSend(p)) : i \notin p.uploaded /\ \E m \in p.mutations : m.id = i
  BY DEF ToSend, Oldest, Pending, Ids
<1>9. requests' = requests \cup {[from |-> c, batch |-> batch, awaited |-> TRUE]}
  BY <1>1
<1>10. \A e \in p.outbox, f \in p.outbox : e.id = f.id => e = f
  BY <1>3 DEF WellFormed, OneEach
<1> HIDE DEF p, new, batch
<1>11. \A e \in batch : /\ e.id \in Ids(ToSend(p)) /\ e.device = p.device
                        /\ e \in new \/ (e \in Reusable(p) /\ e \in p.outbox)
  BY <1>7 DEF batch
<1>12. \A e \in Sent : e.id \in Ids(ToSend(p)) => e \in p.outbox /\ e \in Reusable(p)
  <2> SUFFICES ASSUME NEW e \in Sent, e.id \in Ids(ToSend(p))
               PROVE  e \in p.outbox /\ e \in Reusable(p)
    OBVIOUS
  <2>1. e \in p.outbox
    BY <1>2, <1>8 DEF SentOnce, p
  <2>2. e.device = p.device
    BY <1>2, <2>1 DEF SentOnce, p
  <2> QED
    BY <2>1, <2>2 DEF Reusable
<1>13. \A e \in batch, f \in Sent : e.id = f.id => e = f
  <2> SUFFICES ASSUME NEW e \in batch, NEW f \in Sent, e.id = f.id
               PROVE  e = f
    OBVIOUS
  <2>1. f \in p.outbox /\ f \in Reusable(p)
    BY <1>11, <1>12
  <2>2. e \notin new
    BY <1>7, <2>1 DEF Ids
  <2> QED
    BY <1>10, <1>11, <2>1, <2>2
<1>14. \A e, f \in batch : e.id = f.id => e = f
  <2> SUFFICES ASSUME NEW e \in batch, NEW f \in batch, e.id = f.id
               PROVE  e = f
    OBVIOUS
  <2>1. CASE e \in new /\ f \in new
    BY <2>1 DEF new, Encrypted
  <2>2. CASE e \notin new /\ f \notin new
    BY <1>10, <1>11, <2>2
  <2>3. CASE e \in new /\ f \notin new
    BY <1>7, <1>11, <2>3 DEF Ids
  <2>4. CASE e \notin new /\ f \in new
    BY <1>7, <1>11, <2>4 DEF Ids
  <2> QED
    BY <2>1, <2>2, <2>3, <2>4
<1>15. \A e \in Sent' : e \in Sent \/ e \in batch
  BY <1>4, <1>9 DEF Sent, StoredEnvelopes
<1>16. OwnMutations' /\ OwnIdentities'
  BY <1>2, <1>4, <1>6 DEF OwnMutations, OwnIdentities
<1>17. SentOnce'
  <2>1. \A e \in batch : e.id <= recorded /\ e.device <= identities
    <3> TAKE e \in batch
    <3>1. PICK m \in p.mutations : m.id = e.id
      BY <1>8, <1>11
    <3> QED
      BY <1>2, <1>3, <1>11, <3>1, UploadAssumption DEF OwnMutations, OwnIdentities, p
  <2>2. \A e \in Sent' : e.id <= recorded' /\ e.device <= identities'
    BY <1>2, <1>4, <1>15, <2>1 DEF SentOnce
  <2>3. \A e, f \in Sent' : e.id = f.id => e = f
    BY <1>2, <1>13, <1>14, <1>15 DEF SentOnce
  <2>4. \A d \in Computer : answer'[d] # "conflict"
    BY <1>2, <1>5 DEF SentOnce
  <2>5. \A d \in Computer : \A e \in profile'[d].outbox : e.device = profile'[d].device
    BY <1>2, <1>6, <1>7 DEF SentOnce, Kept, p
  <2>6. ASSUME NEW d \in Computer, NEW e \in Sent', NEW m \in profile'[d].mutations, e.id = m.id
        PROVE  e.id \in profile'[d].uploaded \/ e \in profile'[d].outbox
    <3>1. m \in profile[d].mutations
      BY <1>6
    <3>2. CASE e \in batch
      <4>1. PICK n \in p.mutations : n.id = e.id
        BY <1>8, <1>11, <3>2
      <4>2. d = c
        BY <1>2, <2>6, <3>1, <4>1 DEF OwnMutations, p
      <4>3. e \in new \/ e \in Kept(p, nonce)
        BY <1>7, <1>11, <3>2 DEF Kept, Ids, new
      <4> QED
        BY <1>6, <4>2, <4>3
    <3>3. CASE e \in Sent /\ e \notin batch
      <4>1. e.id \in profile[d].uploaded \/ e \in profile[d].outbox
        BY <1>2, <2>6, <3>1, <3>3 DEF SentOnce
      <4>2. e.id \notin Ids(new)
        <5> SUFFICES ASSUME NEW f \in new, f.id = e.id PROVE FALSE
          BY DEF Ids
        <5>1. f \in batch
          BY DEF batch
        <5> QED
          BY <1>13, <3>3, <5>1
      <4>3. d = c /\ e \in profile[d].outbox => e \in Kept(p, nonce)
        BY <4>2 DEF Kept, p, new
      <4> QED
        BY <1>6, <4>1, <4>3
    <3> QED
      BY <1>15, <3>2, <3>3
  <2> QED
    BY <2>2, <2>3, <2>4, <2>5, <2>6 DEF SentOnce
<1>18. SentInOrder'
  <2>1. \A d \in Computer : \A e \in batch : e.device = identity[d] => d = c
    BY <1>2, <1>3, <1>11, UploadAssumption DEF OwnIdentities
  <2>2. \A d \in Computer : \A e \in Sent' : e.device = identity'[d] => e.device = profile'[d].device
    BY <1>2, <1>4, <1>6, <1>11, <1>15, <2>1 DEF SentInOrder, p
  <2>3. ASSUME NEW d \in Computer, NEW e \in batch, e.device = profile[d].device,
               NEW m \in profile[d].mutations, m.replicated, m.id < e.id
        PROVE  m.id \in Ids(batch) \cup profile[d].uploaded
    <3>1. d = c
      BY <1>2, <1>3, <1>11, <2>1, <2>3, UploadAssumption DEF OwnIdentities
    <3>2. PICK t \in ToSend(p) : t.id = e.id
      BY <1>11 DEF Ids
    <3>3. m.id \in p.uploaded \/ m \in Pending(p)
      BY <2>3, <3>1 DEF Pending, p
    <3>4. m \in Pending(p) => m \in ToSend(p)
      BY <1>3, <2>3, <3>2, OldestFirst
    <3>5. m \in ToSend(p) => m.id \in Ids(batch)
      BY <1>7 DEF Ids, batch
    <3> QED
      BY <3>1, <3>3, <3>4, <3>5 DEF p
  <2>4. \A r \in requests' : r \in requests \/ r.batch = batch
    BY <1>9
  <2>5. ASSUME NEW d \in Computer, NEW r \in requests', NEW e \in r.batch,
               e.device = profile'[d].device,
               NEW m \in profile'[d].mutations, m.replicated, m.id < e.id
        PROVE  m.id \in Ids(r.batch) \cup profile'[d].uploaded
    BY <1>2, <1>6, <2>3, <2>4, <2>5 DEF SentInOrder
  <2> QED
    BY <2>2, <2>5 DEF SentInOrder
<1>19. StoredInOrder'
  BY <1>2, <1>4, <1>6 DEF StoredInOrder
<1> QED
  BY <1>16, <1>17, <1>18, <1>19

LEMMA NextUndisturbed == Strong /\ [Next]_vars => Undisturbed'
<1> SUFFICES ASSUME Strong, [Next]_vars PROVE Undisturbed'
  OBVIOUS
<1>1. ASSUME NEW c \in Computer, Restore(c) PROVE Undisturbed'
  BY <1>1 DEF Restore, Undisturbed, Strong, IInv, TypeOK
<1>2. ASSUME NEW c \in Computer, Export(c) PROVE Undisturbed'
  BY <1>2, QuietUndisturbed DEF Export
<1>3. ASSUME NEW c \in Computer, Refused(c) PROVE Undisturbed'
  <2>1. \A d \in Computer : answer'[d] \in {"none", answer[d]}
    BY <1>3 DEF Refused, Strong, IInv, TypeOK
  <2> QED
    BY <1>3, <2>1, QuietUndisturbed DEF Refused
<1>4. ASSUME NEW c \in Computer, GiveUp(c) PROVE Undisturbed'
  <2>1. \A d \in Computer : answer'[d] \in {"none", answer[d]}
    BY <1>4 DEF GiveUp, Strong, IInv, TypeOK
  <2>2. \A r \in requests' : \E q \in requests : r.batch = q.batch
    BY <1>4, NotAwaited DEF GiveUp, Strong
  <2> QED
    BY <1>4, <2>1, <2>2, QuietUndisturbed DEF GiveUp
<1>5. ASSUME NEW r \in requests, Lose(r) PROVE Undisturbed'
  BY <1>5, QuietUndisturbed DEF Lose
<1>6. CASE UNCHANGED vars
  BY <1>6, QuietUndisturbed DEF vars
<1>7. ASSUME NEW c \in Computer, Student(c) PROVE Undisturbed'
  BY <1>1, <1>2, <1>7, RecordUndisturbed, ReplaceUndisturbed DEF Student
<1>8. ASSUME NEW c \in Computer, Synchronize(c) PROVE Undisturbed'
  BY <1>3, <1>8, ProtectUndisturbed, ConnectUndisturbed, PushUndisturbed, AcknowledgeUndisturbed
     DEF Synchronize
<1> QED
  BY <1>4, <1>5, <1>6, <1>7, <1>8, ServeUndisturbed DEF Next

LEMMA StrongInvariance == Spec => []Strong
<1>1. Init => Strong
  BY InitInv, InitUndisturbed DEF Strong
<1>2. Strong /\ [Next]_vars => Strong'
  BY NextInv, NextUndisturbed DEF Strong
<1> QED
  BY <1>1, <1>2, PTL DEF Spec

\* However often calls are given up, requests come late or computers are
\* replaced, the service never refuses a retry as a substitution.
THEOREM RetriesAreTheSame == Spec => []RetriesAreIdempotent
<1>1. Strong => RetriesAreIdempotent
  <2> SUFFICES ASSUME Strong, restores = 0
               PROVE  /\ \A c \in Computer : answer[c] # "conflict"
                      /\ \A r \in requests : ~Substituted(r.batch)
    BY DEF RetriesAreIdempotent
  <2>1. SentOnce
    BY DEF Strong, Undisturbed
  <2> QED
    BY <2>1 DEF SentOnce, Sent, Substituted
<1> QED
  BY <1>1, StrongInvariance, PTL

\* A profile's mutations are stored in the order they were recorded, in batches
\* of any size, however requests overtake each other.
THEOREM StoresInOrder == Spec => []StoredInOrder
<1>1. Strong => StoredInOrder
  BY DEF Strong, Undisturbed, StoredInOrder
<1> QED
  BY <1>1, StrongInvariance, PTL
-----------------------------------------------------------------------------
(* Whose identity uploaded what, with restored backups and replaced computers *)

\* What a profile marked uploaded is stored under the profile's own identity.
UnderOwn(p) == \A e \in StoredEnvelopes : e.id \in p.uploaded => e.device = p.device

\* A profile is connected as the device its mutations name, and no identity
\* that is still to be made is named by any.
KnownDevice(p) ==
  /\ p.device = p.connected
  /\ p.device # None => p.device <= identities

\* A push is of the computer's own identity, and is stored as it was sent.
OwnPushes ==
  /\ \A c \in Computer : identity[c] # None => identity[c] <= identities
  /\ \A c \in Computer : push[c] # {} =>
       identity[c] # None /\ \A e \in push[c] : e.device = identity[c]
  /\ \A c \in Computer : answer[c] = "stored" => push[c] \subseteq StoredEnvelopes

\* The one backup there is was made before any was restored: until then every
\* profile holds what its own identity uploaded, pushes in progress included.
OwnBackup ==
  /\ backup # None => KnownDevice(backup) /\ UnderOwn(backup)
  /\ backup = None => \A c \in Computer :
       UnderOwn(profile[c]) /\ (push[c] # {} => profile[c].device = identity[c])

Own ==
  /\ \A c \in Computer : KnownDevice(profile[c])
  /\ OwnPushes
  /\ OwnBackup
  /\ UploadedUnderOwnIdentity

Owned == IInv /\ Own

LEMMA InitOwn == Init => Own
BY DEF Init, Own, KnownDevice, OwnPushes, OwnBackup, UnderOwn, UploadedUnderOwnIdentity,
   EmptyProfile, StoredEnvelopes

\* Nothing is stored, marked uploaded, bound or encrypted.
LEMMA QuietOwn ==
  ASSUME Owned,
         \A d \in Computer : /\ profile'[d].uploaded = profile[d].uploaded
                             /\ profile'[d].device = profile[d].device
                             /\ profile'[d].connected = profile[d].connected,
         \A d \in Computer : \/ push'[d] = push[d] /\ answer'[d] = answer[d]
                             \/ push'[d] = {} /\ answer'[d] = "none",
         UNCHANGED <<identity, identities, rows, backup>>
  PROVE  Own'
<1>1. StoredEnvelopes' = StoredEnvelopes
  BY DEF StoredEnvelopes
<1>2. \A d \in Computer : KnownDevice(profile[d])'
  BY DEF Owned, Own, KnownDevice
<1>3. OwnPushes'
  BY <1>1 DEF Owned, Own, OwnPushes
<1>4. \A d \in Computer : UnderOwn(profile[d]) => UnderOwn(profile[d])'
  BY <1>1 DEF UnderOwn
<1>5. OwnBackup'
  BY <1>1, <1>4 DEF Owned, Own, OwnBackup, UnderOwn, KnownDevice
<1>6. UploadedUnderOwnIdentity'
  BY <1>1 DEF Owned, Own, UploadedUnderOwnIdentity
<1> QED
  BY <1>2, <1>3, <1>5, <1>6 DEF Own

LEMMA RecordOwn ==
  ASSUME Owned, NEW c \in Computer, NEW replicated \in BOOLEAN, Record(c, replicated)
  PROVE  Own'
<1>1. \A d \in Computer : /\ profile'[d].uploaded = profile[d].uploaded
                          /\ profile'[d].device = profile[d].device
                          /\ profile'[d].connected = profile[d].connected
  BY KnownProfile DEF Record, Owned, IInv, TypeOK, Profile
<1> QED
  BY <1>1, QuietOwn DEF Record

\* A new identity is no profile's yet.
LEMMA ProtectOwn ==
  ASSUME Owned, NEW c \in Computer, Protect(c)
  PROVE  Own'
<1>1. /\ identities \in Nat /\ identities' = identities + 1
      /\ \A d \in Computer : identity'[d] = IF d = c THEN identities + 1 ELSE identity[d]
      /\ identity[c] = None
      /\ UNCHANGED <<profile, backup, push, answer, rows>>
  BY DEF Protect, Owned, IInv, TypeOK
<1>2. StoredEnvelopes' = StoredEnvelopes
  BY <1>1 DEF StoredEnvelopes
<1>3. \A d \in Computer : profile[d].device \in Nat \cup {None} /\ identity[d] \in Nat \cup {None}
  BY KnownProfile DEF Owned, IInv, TypeOK, Profile
<1>4. backup # None => backup.device \in Nat \cup {None}
  BY DEF Owned, IInv, TypeOK, Profile
<1>5. \A d \in Computer : KnownDevice(profile[d])'
  BY <1>1, <1>3 DEF Owned, Own, KnownDevice
<1>6. push[c] = {}
  BY <1>1 DEF Owned, Own, OwnPushes
<1>7. OwnPushes'
  BY <1>1, <1>2, <1>3, <1>6 DEF Owned, Own, OwnPushes
<1>8. OwnBackup'
  BY <1>1, <1>2, <1>4, <1>6 DEF Owned, Own, OwnBackup, UnderOwn, KnownDevice
<1>9. profile[c].connected # identities + 1
  BY <1>1, <1>3, UploadAssumption DEF Owned, Own, KnownDevice
<1>10. UploadedUnderOwnIdentity'
  BY <1>1, <1>2, <1>9 DEF Owned, Own, UploadedUnderOwnIdentity
<1> QED
  BY <1>5, <1>7, <1>8, <1>10 DEF Own

\* A profile is bound to another identity only while it marked nothing uploaded.
LEMMA ConnectOwn ==
  ASSUME Owned, NEW c \in Computer, Connect(c)
  PROVE  Own'
<1> DEFINE q == [Rebound(profile[c], identity[c]) EXCEPT !.connected = identity[c]]
<1>1. /\ identity[c] # None /\ identity[c] \in Nat
      /\ profile[c].connected # identity[c]
      /\ profile[c].device = identity[c] \/ profile[c].uploaded = {}
      /\ profile' = [profile EXCEPT ![c] = q]
      /\ UNCHANGED <<identity, backup, push, answer, rows, identities>>
  BY DEF Connect, MayBind, Owned, IInv, TypeOK
<1>2. profile[c].device = profile[c].connected
  BY DEF Owned, Own, KnownDevice
<1>3. q.device = identity[c] /\ q.connected = identity[c] /\ q.uploaded = {}
  BY <1>1, <1>2, KnownProfile DEF Rebound, Owned, Profile
<1> HIDE DEF q
<1>4. \A d \in Computer : profile'[d] = IF d = c THEN q ELSE profile[d]
  BY <1>1 DEF Owned, IInv, TypeOK
<1>5. StoredEnvelopes' = StoredEnvelopes
  BY <1>1 DEF StoredEnvelopes
<1>6. OwnPushes'
  BY <1>1, <1>5 DEF Owned, Own, OwnPushes
<1>7. \A d \in Computer : KnownDevice(profile[d])'
  BY <1>1, <1>3, <1>4, <1>6 DEF Owned, Own, KnownDevice, OwnPushes
<1>8. \A d \in Computer : UnderOwn(profile[d]) => UnderOwn(profile[d])'
  BY <1>3, <1>4, <1>5 DEF UnderOwn
<1>9. OwnBackup'
  BY <1>1, <1>3, <1>4, <1>5, <1>8 DEF Owned, Own, OwnBackup, UnderOwn, KnownDevice
<1>10. UploadedUnderOwnIdentity'
  BY <1>1, <1>3, <1>4, <1>5 DEF Owned, Own, UploadedUnderOwnIdentity
<1> QED
  BY <1>6, <1>7, <1>9, <1>10 DEF Own

LEMMA ExportOwn ==
  ASSUME Owned, NEW c \in Computer, Export(c)
  PROVE  Own'
<1>1. /\ backup = None /\ backup' = profile[c]
      /\ UNCHANGED <<identity, profile, push, answer, rows, identities>>
  BY DEF Export
<1>2. StoredEnvelopes' = StoredEnvelopes
  BY <1>1 DEF StoredEnvelopes
<1>3. KnownDevice(profile[c]) /\ UnderOwn(profile[c])
  BY <1>1 DEF Owned, Own, OwnBackup
<1>4. OwnBackup'
  BY <1>1, <1>2, <1>3 DEF Owned, Own, OwnBackup, KnownDevice, UnderOwn
<1> QED
  BY <1>1, <1>2, <1>4 DEF Owned, Own, OwnPushes, KnownDevice, UploadedUnderOwnIdentity

LEMMA RestoreOwn ==
  ASSUME Owned, NEW c \in Computer, Restore(c)
  PROVE  Own'
<1>1. /\ backup # None
      /\ \A d \in Computer : profile'[d] = IF d = c THEN backup ELSE profile[d]
      /\ UNCHANGED <<identity, backup, push, answer, rows, identities>>
  BY DEF Restore, Owned, IInv, TypeOK
<1>2. StoredEnvelopes' = StoredEnvelopes
  BY <1>1 DEF StoredEnvelopes
<1>3. KnownDevice(backup) /\ UnderOwn(backup)
  BY <1>1 DEF Owned, Own, OwnBackup
<1>4. \A d \in Computer : KnownDevice(profile[d])'
  BY <1>1, <1>3 DEF Owned, Own, KnownDevice
<1>5. OwnPushes'
  BY <1>1, <1>2 DEF Owned, Own, OwnPushes
<1>6. OwnBackup'
  BY <1>1, <1>2, <1>3 DEF OwnBackup, UnderOwn, KnownDevice
<1>7. UploadedUnderOwnIdentity'
  BY <1>1, <1>2, <1>3 DEF Owned, Own, UploadedUnderOwnIdentity, UnderOwn
<1> QED
  BY <1>4, <1>5, <1>6, <1>7 DEF Own

\* What is sent again, and what is encrypted now, is the computer's own.
LEMMA PushOwn ==
  ASSUME Owned, NEW c \in Computer, Push(c)
  PROVE  Own'
<1> DEFINE p == profile[c]
<1>1. PICK nonce \in Fresh :
        LET saved == Reusable(p)
            new   == {[id |-> m.id, device |-> p.device, nonce |-> nonce] :
                        m \in {n \in ToSend(p) : n.id \notin Ids(saved)}}
            kept  == {e \in p.outbox : e.id \notin Ids(new)}
        IN  /\ push' = [push EXCEPT ![c] = saved \cup new]
            /\ profile' = [profile EXCEPT ![c].outbox = kept \cup new]
  BY DEF Push
<1> DEFINE saved == Reusable(p)
           new   == {[id |-> m.id, device |-> p.device, nonce |-> nonce] :
                       m \in {n \in ToSend(p) : n.id \notin Ids(saved)}}
           kept  == {e \in p.outbox : e.id \notin Ids(new)}
           batch == saved \cup new
           outbox == kept \cup new
<1>2. \A e \in batch : e.device = p.device
  <2>1. \A e \in saved : e.device = p.device
    BY DEF Reusable
  <2>2. \A e \in new : e.device = p.device
    OBVIOUS
  <2> QED
    BY ONLY <2>1, <2>2
<1>3. push' = [push EXCEPT ![c] = batch] /\ profile' = [profile EXCEPT ![c].outbox = outbox]
  BY <1>1
<1>4. /\ p.device = identity[c] /\ identity[c] # None
      /\ answer' = [answer EXCEPT ![c] = "none"]
      /\ UNCHANGED <<identity, backup, rows, identities>>
  BY DEF Push
<1> HIDE DEF batch, outbox, saved, new, kept
<1>5. \A d \in Computer : /\ profile'[d].uploaded = profile[d].uploaded
                          /\ profile'[d].device = profile[d].device
                          /\ profile'[d].connected = profile[d].connected
  BY <1>3, KnownProfile DEF Owned, IInv, TypeOK, Profile
<1>6. \A d \in Computer : /\ push'[d] = IF d = c THEN batch ELSE push[d]
                          /\ answer'[d] = IF d = c THEN "none" ELSE answer[d]
  BY <1>3, <1>4 DEF Owned, IInv, TypeOK
<1>7. StoredEnvelopes' = StoredEnvelopes
  BY <1>4 DEF StoredEnvelopes
<1>8. \A d \in Computer : KnownDevice(profile[d])'
  BY <1>4, <1>5 DEF Owned, Own, KnownDevice
<1>9. OwnPushes'
  BY <1>2, <1>4, <1>6, <1>7 DEF Owned, Own, OwnPushes
<1>10. \A d \in Computer : UnderOwn(profile[d]) => UnderOwn(profile[d])'
  BY <1>5, <1>7 DEF UnderOwn
<1>11. OwnBackup'
  BY <1>4, <1>5, <1>6, <1>7, <1>10 DEF Owned, Own, OwnBackup, UnderOwn, KnownDevice
<1>12. UploadedUnderOwnIdentity'
  BY <1>4, <1>5, <1>7 DEF Owned, Own, UploadedUnderOwnIdentity
<1> QED
  BY <1>8, <1>9, <1>11, <1>12 DEF Own

\* What is stored now was marked uploaded by nobody, and what is answered
\* "stored" is stored as it was sent.
LEMMA ServeOwn ==
  ASSUME Owned, NEW r \in requests, Serve(r)
  PROVE  Own'
<1>1. r \in Request /\ GoodBatch(r.batch) /\ RowsSound(rows)
  BY DEF Owned, IInv, TypeOK
<1>2. UNCHANGED <<identity, profile, backup, push, identities>>
  BY DEF Serve
<1>3. /\ StoredEnvelopes \subseteq StoredEnvelopes'
      /\ \A e \in StoredEnvelopes' : e \in StoredEnvelopes \/ e.id \notin Ids(StoredEnvelopes)
      /\ Verdict(r) = "stored" => r.batch \subseteq StoredEnvelopes'
  <2>1. CASE Substituted(r.batch)
    BY <2>1 DEF Serve, Verdict, StoredEnvelopes
  <2>2. CASE ~Substituted(r.batch)
    <3>1. rows' = rows \cup Appended(r.batch)
      BY <2>2 DEF Serve
    <3>2. StoredEnvelopes' = StoredEnvelopes \cup {s.envelope : s \in Appended(r.batch)}
      BY <3>1 DEF StoredEnvelopes
    <3>3. {s.envelope : s \in Appended(r.batch)} = Missing(r.batch)
      <4> DEFINE row(e) ==
            [sequence |-> Cardinality(rows) + Cardinality({f \in Missing(r.batch) : f.id <= e.id}),
             envelope |-> e]
      <4>1. Appended(r.batch) = {row(e) : e \in Missing(r.batch)}
        BY DEF Appended
      <4>2. \A e \in Missing(r.batch) : row(e).envelope = e
        OBVIOUS
      <4> HIDE DEF row
      <4> QED
        BY ONLY <4>1, <4>2
    <3>4. \A e \in Missing(r.batch) : e.id \notin Ids(StoredEnvelopes)
      BY DEF Missing
    <3>5. \A e \in r.batch : e \in StoredEnvelopes \/ e \in Missing(r.batch)
      BY <2>2 DEF Substituted, Missing, Ids
    <3> QED
      BY <3>2, <3>3, <3>4, <3>5
  <2> QED
    BY <2>1, <2>2
<1>4. r.awaited => push[r.from] = r.batch
  BY DEF Owned, IInv, PushSound
<1>5. \A c \in Computer :
        \/ answer'[c] = answer[c]
        \/ r.awaited /\ c = r.from /\ answer'[c] = Verdict(r)
  BY <1>1 DEF Serve, Answers, Owned, IInv, TypeOK
<1>6. OwnPushes'
  BY <1>2, <1>3, <1>4, <1>5 DEF Owned, Own, OwnPushes
<1>7. ASSUME NEW p, p.uploaded \subseteq Ids(StoredEnvelopes), NEW e \in StoredEnvelopes',
             e.id \in p.uploaded
      PROVE  e \in StoredEnvelopes
  BY <1>3, <1>7
<1>8. \A c \in Computer : UnderOwn(profile[c]) => UnderOwn(profile[c])'
  BY <1>2, <1>7, KnownProfile DEF UnderOwn, Owned
<1>9. backup # None => backup.uploaded \subseteq Ids(StoredEnvelopes)
  BY DEF Owned, IInv, PushSound
<1>10. OwnBackup'
  BY <1>2, <1>7, <1>8, <1>9 DEF Owned, Own, OwnBackup, UnderOwn, KnownDevice
<1>11. UploadedUnderOwnIdentity'
  BY <1>2, <1>7, KnownProfile DEF Owned, Own, UploadedUnderOwnIdentity
<1> QED
  BY <1>2, <1>6, <1>10, <1>11 DEF Owned, Own, KnownDevice

\* What is marked uploaded now is stored as this computer sent it, and so under
\* its identity: the profile's own, unless it was restored meanwhile.
LEMMA AcknowledgeOwn ==
  ASSUME Owned, NEW c \in Computer, Acknowledge(c)
  PROVE  Own'
<1> DEFINE q == Acknowledged(profile[c], push[c])
<1>1. \A d \in Computer : /\ push'[d] = IF d = c THEN {} ELSE push[d]
                          /\ answer'[d] = IF d = c THEN "none" ELSE answer[d]
  BY DEF Acknowledge, Owned, IInv, TypeOK
<1>2. UNCHANGED <<identity, identities, rows, backup>>
  BY DEF Acknowledge
<1>3. CASE profile' = profile
  BY <1>1, <1>2, <1>3, QuietOwn
<1>4. CASE profile' = [profile EXCEPT ![c] = q]
  <2>1. /\ push[c] \in SUBSET Envelope /\ push[c] # {} /\ push[c] \subseteq StoredEnvelopes
        /\ \A e \in push[c] : e.device = identity[c]
        /\ identity[c] # None
    BY DEF Acknowledge, Owned, Own, OwnPushes, IInv, TypeOK, PushSound
  <2>2. q.uploaded = profile[c].uploaded \cup Ids(push[c])
    BY <2>1, KnownProfile, AcknowledgedWellFormed DEF Owned
  <2>3. q.device = profile[c].device /\ q.connected = profile[c].connected
    BY KnownProfile DEF Acknowledged, Owned, Profile
  <2> HIDE DEF q
  <2>4. \A d \in Computer : profile'[d] = IF d = c THEN q ELSE profile[d]
    BY <1>4 DEF Owned, IInv, TypeOK
  <2>5. StoredEnvelopes' = StoredEnvelopes
    BY <1>2 DEF StoredEnvelopes
  <2>6. \A e, f \in StoredEnvelopes : e.id = f.id => e = f
    BY DEF Owned, IInv, RowsSound, StoredEnvelopes
  <2>7. \A e \in StoredEnvelopes : e.id \in Ids(push[c]) => e.device = identity[c]
    BY <2>1, <2>6 DEF Ids
  <2>8. \A d \in Computer : KnownDevice(profile[d])'
    BY <1>2, <2>3, <2>4 DEF Owned, Own, KnownDevice
  <2>9. OwnPushes'
    BY <1>1, <1>2, <2>5 DEF Owned, Own, OwnPushes
  <2>10. backup = None => \A d \in Computer : UnderOwn(profile[d])'
    BY <2>1, <2>2, <2>3, <2>4, <2>5, <2>7 DEF Owned, Own, OwnBackup, UnderOwn
  <2>11. backup = None => \A d \in Computer : push'[d] # {} => profile'[d].device = identity'[d]
    BY <1>1, <1>2, <2>3, <2>4 DEF Owned, Own, OwnBackup
  <2>12. OwnBackup'
    BY <1>2, <2>5, <2>10, <2>11 DEF Owned, Own, OwnBackup, UnderOwn, KnownDevice
  <2>13. profile[c].device = profile[c].connected
    BY DEF Owned, Own, KnownDevice
  <2>14. UploadedUnderOwnIdentity'
    BY <1>2, <2>2, <2>3, <2>4, <2>5, <2>7, <2>13 DEF Owned, Own, UploadedUnderOwnIdentity
  <2> QED
    BY <2>8, <2>9, <2>12, <2>14 DEF Own
<1> QED
  BY <1>3, <1>4 DEF Acknowledge

LEMMA ReplaceOwn ==
  ASSUME Owned, NEW c \in Computer, Replace(c)
  PROVE  Own'
<1>1. /\ \A d \in Computer : /\ identity'[d] = IF d = c THEN None ELSE identity[d]
                             /\ profile'[d] = IF d = c THEN EmptyProfile ELSE profile[d]
                             /\ push'[d] = IF d = c THEN {} ELSE push[d]
                             /\ answer'[d] = IF d = c THEN "none" ELSE answer[d]
      /\ UNCHANGED <<backup, rows, identities>>
  BY DEF Replace, Owned, IInv, TypeOK
<1>2. StoredEnvelopes' = StoredEnvelopes
  BY <1>1 DEF StoredEnvelopes
<1>3. EmptyProfile.uploaded = {} /\ EmptyProfile.device = None /\ EmptyProfile.connected = None
  BY DEF EmptyProfile
<1>4. \A d \in Computer : KnownDevice(profile[d])'
  BY <1>1, <1>3 DEF Owned, Own, KnownDevice
<1>5. OwnPushes'
  BY <1>1, <1>2 DEF Owned, Own, OwnPushes
<1>6. \A d \in Computer : UnderOwn(profile[d]) => UnderOwn(profile[d])'
  BY <1>1, <1>2, <1>3 DEF UnderOwn
<1>7. OwnBackup'
  BY <1>1, <1>2, <1>6 DEF Owned, Own, OwnBackup, UnderOwn, KnownDevice
<1>8. UploadedUnderOwnIdentity'
  BY <1>1, <1>2 DEF Owned, Own, UploadedUnderOwnIdentity
<1> QED
  BY <1>4, <1>5, <1>7, <1>8 DEF Own

LEMMA NextOwn == Owned /\ [Next]_vars => Own'
<1> SUFFICES ASSUME Owned, [Next]_vars PROVE Own'
  OBVIOUS
<1>1. ASSUME NEW c \in Computer, Refused(c) \/ GiveUp(c) PROVE Own'
  <2>1. \A d \in Computer : \/ push'[d] = push[d] /\ answer'[d] = answer[d]
                            \/ push'[d] = {} /\ answer'[d] = "none"
    BY <1>1 DEF Refused, GiveUp, Owned, IInv, TypeOK
  <2> QED
    BY <1>1, <2>1, QuietOwn DEF Refused, GiveUp
<1>2. ASSUME NEW r \in requests, Lose(r) PROVE Own'
  BY <1>2, QuietOwn DEF Lose
<1>3. CASE UNCHANGED vars
  BY <1>3, QuietOwn DEF vars
<1>4. ASSUME NEW c \in Computer, Student(c) PROVE Own'
  BY <1>4, RecordOwn, ExportOwn, RestoreOwn, ReplaceOwn DEF Student
<1>5. ASSUME NEW c \in Computer, Synchronize(c) PROVE Own'
  BY <1>1, <1>5, ProtectOwn, ConnectOwn, PushOwn, AcknowledgeOwn DEF Synchronize
<1> QED
  BY <1>1, <1>2, <1>3, <1>4, <1>5, ServeOwn DEF Next

\* However a profile is exported, restored, bound and replaced, also while a
\* push is in progress: what a connected profile marked uploaded is stored
\* under its own identity.
THEOREM UploadsAreOwn == Spec => []UploadedUnderOwnIdentity
<1>1. Init => Owned
  BY InitInv, InitOwn DEF Owned
<1>2. Owned /\ [Next]_vars => Owned'
  BY NextInv, NextOwn DEF Owned
<1>3. Owned => UploadedUnderOwnIdentity
  BY DEF Owned, Own
<1> QED
  BY <1>1, <1>2, <1>3, PTL DEF Spec
=============================================================================

--------------------------- MODULE KeyAssignProofs ---------------------------
(***************************************************************************)
(* The list of synthesizer/key_assign.c stays well formed for every number *)
(* of voices, every set of notes and any number of calling threads.  The   *)
(* order of the held keys is not inductive on its own: relinking needs the *)
(* list to be a permutation, and both need its type.  With these the list  *)
(* splits into the two queues of the allocation policy.                    *)
(***************************************************************************)
EXTENDS KeyAssign, FiniteSetTheorems, SequenceTheorems, TLAPS

(* The operators of KeyList, whatever calls them.                          *)

\* Relinking one key keeps the list a list of keys (key_assign.c 42-46, 73-84).
LEMMA RelinkedType ==
  ASSUME NEW ks \in [Positions -> Keys], NEW i \in Positions, NEW j \in Positions
  PROVE  Relinked(ks, i, j) \in [Positions -> Keys]
  BY MaxNotesAssumption DEF Relinked, Positions, Keys

\* Relinking one key neither loses nor repeats a key (key_assign.c 42-46, 73-84).
LEMMA RelinkedIsPermutation ==
  ASSUME NEW ks \in [Positions -> Keys], NEW i \in Positions, NEW j \in Positions,
         IsPermutation(ks)
  PROVE  IsPermutation(Relinked(ks, i, j))
<1> DEFINE From(p) == IF p = j THEN i
                      ELSE IF p \in j + 1 .. i THEN p - 1
                      ELSE IF p \in i .. j - 1 THEN p + 1
                      ELSE p
           To(q) == IF q = i THEN j
                    ELSE IF q \in j .. i - 1 THEN q + 1
                    ELSE IF q \in i + 1 .. j THEN q - 1
                    ELSE q
<1>1. \A p \in Positions : From(p) \in Positions /\ To(From(p)) = p
  BY MaxNotesAssumption DEF Positions
<1>2. \A q \in Positions : To(q) \in Positions /\ From(To(q)) = q
  BY MaxNotesAssumption DEF Positions
<1>3. \A p \in Positions : Relinked(ks, i, j)[p] = ks[From(p)]
  BY MaxNotesAssumption DEF Relinked, Positions
<1> HIDE DEF From, To
<1>4. ASSUME NEW p \in Positions, NEW q \in Positions, p # q
      PROVE  Relinked(ks, i, j)[p] # Relinked(ks, i, j)[q]
  BY <1>1, <1>3, <1>4 DEF IsPermutation
<1>5. ASSUME NEW k \in Keys
      PROVE  \E p \in Positions : Relinked(ks, i, j)[p] = k
  <2>1. PICK q \in Positions : ks[q] = k
    BY DEF IsPermutation
  <2>2. Relinked(ks, i, j)[To(q)] = k
    BY <1>2, <1>3, <2>1
  <2> QED
    BY <1>2, <2>2
<1> QED
  BY <1>4, <1>5 DEF IsPermutation

\* The initial list holds every key once (keys_init, key_assign.c 22-27).
LEMMA InitialListIsPermutation ==
  InitialList \in [Positions -> Keys] /\ IsPermutation(InitialList)
<1>1. InitialList \in [Positions -> Keys]
  BY MaxNotesAssumption DEF InitialList, Positions, Keys
<1>2. \A p, q \in Positions : p # q => InitialList[p] # InitialList[q]
  BY MaxNotesAssumption DEF InitialList, Positions
<1>3. ASSUME NEW k \in Keys
      PROVE  \E p \in Positions : InitialList[p] = k
  <2>1. MAX_NOTES - k \in Positions /\ InitialList[MAX_NOTES - k] = k
    BY MaxNotesAssumption DEF InitialList, Positions, Keys
  <2> QED
    BY <2>1
<1> QED
  BY <1>1, <1>2, <1>3 DEF IsPermutation

\* After keys_play the held keys are still in front: the new head is held, and
\* the others keep their order (key_assign.c 42-48).
LEMMA PlayKeepsOrder ==
  ASSUME NEW ks \in [Positions -> Keys], NEW bound \in [Keys -> Nat],
         NEW n \in Nat \ {Unused},
         IsPermutation(ks), UsedBeforeUnused(ks, bound)
  PROVE  UsedBeforeUnused(PlayedList(ks), PlayedNotes(ks, bound, n))
<1> DEFINE l == PlayedList(ks)
           m == PlayedNotes(ks, bound, n)
<1>1. MAX_NOTES \in Positions /\ 1 \in Positions
  BY MaxNotesAssumption DEF Positions
<1>2. m[l[1]] # Unused
  BY <1>1, MaxNotesAssumption DEF PlayedList, PlayedNotes, PlayedKey, Relinked, Positions, Keys, Unused
<1>3. ASSUME NEW p \in Positions, p # 1
      PROVE  /\ p - 1 \in Positions
             /\ m[l[p]] = bound[ks[p - 1]]
  BY <1>1, <1>3, MaxNotesAssumption
     DEF PlayedList, PlayedNotes, PlayedKey, Relinked, Positions, IsPermutation, Keys
<1>4. ASSUME NEW p \in Positions, NEW q \in Positions, p < q, m[l[q]] # Unused
      PROVE  m[l[p]] # Unused
  <2>1. q # 1 /\ (p # 1 => p - 1 < q - 1)
    BY <1>4 DEF Positions
  <2> HIDE DEF l, m
  <2> QED
    BY <1>2, <1>3, <1>4, <2>1 DEF UsedBeforeUnused
<1> QED
  BY <1>4 DEF UsedBeforeUnused

\* After keys_stop the held keys are still in front: the released key is put
\* behind the last of them (key_assign.c 73-86).
LEMMA StopKeepsOrder ==
  ASSUME NEW ks \in [Positions -> Keys], NEW bound \in [Keys -> Nat],
         NEW i \in Positions, NEW j \in Positions,
         StopReinsertsAt(ks, bound, i, j),
         IsPermutation(ks), UsedBeforeUnused(ks, bound)
  PROVE  UsedBeforeUnused(Relinked(ks, i, j), StoppedNotes(bound, ks[i]))
<1> DEFINE l == Relinked(ks, i, j)
           m == StoppedNotes(bound, ks[i])
<1>1. i =< j /\ j =< MAX_NOTES
  BY DEF StopReinsertsAt, Positions
<1>2. m[l[j]] = Unused
  BY DEF StoppedNotes, Relinked, Keys
<1>3. ASSUME NEW q \in Positions, q > j
      PROVE  m[l[q]] = Unused
  <2>1. l[q] = ks[q] /\ q # i
    BY <1>1, <1>3 DEF Relinked, Positions
  <2>2. j + 1 \in Positions /\ bound[ks[j + 1]] = Unused /\ j + 1 =< q
    BY <1>3, MaxNotesAssumption DEF StopReinsertsAt, Positions
  <2>3. bound[ks[q]] = Unused
    BY <2>2 DEF UsedBeforeUnused, Positions
  <2> QED
    BY <2>1, <2>3 DEF StoppedNotes, Keys
<1>4. ASSUME NEW q \in Positions, q < j
      PROVE  \/ q < i /\ m[l[q]] = bound[ks[q]]
             \/ q >= i /\ q + 1 \in Positions /\ m[l[q]] = bound[ks[q + 1]]
  <2>1. CASE q < i
    <3>1. l[q] = ks[q] /\ ks[q] # ks[i]
      BY <1>4, <1>1, <2>1 DEF Relinked, Positions, IsPermutation
    <3> QED
      BY <2>1, <3>1 DEF StoppedNotes, Keys
  <2>2. CASE q >= i
    <3>1. q + 1 \in Positions /\ q + 1 # i
      BY <1>1, <1>4, <2>2, MaxNotesAssumption DEF Positions
    <3>2. l[q] = ks[q + 1] /\ ks[q + 1] # ks[i]
      BY <1>4, <1>1, <2>2, <3>1 DEF Relinked, Positions, IsPermutation
    <3> QED
      BY <2>2, <3>1, <3>2 DEF StoppedNotes, Keys
  <2> QED
    BY <2>1, <2>2 DEF Positions
<1>5. ASSUME NEW p \in Positions, NEW q \in Positions, p < q, m[l[q]] # Unused
      PROVE  m[l[p]] # Unused
  <2> HIDE DEF l, m
  <2>1. q < j
    BY <1>2, <1>3, <1>5 DEF Positions
  <2>2. p < j
    BY <1>5, <2>1 DEF Positions
  <2> QED
    BY <1>4, <1>5, <2>1, <2>2 DEF UsedBeforeUnused, Positions
<1> QED
  BY <1>5 DEF UsedBeforeUnused

-----------------------------------------------------------------------------
(* The list of keys.                                                        *)

ListInv == TypeOK /\ NoKeyLost /\ HeldKeysFirst

LEMMA ListInvInit == Init => ListInv
<1> SUFFICES ASSUME Init PROVE ListInv
  OBVIOUS
<1>1. IsPermutation(list) /\ list \in [Positions -> Keys]
  BY InitialListIsPermutation DEF Init
<1>2. TypeOK
  BY <1>1 DEF Init, TypeOK, InitialNotes, NoCall, Unused
<1>3. HeldKeysFirst
  BY <1>1 DEF Init, HeldKeysFirst, UsedBeforeUnused, InitialNotes
<1> QED
  BY <1>1, <1>2, <1>3 DEF ListInv, NoKeyLost

LEMMA ListFacts ==
  ASSUME ListInv
  PROVE  /\ note \in [Keys -> Nat]
         /\ list \in [Positions -> Keys]
         /\ IsPermutation(list)
         /\ UsedBeforeUnused(list, note)
<1>1. Notes \cup {Unused} \subseteq Nat
  BY NotesAssumption DEF Unused
<1>2. note \in [Keys -> Nat]
  BY <1>1 DEF ListInv, TypeOK
<1> QED
  BY <1>2 DEF ListInv, TypeOK, NoKeyLost, HeldKeysFirst

LEMMA ListInvNext == ListInv /\ [Next]_vars => ListInv'
<1> SUFFICES ASSUME ListInv, [Next]_vars PROVE ListInv'
  OBVIOUS
<1> USE DEF ListInv
<1>1. /\ note \in [Keys -> Nat]
      /\ list \in [Positions -> Keys]
      /\ IsPermutation(list)
      /\ UsedBeforeUnused(list, note)
  BY ListFacts
<1>2. MAX_NOTES \in Positions /\ 1 \in Positions
  BY MaxNotesAssumption DEF Positions
<1>3. ASSUME NEW c \in Callers, NEW n \in Notes, keys_play(c, n)
      PROVE  ListInv'
  <2>1. list' \in [Positions -> Keys] /\ IsPermutation(list')
    BY <1>1, <1>2, <1>3, RelinkedType, RelinkedIsPermutation DEF keys_play, PlayedList
  <2>2. UsedBeforeUnused(list', note')
    BY <1>1, <1>3, PlayKeepsOrder, NotesAssumption DEF keys_play, Unused
  <2>3. TypeOK'
    BY <1>1, <1>2, <1>3, <2>1 DEF keys_play, TypeOK, PlayedNotes, PlayedKey
  <2> QED
    BY <2>1, <2>2, <2>3 DEF NoKeyLost, HeldKeysFirst
<1>4. ASSUME NEW c \in Callers, NEW n \in Notes, keys_stop(c, n)
      PROVE  ListInv'
  <2>1. PICK i \in Positions, j \in Positions :
           /\ StopReinsertsAt(list, note, i, j)
           /\ list' = Relinked(list, i, j)
           /\ note' = StoppedNotes(note, list[i])
           /\ pending' = [pending EXCEPT ![c] = [op |-> "stop", key |-> list[i]]]
    BY <1>4 DEF keys_stop
  <2>2. list' \in [Positions -> Keys] /\ IsPermutation(list')
    BY <1>1, <2>1, RelinkedType, RelinkedIsPermutation
  <2>3. UsedBeforeUnused(list', note')
    BY <1>1, <2>1, StopKeepsOrder
  <2>4. TypeOK'
    BY <1>1, <1>4, <2>1, <2>2 DEF keys_stop, TypeOK, StoppedNotes
  <2> QED
    BY <2>2, <2>3, <2>4 DEF NoKeyLost, HeldKeysFirst
<1>5. ASSUME NEW c \in Callers, play_cb(c) \/ stop_cb(c)
      PROVE  ListInv'
  <2>1. UNCHANGED <<list, note>>
    BY <1>5 DEF play_cb, stop_cb
  <2>2. pending[c].key \in Keys
    BY <1>5 DEF play_cb, stop_cb, TypeOK, NoCall
  <2>3. voice' \in [Keys -> Notes \cup {Unused}] /\ pending' \in [Callers -> {NoCall} \cup [op : {"play", "stop"}, key : Keys]]
    BY <1>5, <2>2 DEF play_cb, stop_cb, TypeOK
  <2> QED
    BY <2>1, <2>3 DEF TypeOK, NoKeyLost, HeldKeysFirst
<1>6. CASE UNCHANGED vars
  BY <1>6 DEF vars, TypeOK, NoKeyLost, HeldKeysFirst
<1> QED
  BY <1>3, <1>4, <1>5, <1>6 DEF Next

\* Type correctness of the key assignment (struct key, struct keys).
THEOREM KeyAssignTypeCorrect == Spec => []TypeOK
  BY ListInvInit, ListInvNext, PTL DEF Spec, ListInv

\* No sequence of keys_play and keys_stop, by any number of threads, loses or
\* repeats a key of the linked list (key_assign.c 42-46, 73-84).
THEOREM NoKeyEverLost == Spec => []NoKeyLost
  BY ListInvInit, ListInvNext, PTL DEF Spec, ListInv

\* The held keys always precede the unused ones, so that the walk of keys_stop
\* finds every held note before the check at key_assign.c 66 ends it.
THEOREM HeldKeysAlwaysFirst == Spec => []HeldKeysFirst
  BY ListInvInit, ListInvNext, PTL DEF Spec, ListInv

-----------------------------------------------------------------------------
(* The voices.  With one caller a key whose voice differs from its note is  *)
(* the key of the callback that caller is about to make.                    *)

SingleCaller == \A c, d \in Callers : c = d

VoiceInv ==
  /\ \A k \in Keys : voice[k] = note[k]
                     \/ \E c \in Callers : pending[c] # NoCall /\ pending[c].key = k
  /\ \A c \in Callers : pending[c].op = "stop" => note[pending[c].key] = Unused

LEMMA VoiceInvNext == SingleCaller /\ TypeOK /\ VoiceInv /\ [Next]_vars => VoiceInv'
<1> SUFFICES ASSUME SingleCaller, TypeOK, VoiceInv, [Next]_vars PROVE VoiceInv'
  OBVIOUS
<1>1. list \in [Positions -> Keys] /\ MAX_NOTES \in Positions
  BY MaxNotesAssumption DEF TypeOK, Positions
<1>2. ASSUME NEW c \in Callers, NEW k \in Keys, NEW o \in {"play", "stop"},
             pending[c] = NoCall, pending' = [pending EXCEPT ![c] = [op |-> o, key |-> k]],
             \A h \in Keys : h # k => note'[h] = note[h],
             o = "stop" => note'[k] = Unused, UNCHANGED voice
      PROVE  VoiceInv'
  <2>1. pending'[c] = [op |-> o, key |-> k] /\ pending'[c] # NoCall
    BY <1>2 DEF TypeOK, NoCall
  <2>2. \A h \in Keys : voice[h] = note[h]
    BY <1>2 DEF VoiceInv, SingleCaller
  <2>3. \A d \in Callers : d = c
    BY DEF SingleCaller
  <2> QED
    BY <1>2, <2>1, <2>2, <2>3 DEF VoiceInv
<1>3. ASSUME NEW c \in Callers, NEW n \in Notes, keys_play(c, n) PROVE VoiceInv'
  <2>1. PlayedKey(list) \in Keys
    BY <1>1 DEF PlayedKey
  <2>2. \A h \in Keys : h # PlayedKey(list) => note'[h] = note[h]
    BY <1>3 DEF keys_play, PlayedNotes, TypeOK
  <2> QED
    BY <1>2, <1>3, <2>1, <2>2 DEF keys_play
<1>4. ASSUME NEW c \in Callers, NEW n \in Notes, keys_stop(c, n) PROVE VoiceInv'
  <2>1. PICK i \in Positions :
           /\ note' = StoppedNotes(note, list[i])
           /\ pending' = [pending EXCEPT ![c] = [op |-> "stop", key |-> list[i]]]
    BY <1>4 DEF keys_stop
  <2>2. list[i] \in Keys
    BY <1>1
  <2>3. note'[list[i]] = Unused /\ \A h \in Keys : h # list[i] => note'[h] = note[h]
    BY <2>1, <2>2 DEF StoppedNotes, TypeOK
  <2> QED
    BY <1>2, <1>4, <2>1, <2>2, <2>3 DEF keys_stop
<1>5. ASSUME NEW c \in Callers, play_cb(c) \/ stop_cb(c) PROVE VoiceInv'
  <2> DEFINE k == pending[c].key
  <2>1. k \in Keys
    BY <1>5 DEF play_cb, stop_cb, TypeOK, NoCall
  <2>2. /\ voice'[k] = note[k] /\ \A h \in Keys : h # k => voice'[h] = voice[h]
        /\ UNCHANGED note
    BY <1>5, <2>1 DEF play_cb, stop_cb, TypeOK, VoiceInv
  <2>3. \A d \in Callers : d = c /\ pending'[d] = NoCall
    BY <1>5 DEF SingleCaller, play_cb, stop_cb, TypeOK
  <2>4. \A h \in Keys : h # k => voice[h] = note[h]
    BY <2>3 DEF VoiceInv
  <2> QED
    BY <2>1, <2>2, <2>3, <2>4 DEF VoiceInv, NoCall
<1>6. CASE UNCHANGED vars
  BY <1>6 DEF vars, VoiceInv
<1> QED
  BY <1>3, <1>4, <1>5, <1>6 DEF Next

\* With the one calling thread of the program every voice sounds what its key
\* says once the callbacks of key_assign.c 52 and 90 were made: none is left
\* hanging, and no stop silences a voice that was given to another note.
THEOREM VoicesAlwaysFollowKeys == SingleCaller => (Spec => []VoiceFollowsKey)
<1> SUFFICES ASSUME SingleCaller PROVE Spec => []VoiceFollowsKey
  OBVIOUS
<1>1. Init => VoiceInv
  BY DEF Init, VoiceInv, InitialNotes, NoCall
<1>2. VoiceInv => VoiceFollowsKey
  BY DEF VoiceInv, VoiceFollowsKey
<1>3. TypeOK /\ VoiceInv /\ [Next]_vars => VoiceInv'
  BY VoiceInvNext
<1> QED
  BY <1>1, <1>2, <1>3, KeyAssignTypeCorrect, PTL DEF Spec

-----------------------------------------------------------------------------
(* Sequences that are compared element by element.                          *)

LEMMA ConsIs ==
  ASSUME NEW S, NEW x \in S, NEW s \in Seq(S), NEW t \in Seq(S),
         Len(t) = Len(s) + 1, t[1] = x, \A k \in 1 .. Len(s) : t[k + 1] = s[k]
  PROVE  t = <<x>> \o s
<1>1. <<x>> \in Seq(S) /\ Len(<<x>>) = 1 /\ <<x>>[1] = x
  OBVIOUS
<1>2. /\ <<x>> \o s \in Seq(S) /\ Len(<<x>> \o s) = Len(t)
      /\ \A k \in 1 .. Len(t) : (<<x>> \o s)[k] = IF k =< 1 THEN <<x>>[k] ELSE s[k - 1]
  BY <1>1, ConcatProperties, LenProperties
<1>3. \A k \in 1 .. Len(t) : k # 1 => k - 1 \in 1 .. Len(s) /\ t[k] = s[k - 1]
  <2> TAKE k \in 1 .. Len(t)
  <2> HAVE k # 1
  <2>1. k - 1 \in 1 .. Len(s) /\ (k - 1) + 1 = k
    BY LenProperties
  <2> QED
    BY <2>1
<1>4. \A k \in 1 .. Len(t) : t[k] = (<<x>> \o s)[k]
  BY <1>1, <1>2, <1>3, LenProperties
<1> QED
  BY <1>2, <1>4, SeqEqual

LEMMA FrontIs ==
  ASSUME NEW S, NEW s \in Seq(S), NEW t \in Seq(S),
         Len(t) = Len(s) - 1, \A k \in 1 .. Len(t) : t[k] = s[k]
  PROVE  t = SubSeq(s, 1, Len(s) - 1)
<1>1. Len(s) \in Nat /\ Len(t) \in Nat /\ \A k \in 1 .. Len(s) - 1 : s[k] \in S
  BY LenProperties
<1>2. /\ SubSeq(s, 1, Len(s) - 1) \in Seq(S) /\ Len(SubSeq(s, 1, Len(s) - 1)) = Len(t)
      /\ \A k \in 1 .. Len(t) : SubSeq(s, 1, Len(s) - 1)[k] = s[k]
  BY <1>1, SubSeqProperties
<1> QED
  BY <1>2, SeqEqual

LEMMA RemovedIs ==
  ASSUME NEW S, NEW s \in Seq(S), NEW t \in Seq(S), NEW i \in 1 .. Len(s),
         Len(t) = Len(s) - 1,
         \A k \in 1 .. Len(t) : t[k] = IF k < i THEN s[k] ELSE s[k + 1]
  PROVE  t = SubSeq(s, 1, i - 1) \o SubSeq(s, i + 1, Len(s))
<1> DEFINE a == SubSeq(s, 1, i - 1)
           b == SubSeq(s, i + 1, Len(s))
           n == Len(s)
<1>1. n \in Nat /\ i \in 1 .. n /\ Len(t) = n - 1 /\ \A k \in 1 .. n : s[k] \in S
  BY LenProperties
<1>2. a \in Seq(S) /\ Len(a) = i - 1 /\ \A k \in 1 .. i - 1 : a[k] = s[k]
  <2>1. \A k \in 1 .. i - 1 : s[k] \in S
    BY <1>1
  <2>2. /\ a \in Seq(S) /\ Len(a) = IF 1 <= i - 1 THEN (i - 1) - 1 + 1 ELSE 0
        /\ \A k \in 1 .. (i - 1) - 1 + 1 : a[k] = s[1 + k - 1]
    BY <1>1, <2>1, SubSeqProperties
  <2> HIDE DEF a, n
  <2> QED
    BY <1>1, <2>2
<1>3. b \in Seq(S) /\ Len(b) = n - i /\ \A k \in 1 .. n - i : b[k] = s[i + k]
  <2>1. \A k \in i + 1 .. n : s[k] \in S
    BY <1>1
  <2>2. /\ b \in Seq(S) /\ Len(b) = IF i + 1 <= n THEN n - (i + 1) + 1 ELSE 0
        /\ \A k \in 1 .. n - (i + 1) + 1 : b[k] = s[(i + 1) + k - 1]
    BY <1>1, <2>1, SubSeqProperties
  <2> HIDE DEF b, n
  <2>3. n - (i + 1) + 1 = n - i /\ \A k \in 1 .. n - i : (i + 1) + k - 1 = i + k
    BY <1>1
  <2> QED
    BY <1>1, <2>2, <2>3
<1> HIDE DEF a, b
<1>4. /\ a \o b \in Seq(S) /\ Len(a \o b) = Len(a) + Len(b)
      /\ \A k \in 1 .. Len(a) + Len(b) :
           (a \o b)[k] = IF k <= Len(a) THEN a[k] ELSE b[k - Len(a)]
  BY <1>2, <1>3, ConcatProperties
<1>5. \A k \in 1 .. n - 1 : t[k] = IF k < i THEN s[k] ELSE s[k + 1]
  OBVIOUS
<1> HIDE DEF n
<1>6. Len(a) + Len(b) = n - 1
  BY <1>1, <1>2, <1>3
<1>7. ASSUME NEW k \in 1 .. n - 1 PROVE t[k] = (a \o b)[k]
  <2>1. CASE k < i
    <3>1. k \in 1 .. i - 1 /\ k <= Len(a)
      BY <1>1, <1>2, <2>1
    <3> QED
      BY <1>2, <1>4, <1>5, <1>6, <2>1, <3>1
  <2>2. CASE ~(k < i)
    <3>1. k - (i - 1) \in 1 .. n - i /\ i + (k - (i - 1)) = k + 1 /\ ~(k <= i - 1)
      BY <1>1, <2>2
    <3>2. (a \o b)[k] = b[k - (i - 1)]
      BY <1>2, <1>4, <1>6, <3>1
    <3>3. b[k - (i - 1)] = s[k + 1]
      BY <1>3, <3>1
    <3> QED
      BY <1>5, <2>2, <3>2, <3>3
  <2> QED
    BY <2>1, <2>2
<1>8. t = a \o b
  BY <1>1, <1>4, <1>6, <1>7, SeqEqual
<1> QED
  BY <1>8 DEF a, b, n

-----------------------------------------------------------------------------
(* The list as two queues, as KeyAssign.tla maps it to KeyAllocator.        *)

(* Exactly the first h keys are held. *)
FirstHeld(l, m, h) ==
  h \in 0 .. MAX_NOTES /\ \A p \in Positions : m[l[p]] # Unused <=> p =< h

LEMMA QueueTypes ==
  ASSUME NEW l \in [Positions -> Keys], NEW h \in 0 .. MAX_NOTES
  PROVE  /\ FirstKeys(l, h) \in Seq(Keys) /\ Len(FirstKeys(l, h)) = h
         /\ OtherKeys(l, h) \in Seq(Keys) /\ Len(OtherKeys(l, h)) = MAX_NOTES - h
<1>1. FirstKeys(l, h) \in [1 .. h -> Keys] /\ h \in Nat
  BY MaxNotesAssumption DEF FirstKeys, Positions
<1>2. OtherKeys(l, h) \in [1 .. MAX_NOTES - h -> Keys] /\ MAX_NOTES - h \in Nat
  BY MaxNotesAssumption DEF OtherKeys, Positions
<1> DEFINE n == MAX_NOTES - h
<1> HIDE DEF n
<1> QED
  BY <1>1, <1>2 DEF n

LEMMA HeldCountIs ==
  ASSUME NEW l, NEW m, NEW h, FirstHeld(l, m, h)
  PROVE  HeldCount(l, m) = h
<1> USE DEF FirstHeld
<1>1. {p \in Positions : m[l[p]] # Unused} = 1 .. h
  BY MaxNotesAssumption DEF Positions
<1>2. Cardinality(1 .. h) = h
  BY FS_Interval, MaxNotesAssumption
<1> QED
  BY <1>1, <1>2 DEF HeldCount

\* When the held keys are in front, they are as many as the count says.
LEMMA HeldAreCounted ==
  ASSUME NEW l \in [Positions -> Keys], NEW m \in [Keys -> Nat], UsedBeforeUnused(l, m)
  PROVE  FirstHeld(l, m, HeldCount(l, m))
<1> DEFINE U == {p \in Positions : m[l[p]] # Unused}
<1>1. IsFiniteSet(Positions) /\ Cardinality(Positions) = MAX_NOTES
  BY FS_Interval, MaxNotesAssumption DEF Positions
<1>2. IsFiniteSet(U) /\ Cardinality(U) =< MAX_NOTES /\ Cardinality(U) \in Nat
  BY <1>1, FS_Subset, FS_CardinalityType
<1>3. ASSUME NEW p \in Positions
      PROVE  /\ Cardinality(1 .. p) = p /\ IsFiniteSet(1 .. p)
             /\ Cardinality(1 .. p - 1) = p - 1 /\ IsFiniteSet(1 .. p - 1)
  BY FS_Interval DEF Positions
<1>4. ASSUME NEW p \in Positions, m[l[p]] # Unused PROVE p =< Cardinality(U)
  <2>1. 1 .. p \subseteq U
    BY <1>4, MaxNotesAssumption DEF UsedBeforeUnused, Positions
  <2> HIDE DEF U
  <2>2. Cardinality(1 .. p) =< Cardinality(U)
    BY <1>2, <2>1, FS_Subset
  <2> QED
    BY <1>3, <2>2
<1>5. ASSUME NEW p \in Positions, m[l[p]] = Unused PROVE Cardinality(U) =< p - 1
  <2>1. U \subseteq 1 .. p - 1
    BY <1>5, MaxNotesAssumption DEF UsedBeforeUnused, Positions
  <2> HIDE DEF U
  <2>2. Cardinality(U) =< Cardinality(1 .. p - 1)
    BY <1>3, <2>1, FS_Subset
  <2> QED
    BY <1>3, <2>2
<1>6. HeldCount(l, m) = Cardinality(U)
  BY DEF HeldCount
<1> HIDE DEF U
<1>7. HeldCount(l, m) \in 0 .. MAX_NOTES
  BY <1>2, <1>6, MaxNotesAssumption
<1>8. ASSUME NEW p \in Positions PROVE m[l[p]] # Unused <=> p =< HeldCount(l, m)
  <2>1. p \in Nat
    BY DEF Positions
  <2> QED
    BY <1>2, <1>4, <1>5, <1>6, <2>1
<1> QED
  BY <1>7, <1>8 DEF FirstHeld

LEMMA PlayedElements ==
  ASSUME NEW l \in [Positions -> Keys], NEW m \in [Keys -> Nat], NEW n \in Nat \ {Unused},
         IsPermutation(l)
  PROVE  /\ PlayedList(l) \in [Positions -> Keys]
         /\ PlayedList(l)[1] = l[MAX_NOTES]
         /\ PlayedNotes(l, m, n)[PlayedList(l)[1]] = n
         /\ \A p \in Positions : p + 1 \in Positions =>
              /\ PlayedList(l)[p + 1] = l[p]
              /\ PlayedNotes(l, m, n)[PlayedList(l)[p + 1]] = m[l[p]]
<1>1. MAX_NOTES \in Positions /\ 1 \in Positions
  BY MaxNotesAssumption DEF Positions
<1>2. PlayedList(l) \in [Positions -> Keys]
  BY <1>1, RelinkedType DEF PlayedList
<1>3. PlayedList(l)[1] = l[MAX_NOTES] /\ l[MAX_NOTES] \in Keys
  BY <1>1 DEF PlayedList, Relinked
<1>4. ASSUME NEW p \in Positions, p + 1 \in Positions
      PROVE  PlayedList(l)[p + 1] = l[p] /\ l[p] # l[MAX_NOTES]
  <2>1. p + 1 # 1 /\ p + 1 \in 1 + 1 .. MAX_NOTES /\ (p + 1) - 1 = p /\ p # MAX_NOTES
    BY <1>4, MaxNotesAssumption DEF Positions
  <2> QED
    BY <1>1, <1>4, <2>1 DEF PlayedList, Relinked, IsPermutation
<1> QED
  BY <1>2, <1>3, <1>4 DEF PlayedNotes, PlayedKey

\* The key that is played comes in front of the first ones (key_assign.c 42-46).
LEMMA PlayedFirst ==
  ASSUME NEW l \in [Positions -> Keys], IsPermutation(l), NEW h \in 0 .. MAX_NOTES - 1
  PROVE  FirstKeys(PlayedList(l), h + 1) = <<l[MAX_NOTES]>> \o FirstKeys(l, h)
<1> DEFINE k == PlayedList(l)
<1>1. /\ k \in [Positions -> Keys] /\ k[1] = l[MAX_NOTES]
      /\ \A p \in Positions : p + 1 \in Positions => k[p + 1] = l[p]
  <2>1. [i \in Keys |-> 0] \in [Keys -> Nat] /\ 1 \in Nat \ {Unused}
    BY DEF Unused
  <2> QED
    BY <2>1, PlayedElements
<1> HIDE DEF k
<1>2. h + 1 \in 0 .. MAX_NOTES /\ h \in 0 .. MAX_NOTES /\ MAX_NOTES \in Positions
  BY MaxNotesAssumption DEF Positions
<1>3. /\ FirstKeys(k, h + 1) \in Seq(Keys) /\ Len(FirstKeys(k, h + 1)) = h + 1
      /\ FirstKeys(l, h) \in Seq(Keys) /\ Len(FirstKeys(l, h)) = h
  BY <1>1, <1>2, QueueTypes
<1>4. FirstKeys(k, h + 1)[1] = l[MAX_NOTES] /\ l[MAX_NOTES] \in Keys
  BY <1>1, <1>2 DEF FirstKeys
<1>5. ASSUME NEW q \in 1 .. h
      PROVE  FirstKeys(k, h + 1)[q + 1] = FirstKeys(l, h)[q]
  <2>1. q \in Positions /\ q + 1 \in Positions /\ q + 1 \in 1 .. h + 1
    BY MaxNotesAssumption DEF Positions
  <2> QED
    BY <1>1, <2>1 DEF FirstKeys
<1> QED
  BY <1>3, <1>4, <1>5, ConsIs DEF k

\* keys_play on a list with an unused key (key_assign.c 42-48).
LEMMA PlayFreeQueues ==
  ASSUME NEW l \in [Positions -> Keys], NEW m \in [Keys -> Nat], NEW n \in Nat \ {Unused},
         IsPermutation(l), NEW h \in 0 .. MAX_NOTES - 1, FirstHeld(l, m, h)
  PROVE  /\ HeldCount(PlayedList(l), PlayedNotes(l, m, n)) = h + 1
         /\ FirstKeys(PlayedList(l), h + 1) = <<l[MAX_NOTES]>> \o FirstKeys(l, h)
         /\ OtherKeys(PlayedList(l), h + 1)
              = SubSeq(OtherKeys(l, h), 1, Len(OtherKeys(l, h)) - 1)
<1> DEFINE k == PlayedList(l)
           o == PlayedNotes(l, m, n)
<1>1. /\ k \in [Positions -> Keys] /\ k[1] = l[MAX_NOTES] /\ o[k[1]] = n
      /\ \A p \in Positions : p + 1 \in Positions => k[p + 1] = l[p] /\ o[k[p + 1]] = m[l[p]]
  BY PlayedElements
<1> HIDE DEF k, o
<1>2. h + 1 \in 0 .. MAX_NOTES /\ h \in 0 .. MAX_NOTES /\ MAX_NOTES \in Positions
  BY MaxNotesAssumption DEF Positions
<1>3. ASSUME NEW p \in Positions PROVE o[k[p]] # Unused <=> p =< h + 1
  <2>1. CASE p = 1
    BY <1>1, <2>1
  <2>2. CASE p # 1
    <3>1. p - 1 \in Positions /\ (p - 1) + 1 = p /\ (p - 1 =< h <=> p =< h + 1)
      BY <2>2, MaxNotesAssumption DEF Positions
    <3>2. o[k[p]] = m[l[p - 1]]
      BY <1>1, <3>1
    <3> QED
      BY <3>1, <3>2 DEF FirstHeld
  <2> QED
    BY <2>1, <2>2
<1>4. HeldCount(k, o) = h + 1
  BY <1>2, <1>3, HeldCountIs DEF FirstHeld
<1>5. /\ OtherKeys(k, h + 1) \in Seq(Keys) /\ Len(OtherKeys(k, h + 1)) = MAX_NOTES - (h + 1)
      /\ OtherKeys(l, h) \in Seq(Keys) /\ Len(OtherKeys(l, h)) = MAX_NOTES - h
  BY <1>1, <1>2, QueueTypes
<1>6. FirstKeys(k, h + 1) = <<l[MAX_NOTES]>> \o FirstKeys(l, h)
  BY PlayedFirst DEF k
<1>7. OtherKeys(k, h + 1) = SubSeq(OtherKeys(l, h), 1, Len(OtherKeys(l, h)) - 1)
  <2>1. ASSUME NEW q \in 1 .. MAX_NOTES - (h + 1)
        PROVE  OtherKeys(k, h + 1)[q] = OtherKeys(l, h)[q]
    <3>1. /\ h + q \in Positions /\ (h + q) + 1 \in Positions
          /\ (h + 1) + q = (h + q) + 1 /\ q \in 1 .. MAX_NOTES - h
      BY MaxNotesAssumption DEF Positions
    <3> QED
      BY <1>1, <3>1 DEF OtherKeys
  <2>2. MAX_NOTES - (h + 1) = (MAX_NOTES - h) - 1
    BY MaxNotesAssumption
  <2> QED
    BY <1>5, <2>1, <2>2, FrontIs
<1> QED
  BY <1>4, <1>6, <1>7 DEF k, o

\* keys_play on a list whose keys are all held.
LEMMA PlayStolenQueues ==
  ASSUME NEW l \in [Positions -> Keys], NEW m \in [Keys -> Nat], NEW n \in Nat \ {Unused},
         IsPermutation(l), \A p \in Positions : m[l[p]] # Unused
  PROVE  /\ HeldCount(PlayedList(l), PlayedNotes(l, m, n)) = MAX_NOTES
         /\ FirstKeys(PlayedList(l), MAX_NOTES)
              = <<l[MAX_NOTES]>> \o SubSeq(FirstKeys(l, MAX_NOTES), 1, MAX_NOTES - 1)
<1> DEFINE k == PlayedList(l)
           o == PlayedNotes(l, m, n)
           f == FirstKeys(l, MAX_NOTES)
           g == FirstKeys(l, MAX_NOTES - 1)
<1>1. /\ k \in [Positions -> Keys] /\ k[1] = l[MAX_NOTES] /\ o[k[1]] = n
      /\ \A p \in Positions : p + 1 \in Positions => k[p + 1] = l[p] /\ o[k[p + 1]] = m[l[p]]
  BY PlayedElements
<1> HIDE DEF k, o
<1>2. /\ MAX_NOTES \in 0 .. MAX_NOTES /\ MAX_NOTES - 1 \in 0 .. MAX_NOTES
      /\ MAX_NOTES \in Positions
  BY MaxNotesAssumption DEF Positions
<1>3. ASSUME NEW p \in Positions PROVE o[k[p]] # Unused <=> p =< MAX_NOTES
  <2>1. CASE p = 1
    BY <1>1, <2>1, MaxNotesAssumption
  <2>2. CASE p # 1
    <3>1. p - 1 \in Positions /\ (p - 1) + 1 = p /\ p =< MAX_NOTES
      BY <2>2, MaxNotesAssumption DEF Positions
    <3>2. o[k[p]] = m[l[p - 1]]
      BY <1>1, <3>1
    <3> QED
      BY <3>1, <3>2
  <2> QED
    BY <2>1, <2>2
<1>4. HeldCount(k, o) = MAX_NOTES
  BY <1>2, <1>3, HeldCountIs DEF FirstHeld
<1>5. /\ f \in Seq(Keys) /\ Len(f) = MAX_NOTES
      /\ g \in Seq(Keys) /\ Len(g) = MAX_NOTES - 1
  BY <1>1, <1>2, QueueTypes
<1>6. g = SubSeq(f, 1, MAX_NOTES - 1)
  <2>1. \A q \in 1 .. MAX_NOTES - 1 : g[q] = f[q]
    BY MaxNotesAssumption DEF FirstKeys
  <2> HIDE DEF f, g
  <2> QED
    BY <1>5, <2>1, FrontIs
<1>7. FirstKeys(k, MAX_NOTES) = <<l[MAX_NOTES]>> \o g
  <2>1. MAX_NOTES - 1 \in 0 .. MAX_NOTES - 1 /\ (MAX_NOTES - 1) + 1 = MAX_NOTES
    BY MaxNotesAssumption
  <2> QED
    BY <2>1, PlayedFirst DEF k
<1> QED
  BY <1>4, <1>6, <1>7 DEF k, o

LEMMA OthersGrow ==
  ASSUME NEW l \in [Positions -> Keys], NEW k \in [Positions -> Keys], NEW h \in Positions,
         \A p \in Positions : p > h => k[p] = l[p]
  PROVE  OtherKeys(k, h - 1) = <<k[h]>> \o OtherKeys(l, h)
<1> DEFINE u == OtherKeys(k, h - 1)
           v == OtherKeys(l, h)
<1>1. h \in 0 .. MAX_NOTES /\ h - 1 \in 0 .. MAX_NOTES
  BY MaxNotesAssumption DEF Positions
<1>2. /\ u \in Seq(Keys) /\ Len(u) = MAX_NOTES - (h - 1)
      /\ v \in Seq(Keys) /\ Len(v) = MAX_NOTES - h
  BY <1>1, QueueTypes
<1>3. u[1] = k[h] /\ k[h] \in Keys
  <2>1. 1 \in 1 .. MAX_NOTES - (h - 1) /\ (h - 1) + 1 = h
    BY MaxNotesAssumption DEF Positions
  <2> QED
    BY <2>1 DEF OtherKeys
<1>4. ASSUME NEW q \in 1 .. MAX_NOTES - h PROVE u[q + 1] = v[q]
  <2>1. /\ q + 1 \in 1 .. MAX_NOTES - (h - 1) /\ (h - 1) + (q + 1) = h + q
        /\ h + q \in Positions /\ h + q > h
    BY MaxNotesAssumption DEF Positions
  <2> QED
    BY <2>1 DEF OtherKeys
<1>5. Len(u) = Len(v) + 1
  BY <1>2, MaxNotesAssumption DEF Positions
<1> HIDE DEF u, v
<1>6. u = <<k[h]>> \o v
  BY <1>2, <1>3, <1>4, <1>5, ConsIs
<1> QED
  BY <1>6 DEF u, v

\* keys_stop of the held key at position i, which is put behind the others
\* (key_assign.c 59-86).
LEMMA StopQueues ==
  ASSUME NEW l \in [Positions -> Keys], NEW m \in [Keys -> Nat],
         IsPermutation(l), NEW h, FirstHeld(l, m, h), NEW i \in 1 .. h, NEW j \in Positions,
         StopReinsertsAt(l, m, i, j)
  PROVE  /\ HeldCount(Relinked(l, i, j), StoppedNotes(m, l[i])) = h - 1
         /\ FirstKeys(Relinked(l, i, j), h - 1)
              = SubSeq(FirstKeys(l, h), 1, i - 1) \o SubSeq(FirstKeys(l, h), i + 1, h)
         /\ OtherKeys(Relinked(l, i, j), h - 1) = <<l[i]>> \o OtherKeys(l, h)
<1> DEFINE k == Relinked(l, i, j)
           o == StoppedNotes(m, l[i])
           f == FirstKeys(l, h)
           g == FirstKeys(k, h - 1)
<1>0. h \in 0 .. MAX_NOTES /\ \A p \in Positions : m[l[p]] # Unused <=> p =< h
  BY DEF FirstHeld
<1>1. i \in 1 .. h /\ i \in Positions
  BY <1>0, MaxNotesAssumption DEF Positions
<1>2. j = h
  <2>1. j =< h
    BY <1>0, <1>1 DEF StopReinsertsAt, Positions
  <2>2. j < MAX_NOTES => j + 1 \in Positions /\ ~(j + 1 =< h)
    BY <1>0, MaxNotesAssumption DEF StopReinsertsAt, Positions
  <2> QED
    BY <1>0, <2>1, <2>2, MaxNotesAssumption DEF Positions
<1>3. h \in Positions /\ h - 1 \in 0 .. MAX_NOTES
  BY <1>0, <1>1, MaxNotesAssumption DEF Positions
<1>4. k \in [Positions -> Keys]
  BY <1>1, RelinkedType
<1>5. ASSUME NEW p \in Positions
      PROVE  k[p] = IF p = h THEN l[i] ELSE IF i =< p /\ p < h THEN l[p + 1] ELSE l[p]
  <2>1. /\ p \in i .. h - 1 <=> i =< p /\ p < h
        /\ p \in h + 1 .. i <=> FALSE
    BY <1>1, <1>3 DEF Positions
  <2> QED
    BY <1>2, <2>1 DEF Relinked
<1> HIDE DEF k
<1>6. ASSUME NEW p \in Positions PROVE o[k[p]] # Unused <=> p =< h - 1
  <2>1. CASE p = h
    BY <1>1, <1>3, <1>5, <2>1 DEF StoppedNotes, Positions
  <2>2. CASE i =< p /\ p < h
    <3>1. p + 1 \in Positions /\ p + 1 # i /\ p + 1 =< h /\ p =< h - 1
      BY <1>1, <1>3, <2>2, MaxNotesAssumption DEF Positions
    <3>2. k[p] = l[p + 1] /\ l[p + 1] # l[i] /\ l[p + 1] \in Keys
      BY <1>1, <1>3, <1>5, <2>2, <3>1 DEF IsPermutation, Positions
    <3> QED
      BY <1>0, <3>1, <3>2 DEF StoppedNotes
  <2>3. CASE p # h /\ ~(i =< p /\ p < h)
    <3>1. p # i /\ (p =< h <=> p =< h - 1)
      BY <1>0, <1>1, <2>3 DEF Positions
    <3>2. k[p] = l[p] /\ l[p] # l[i] /\ l[p] \in Keys
      BY <1>1, <1>5, <2>3, <3>1 DEF IsPermutation
    <3> QED
      BY <1>0, <3>1, <3>2 DEF StoppedNotes
  <2> QED
    BY <2>1, <2>2, <2>3
<1> HIDE DEF o
<1>7. HeldCount(k, o) = h - 1
  BY <1>3, <1>6, HeldCountIs DEF FirstHeld
<1>8. /\ f \in Seq(Keys) /\ Len(f) = h /\ g \in Seq(Keys) /\ Len(g) = h - 1
  BY <1>0, <1>3, <1>4, QueueTypes
<1>9. g = SubSeq(f, 1, i - 1) \o SubSeq(f, i + 1, h)
  <2>1. ASSUME NEW q \in 1 .. h - 1 PROVE g[q] = IF q < i THEN f[q] ELSE f[q + 1]
    <3>1. q \in Positions /\ q # h /\ (i =< q /\ q < h <=> ~(q < i))
          /\ q \in 1 .. h /\ q + 1 \in 1 .. h
      BY <1>3, MaxNotesAssumption DEF Positions
    <3> QED
      BY <1>5, <3>1 DEF FirstKeys
  <2> HIDE DEF f, g
  <2> QED
    BY <1>1, <1>8, <2>1, RemovedIs
<1>10. OtherKeys(k, h - 1) = <<l[i]>> \o OtherKeys(l, h)
  <2>1. k[h] = l[i] /\ \A p \in Positions : p > h => k[p] = l[p]
    BY <1>0, <1>3, <1>5 DEF Positions
  <2> QED
    BY <1>3, <1>4, <2>1, OthersGrow
<1> QED
  BY <1>7, <1>9, <1>10 DEF k, o, f, g

-----------------------------------------------------------------------------
Held == FirstKeys(list, HeldCount(list, note))
Free == OtherKeys(list, HeldCount(list, note))

LEMMA PolicyInit == Init => Policy!Init
<1> SUFFICES ASSUME Init PROVE Policy!Init
  OBVIOUS
<1>1. list \in [Positions -> Keys] /\ \A p \in Positions : note[list[p]] = Unused
  BY InitialListIsPermutation DEF Init, InitialNotes
<1>2. HeldCount(list, note) = 0
  <2>1. 0 \in 0 .. MAX_NOTES /\ \A p \in Positions : ~(p =< 0)
    BY MaxNotesAssumption DEF Positions
  <2> QED
    BY <1>1, <2>1, HeldCountIs DEF FirstHeld
<1>3. Held = <<>>
  BY <1>2 DEF Held, FirstKeys
<1>4. Free = [p \in 1 .. MAX_NOTES |-> MAX_NOTES - p]
  <2>1. MAX_NOTES - 0 = MAX_NOTES /\ \A p \in Positions : list[0 + p] = MAX_NOTES - p
    BY MaxNotesAssumption DEF Init, InitialList, Positions
  <2>2. Free = [p \in 1 .. MAX_NOTES - 0 |-> list[0 + p]]
    BY <1>2 DEF Free, OtherKeys
  <2> QED
    BY <2>1, <2>2 DEF Positions
<1> QED
  BY <1>3, <1>4 DEF Policy!Init, Policy!Voices, Held, Free, Init, InitialNotes, Keys, Unused

LEMMA PolicyPlay ==
  ASSUME ListInv, NEW c \in Callers, NEW n \in Notes, keys_play(c, n)
  PROVE  Policy!PlayFree(n) \/ Policy!PlayStolen(n)
<1> DEFINE h == HeldCount(list, note)
           t == list[MAX_NOTES]
<1>1. /\ list \in [Positions -> Keys] /\ note \in [Keys -> Nat] /\ n \in Nat \ {Unused}
      /\ IsPermutation(list) /\ UsedBeforeUnused(list, note)
  BY ListFacts, NotesAssumption DEF Unused
<1>2. FirstHeld(list, note, h) /\ h \in 0 .. MAX_NOTES
  BY <1>1, HeldAreCounted DEF FirstHeld
<1>3. list' = PlayedList(list) /\ note' = PlayedNotes(list, note, n)
  BY DEF keys_play
<1>4. note' = [note EXCEPT ![t] = n]
  BY <1>3 DEF PlayedNotes, PlayedKey
<1>5. /\ Held \in Seq(Keys) /\ Len(Held) = h /\ Free \in Seq(Keys) /\ Len(Free) = MAX_NOTES - h
  BY <1>1, <1>2, QueueTypes DEF Held, Free
<1>6. CASE h # MAX_NOTES
  <2>1. h \in 0 .. MAX_NOTES - 1
    BY <1>2, <1>6, MaxNotesAssumption
  <2>2. HeldCount(list', note') = h + 1
    BY <1>1, <1>2, <1>3, <2>1, PlayFreeQueues
  <2>3. FirstKeys(list', h + 1) = <<t>> \o Held
    BY <1>1, <1>2, <1>3, <2>1, PlayFreeQueues DEF Held
  <2>4. OtherKeys(list', h + 1) = SubSeq(Free, 1, Len(Free) - 1)
    BY <1>1, <1>2, <1>3, <2>1, PlayFreeQueues DEF Free
  <2>5. Free # <<>> /\ Free[Len(Free)] = t
    <3>1. MAX_NOTES - h \in 1 .. MAX_NOTES - h /\ h + (MAX_NOTES - h) = MAX_NOTES
      BY <2>1, MaxNotesAssumption
    <3>2. Free[Len(Free)] = t
      BY <1>5, <3>1 DEF Free, OtherKeys
    <3> HIDE DEF h
    <3>3. Len(Free) # 0
      BY <1>5, <3>1
    <3> QED
      BY <3>2, <3>3
  <2>6. Held' = <<t>> \o Held /\ Free' = SubSeq(Free, 1, Len(Free) - 1)
    BY <2>2, <2>3, <2>4 DEF Held, Free
  <2>7. Policy!PlayFree(n)
    BY <1>4, <2>5, <2>6
       DEF Policy!PlayFree, Policy!Assign, Policy!Last, Policy!Front, Held, Free
  <2> QED
    BY <2>7
<1>7. CASE h = MAX_NOTES
  <2>1. \A p \in Positions : note[list[p]] # Unused
    BY <1>2, <1>7 DEF FirstHeld, Positions
  <2>2. HeldCount(list', note') = MAX_NOTES
    BY <1>1, <1>3, <2>1, PlayStolenQueues
  <2>3. FirstKeys(list', MAX_NOTES) = <<t>> \o SubSeq(Held, 1, MAX_NOTES - 1)
    BY <1>1, <1>3, <1>7, <2>1, PlayStolenQueues DEF Held
  <2>4. Held[Len(Held)] = t /\ Len(Held) = MAX_NOTES
    BY <1>5, <1>7, MaxNotesAssumption DEF Held, FirstKeys
  <2>5. Free = <<>> /\ Free' = <<>>
    <3>1. 1 .. MAX_NOTES - MAX_NOTES = {}
      BY MaxNotesAssumption
    <3>2. Free = [p \in {} |-> 0] /\ Free' = [p \in {} |-> 0]
      BY <1>7, <2>2, <3>1 DEF Free, OtherKeys
    <3> QED
      BY <3>2
  <2>6. Held' = <<t>> \o SubSeq(Held, 1, Len(Held) - 1)
    BY <2>2, <2>3, <2>4 DEF Held
  <2>7. Policy!PlayStolen(n)
    BY <1>4, <2>4, <2>5, <2>6
       DEF Policy!PlayStolen, Policy!Assign, Policy!Last, Policy!Front, Held, Free
  <2> QED
    BY <2>7
<1> QED
  BY <1>6, <1>7

LEMMA PolicyStop ==
  ASSUME ListInv, NEW c \in Callers, NEW n \in Notes, keys_stop(c, n)
  PROVE  Policy!Stop(n)
<1> DEFINE h == HeldCount(list, note)
<1>1. /\ list \in [Positions -> Keys] /\ note \in [Keys -> Nat] /\ n \in Nat \ {Unused}
      /\ IsPermutation(list) /\ UsedBeforeUnused(list, note)
  BY ListFacts, NotesAssumption DEF Unused
<1>2. FirstHeld(list, note, h) /\ h \in 0 .. MAX_NOTES
  BY <1>1, HeldAreCounted DEF FirstHeld
<1>3. PICK i \in Positions, j \in Positions :
        /\ StopFinds(list, note, n, i) /\ StopReinsertsAt(list, note, i, j)
        /\ list' = Relinked(list, i, j) /\ note' = StoppedNotes(note, list[i])
  BY DEF keys_stop
<1>4. note[list[i]] = n /\ \A q \in 1 .. i - 1 : note[list[q]] # n
  BY <1>3 DEF StopFinds
<1>5. Held \in Seq(Keys) /\ Len(Held) = h
  BY <1>1, <1>2, QueueTypes DEF Held
<1>6. /\ i \in 1 .. h /\ HeldCount(list', note') = h - 1
      /\ FirstKeys(list', h - 1) = SubSeq(Held, 1, i - 1) \o SubSeq(Held, i + 1, h)
      /\ OtherKeys(list', h - 1) = <<list[i]>> \o Free
  <2>1. i \in 1 .. h
    BY <1>1, <1>2, <1>4 DEF FirstHeld, Positions
  <2> DEFINE k == Relinked(list, i, j)
             m == StoppedNotes(note, list[i])
  <2> HIDE DEF h
  <2>2. /\ HeldCount(k, m) = h - 1
        /\ FirstKeys(k, h - 1)
             = SubSeq(FirstKeys(list, h), 1, i - 1) \o SubSeq(FirstKeys(list, h), i + 1, h)
        /\ OtherKeys(k, h - 1) = <<list[i]>> \o OtherKeys(list, h)
    BY <1>1, <1>2, <1>3, <2>1, StopQueues
  <2> QED
    BY <1>3, <2>1, <2>2 DEF Held, Free, h
<1>7. /\ Held' = SubSeq(Held, 1, i - 1) \o SubSeq(Held, i + 1, Len(Held))
      /\ Free' = <<list[i]>> \o Free
  BY <1>5, <1>6 DEF Held, Free
<1>8. \A q \in 1 .. i : q \in 1 .. h /\ Held[q] = list[q]
  BY <1>2, <1>6, MaxNotesAssumption DEF Held, FirstKeys
<1>9. i \in DOMAIN Held /\ Held[i] = list[i] /\ \A q \in 1 .. i - 1 : note[Held[q]] # n
  <2>1. DOMAIN Held = 1 .. h
    BY <1>5, LenProperties
  <2>2. i \in 1 .. i /\ \A q \in 1 .. i - 1 : q \in 1 .. i
    BY DEF Positions
  <2> QED
    BY <1>4, <1>6, <1>8, <2>1, <2>2
<1>10. note' = [note EXCEPT ![Held[i]] = 0]
  BY <1>3, <1>9 DEF StoppedNotes, Unused
<1> QED
  BY <1>4, <1>7, <1>9, <1>10 DEF Policy!Stop, Policy!Assign, Policy!RemoveAt, Held, Free

\* The linked list implements the allocation policy for every number of voices
\* and callers: keys_play takes the longest released voice, else the longest
\* held one, and keys_stop makes the released voice the last choice
\* (key_assign.c 31-91).
THEOREM ListImplementsPolicy == Spec => ImplementsPolicy
<1>1. Init => Policy!Init
  BY PolicyInit
<1>2. ListInv /\ [Next]_vars => [Policy!Next]_<<Held, Free, note>>
  <2> SUFFICES ASSUME ListInv, [Next]_vars
               PROVE  Policy!Next \/ UNCHANGED <<Held, Free, note>>
    OBVIOUS
  <2>1. ASSUME NEW c \in Callers, NEW n \in Notes, keys_play(c, n) PROVE Policy!Next
    BY <2>1, PolicyPlay DEF Policy!Next
  <2>2. ASSUME NEW c \in Callers, NEW n \in Notes, keys_stop(c, n) PROVE Policy!Next
    BY <2>2, PolicyStop DEF Policy!Next
  <2>3. ASSUME NEW c \in Callers, play_cb(c) \/ stop_cb(c)
        PROVE  UNCHANGED <<Held, Free, note>>
    BY <2>3 DEF play_cb, stop_cb, Held, Free
  <2>4. CASE UNCHANGED vars
    BY <2>4 DEF vars, Held, Free
  <2> QED
    BY <2>1, <2>2, <2>3, <2>4 DEF Next
<1> QED
  BY <1>1, <1>2, ListInvInit, ListInvNext, PTL
     DEF Spec, ImplementsPolicy, Policy!Spec, Policy!vars, Held, Free
=============================================================================

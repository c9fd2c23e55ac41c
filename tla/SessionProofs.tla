--------------------------- MODULE SessionProofs ---------------------------
(***************************************************************************)
(* What every operation of a session preserves, for every value of the     *)
(* constants.  SInv is the inductive invariant of one session: it contains *)
(* the three facts on blocked streams that module Link states, and what    *)
(* they need: a blocked stream exists, no stream exists before the peer's  *)
(* greeting, and the next id to be handed out is not in use.               *)
(***************************************************************************)
EXTENDS Session, FiniteSetTheorems, TLAPS

Typed(s) == s \in SessionState /\ Len(s.out) <= OutCap

Counted(s) == s.blocked_count = Cardinality(s.send_blocked)

NoRoom(s, sid) == s.tab[sid].send_win <= 0 \/ s.sess_send_win <= 0

Blocked(s) ==
  s.dead = MUX_CODE_NO_ERROR
    => /\ s.waiting = s.send_blocked
       /\ \A sid \in s.send_blocked : NoRoom(s, sid)

BlockedAreLive(s) == \A sid \in s.send_blocked : s.tab[sid].life # "NONE"

NoneBeforeHello(s) ==
  s.peer_hello_seen = FALSE => \A sid \in Sids : s.tab[sid].life = "NONE"

OwnParity(s) == IF s.role = "DIALER" THEN 1 ELSE 0

NextIsFresh(s) ==
  /\ s.next_local_sid % 2 = OwnParity(s)
  /\ \A sid \in Sids :
       s.tab[sid].life # "NONE" /\ sid % 2 = OwnParity(s) => sid < s.next_local_sid

SInv(s) ==
  /\ Typed(s) /\ Counted(s) /\ Blocked(s)
  /\ BlockedAreLive(s) /\ NoneBeforeHello(s) /\ NextIsFresh(s)

\* What decides which ids are the session's own.
SameIds(s, t) ==
  /\ t.role = s.role
  /\ t.peer_hello_seen = s.peer_hello_seen
  /\ t.next_local_sid = s.next_local_sid

\* What decides which streams wait for window.
SameBlocked(s, t) ==
  /\ t.sess_send_win = s.sess_send_win
  /\ t.blocked_count = s.blocked_count
  /\ t.send_blocked = s.send_blocked
  /\ t.waiting = s.waiting

\* t differs from s in nothing SInv speaks of except types: the receive side,
\* the output buffer, and possibly the end of the session.
SameSend(s, t) ==
  /\ SameIds(s, t)
  /\ SameBlocked(s, t)
  /\ \A sid \in Sids : /\ t.tab[sid].send_win = s.tab[sid].send_win
                       /\ t.tab[sid].life = "NONE" <=> s.tab[sid].life = "NONE"
  /\ t.dead = MUX_CODE_NO_ERROR => s.dead = MUX_CODE_NO_ERROR
-----------------------------------------------------------------------------
(***************************************************************************)
(* Frame conditions.                                                       *)
(***************************************************************************)

\* Every set of stream ids is finite.
LEMMA SidsFinite ==
  ASSUME NEW T \in SUBSET Sids
  PROVE  IsFiniteSet(T)
  <1>1. MaxSid \in Int /\ 1 \in Int
    BY SessionAssumption
  <1>2. IsFiniteSet(Sids)
    BY <1>1, FS_Interval, Zenon DEF Sids
  <1> QED
    BY <1>2, FS_Subset, Zenon

\* An operation that leaves the send side alone preserves the invariant.
LEMMA SameSendInv ==
  ASSUME NEW s, NEW t, SInv(s), Typed(t), SameSend(s, t)
  PROVE  SInv(t)
  <1>1. Counted(t)
    BY DEF SInv, Counted, SameSend, SameBlocked
  <1>2. s.send_blocked \subseteq Sids
    BY DEF SInv, Typed, SessionState
  <1>3. Blocked(t)
    BY <1>2 DEF SInv, Blocked, NoRoom, SameSend, SameBlocked
  <1>4. BlockedAreLive(t)
    BY <1>2 DEF SInv, BlockedAreLive, SameSend, SameBlocked
  <1>5. NoneBeforeHello(t)
    BY DEF SInv, NoneBeforeHello, SameSend, SameIds
  <1>6. NextIsFresh(t)
    <2>1. t.role = s.role /\ t.next_local_sid = s.next_local_sid
      BY DEF SameSend, SameIds
    <2>2. OwnParity(t) = OwnParity(s)
      BY <2>1, Zenon DEF OwnParity
    <2> QED
      BY <2>1, <2>2 DEF SInv, NextIsFresh, SameSend
  <1> QED
    BY <1>1, <1>3, <1>4, <1>5, <1>6 DEF SInv

\* SameSend composes.
LEMMA SameSendTransitive ==
  ASSUME NEW s, NEW t, NEW u, SameSend(s, t), SameSend(t, u)
  PROVE  SameSend(s, u)
  BY DEF SameSend, SameIds, SameBlocked

\* raise_fatal only marks the session dead.
LEMMA RaiseFatal ==
  ASSUME NEW s, Typed(s), NEW code \in Code \ {MUX_CODE_NO_ERROR}
  PROVE  /\ Typed(raise_fatal(s, code))
         /\ SameSend(s, raise_fatal(s, code))
         /\ raise_fatal(s, code).dead # MUX_CODE_NO_ERROR
         /\ raise_fatal(s, code).tab = s.tab
         /\ raise_fatal(s, code).out = s.out
  <1> DEFINE t == [s EXCEPT !.dead = code]
  <1>1. t \in SessionState
    BY Zenon DEF Typed, SessionState
  <1>2. /\ t.dead = code /\ t.tab = s.tab /\ t.out = s.out
        /\ SameIds(s, t) /\ SameBlocked(s, t)
    BY Zenon DEF Typed, SessionState, SameIds, SameBlocked
  <1> HIDE DEF t
  <1>3. Typed(t) /\ SameSend(s, t) /\ t.dead # MUX_CODE_NO_ERROR
    BY <1>1, <1>2 DEF Typed, SameSend
  <1>4. CASE s.dead # MUX_CODE_NO_ERROR
    BY <1>4 DEF raise_fatal, SameSend, SameIds, SameBlocked
  <1>5. CASE s.dead = MUX_CODE_NO_ERROR
    BY <1>2, <1>3, <1>5 DEF raise_fatal, t
  <1> QED
    BY <1>4, <1>5

\* emit appends one frame or marks the session dead.
LEMMA Emit ==
  ASSUME NEW s, Typed(s), NEW f \in Frame
  PROVE  /\ Typed(emit(s, f))
         /\ SameSend(s, emit(s, f))
         /\ emit(s, f).tab = s.tab
         /\ EmitFits(s) => emit(s, f).dead = s.dead
         /\ ~EmitFits(s) => emit(s, f).dead # MUX_CODE_NO_ERROR
  <1> DEFINE o == Append(s.out, f)
             t == [s EXCEPT !.out = o]
  <1>0. s.out \in Seq(Frame)
    BY Zenon DEF Typed, SessionState
  <1>1. o \in Seq(Frame) /\ Len(o) = Len(s.out) + 1
    BY <1>0
  <1>2. t \in SessionState
    BY <1>1, Zenon DEF Typed, SessionState
  <1>3. /\ t.dead = s.dead /\ t.tab = s.tab /\ t.out = o
        /\ SameIds(s, t) /\ SameBlocked(s, t)
    BY Zenon DEF Typed, SessionState, SameIds, SameBlocked
  <1>4. CASE EmitFits(s)
    <2>1. emit(s, f) = t
      BY <1>4, Zenon DEF emit
    <2>2. Len(o) <= OutCap
      BY <1>0, <1>1, <1>4, SessionAssumption DEF EmitFits
    <2> HIDE DEF t, o
    <2>3. Typed(t) /\ SameSend(s, t)
      BY <1>2, <1>3, <2>2 DEF Typed, SameSend
    <2> QED
      BY <1>3, <1>4, <2>1, <2>3
  <1>5. CASE ~EmitFits(s)
    <2>1. emit(s, f) = raise_fatal(s, MUX_CODE_INTERNAL)
      BY <1>5, Zenon DEF emit
    <2> QED
      BY <1>5, <2>1, RaiseFatal
         DEF Code, MUX_CODE_INTERNAL, MUX_CODE_NO_ERROR
  <1> QED
    BY <1>4, <1>5

\* What the output buffer takes of an amount is between nothing and all of it,
\* and its chunks are frames for which there is room.
LEMMA FitChunks ==
  ASSUME NEW s, Typed(s), NEW type \in FrameType,
         NEW sid \in {MUX_SID_CONTROL} \cup Sids,
         NEW total \in Nat, NEW max \in Nat \ {0}
  PROVE  LET n == Fit(s, total, max)
             c == Chunks(type, sid, n, max)
         IN  /\ n \in 0 .. total
             /\ s.out \o c \in Seq(Frame)
             /\ Len(s.out \o c) <= OutCap
  <1> DEFINE n == Fit(s, total, max)
             c == Chunks(type, sid, n, max)
             r == OutCap - Len(s.out)
             k == (n + max - 1) \div max
  <1>0. s.out \in Seq(Frame) /\ r \in Nat
    BY SessionAssumption DEF Typed, SessionState
  <1>1. r * max \in Nat
    BY <1>0
  <1>2. n \in Nat /\ n <= total /\ n <= r * max
    BY <1>0, <1>1 DEF Fit
  <1> HIDE DEF n, r
  <1>3. k \in Nat /\ k * max <= n + max - 1 /\ n <= k * max
    BY <1>2
  <1> HIDE DEF k
  <1>4. k <= r
    <2>1. SUFFICES ASSUME k >= r + 1 PROVE FALSE
      BY <1>0, <1>3
    <2>2. k * max >= (r + 1) * max
      BY <1>0, <1>3, <2>1
    <2> QED
      BY <1>0, <1>1, <1>2, <1>3, <2>2
  <1>5. \A i \in 1 .. k :
          MkFrame(type, {}, sid, IF i < k THEN max ELSE n - (k - 1) * max) \in Frame
    BY <1>2, <1>3 DEF MkFrame, Frame
  <1>6. c \in Seq(Frame) /\ Len(c) = k
    BY <1>3, <1>5 DEF Chunks, k
  <1> HIDE DEF c
  <1> QED
    BY <1>0, <1>2, <1>4, <1>6, SessionAssumption DEF n, c, r

\* The chunk loop changes nothing but the output buffer, unless it gets stuck.
LEMMA EmitChunks ==
  ASSUME NEW s, Typed(s), NEW type \in FrameType,
         NEW sid \in {MUX_SID_CONTROL} \cup Sids,
         NEW total \in Nat, NEW max \in Nat \ {0}
  PROVE  LET t == emit_chunks(s, type, sid, total, max)
         IN  /\ Typed(t) /\ SameSend(s, t) /\ t.tab = s.tab
             /\ Fit(s, total, max) \in 0 .. total
             /\ Fit(s, total, max) = total => t.dead = s.dead
             /\ Fit(s, total, max) # total => t.dead # MUX_CODE_NO_ERROR
  <1> DEFINE n == Fit(s, total, max)
             o == s.out \o Chunks(type, sid, n, max)
             t == [s EXCEPT !.out = o]
  <1>1. n \in 0 .. total /\ o \in Seq(Frame) /\ Len(o) <= OutCap
    BY FitChunks
  <1> HIDE DEF n, o
  <1>2. t \in SessionState
    BY <1>1, Zenon DEF Typed, SessionState
  <1>3. /\ t.dead = s.dead /\ t.tab = s.tab /\ t.out = o
        /\ SameIds(s, t) /\ SameBlocked(s, t)
    BY Zenon DEF Typed, SessionState, SameIds, SameBlocked
  <1>4. emit_chunks(s, type, sid, total, max) =
          IF n < total THEN raise_fatal(t, MUX_CODE_INTERNAL) ELSE t
    BY Zenon DEF emit_chunks, n, o
  <1> HIDE DEF t
  <1>5. Typed(t) /\ SameSend(s, t)
    BY <1>1, <1>2, <1>3 DEF Typed, SameSend
  <1>6. CASE n < total
    <2> DEFINE u == raise_fatal(t, MUX_CODE_INTERNAL)
    <2>1. /\ Typed(u) /\ SameSend(t, u) /\ u.tab = t.tab
          /\ u.dead # MUX_CODE_NO_ERROR
      BY <1>5, RaiseFatal DEF Code, MUX_CODE_INTERNAL, MUX_CODE_NO_ERROR
    <2>2. emit_chunks(s, type, sid, total, max) = u
      BY <1>4, <1>6
    <2> HIDE DEF u
    <2>3. SameSend(s, u)
      BY <1>5, <2>1, SameSendTransitive
    <2> QED
      BY <1>1, <1>3, <1>6, <2>1, <2>2, <2>3 DEF n
  <1>7. CASE n = total
    BY <1>1, <1>3, <1>4, <1>5, <1>7 DEF n
  <1> QED
    BY <1>1, <1>6, <1>7

\* Giving credit back touches the receive side only.
LEMMA CreditSession ==
  ASSUME NEW s, Typed(s)
  PROVE  /\ Typed(credit_session(s)) /\ SameSend(s, credit_session(s))
         /\ credit_session(s).tab = s.tab
  <1> DEFINE p == s.sess_recv_pending
             n == Fit(s, p, MaxCredit)
             c == emit_chunks(s, "WINDOW_UPDATE", MUX_SID_CONTROL, p, MaxCredit)
             t == [c EXCEPT !.sess_recv_win = @ + n, !.sess_recv_pending = p - n]
  <1>1. CASE p <= 0 \/ p * 2 < SessionWindow[s.role]
    BY <1>1 DEF credit_session, SameSend, SameIds, SameBlocked
  <1>2. CASE ~(p <= 0 \/ p * 2 < SessionWindow[s.role])
    <2>1. credit_session(s) = t
      BY <1>2, Zenon DEF credit_session
    <2>2. p \in Int
      BY Zenon DEF Typed, SessionState
    <2>3. p \in Nat
      BY <1>2, <2>2
    <2>4. /\ Typed(c) /\ SameSend(s, c) /\ c.tab = s.tab
          /\ n \in 0 .. p
      <3>1. /\ "WINDOW_UPDATE" \in FrameType /\ MaxCredit \in Nat \ {0}
            /\ MUX_SID_CONTROL \in {MUX_SID_CONTROL} \cup Sids
        BY SessionAssumption DEF FrameType
      <3> HIDE DEF p
      <3> QED
        BY <2>3, <3>1, EmitChunks
    <2> HIDE DEF c, n
    <2>5. c.sess_recv_win \in Int
      BY <2>4, Zenon DEF Typed, SessionState
    <2>6. c.sess_recv_win + n \in Int /\ p - n \in Int
      BY <2>2, <2>4, <2>5
    <2>7. t \in SessionState
      BY <2>4, <2>6, Zenon DEF Typed, SessionState
    <2>8. /\ t.dead = c.dead /\ t.tab = c.tab /\ t.out = c.out
          /\ SameIds(c, t) /\ SameBlocked(c, t)
      BY <2>4, Zenon DEF Typed, SessionState, SameIds, SameBlocked
    <2> HIDE DEF t
    <2>9. Typed(t) /\ SameSend(c, t)
      BY <2>4, <2>7, <2>8 DEF Typed, SameSend
    <2> QED
      BY <2>1, <2>4, <2>8, <2>9, SameSendTransitive
  <1> QED
    BY <1>1, <1>2

\* Returning the pending credit of a stream touches its receive side only.
LEMMA CreditStream ==
  ASSUME NEW s, Typed(s), NEW sid \in Sids
  PROVE  Typed(credit_stream(s, sid)) /\ SameSend(s, credit_stream(s, sid))
  <1> DEFINE p == s.tab[sid].recv_pending
             n == Fit(s, p, MaxCredit)
             c == emit_chunks(s, "WINDOW_UPDATE", sid, p, MaxCredit)
             t == [c EXCEPT !.tab[sid].recv_win = @ + n,
                            !.tab[sid].recv_pending = p - n]
  <1>1. CASE p <= 0 \/ p * 2 < InitWindow[s.role]
    BY <1>1 DEF credit_stream, SameSend, SameIds, SameBlocked
  <1>2. CASE ~(p <= 0 \/ p * 2 < InitWindow[s.role])
    <2>1. credit_stream(s, sid) = t
      BY <1>2, Zenon DEF credit_stream
    <2>2. s.tab \in [Sids -> Stream]
      BY Zenon DEF Typed, SessionState
    <2>3. p \in Nat
      BY <1>2, <2>2 DEF Stream
    <2>4. /\ Typed(c) /\ SameSend(s, c) /\ c.tab = s.tab
          /\ n \in 0 .. p
      <3>1. /\ "WINDOW_UPDATE" \in FrameType /\ MaxCredit \in Nat \ {0}
            /\ sid \in {MUX_SID_CONTROL} \cup Sids
        BY SessionAssumption DEF FrameType
      <3> HIDE DEF p
      <3> QED
        BY <2>3, <3>1, EmitChunks
    <2> HIDE DEF c, n, p
    <2> DEFINE v == [s.tab EXCEPT ![sid].recv_win = @ + n,
                                  ![sid].recv_pending = p - n]
    <2>5. /\ v \in [Sids -> Stream]
          /\ \A i \in Sids : /\ v[i].send_win = s.tab[i].send_win
                             /\ v[i].life = s.tab[i].life
      BY <2>2, <2>3, <2>4 DEF Stream
    <2>6. t = [c EXCEPT !.tab = v]
      BY <2>4, Zenon DEF Typed, SessionState
    <2> HIDE DEF v, t
    <2>7. t \in SessionState
      BY <2>4, <2>5, <2>6, Zenon DEF Typed, SessionState
    <2>8. /\ t.dead = c.dead /\ t.tab = v /\ t.out = c.out
          /\ SameIds(c, t) /\ SameBlocked(c, t)
      BY <2>4, <2>6, Zenon DEF Typed, SessionState, SameIds, SameBlocked
    <2>9. Typed(t) /\ SameSend(c, t)
      BY <2>4, <2>5, <2>7, <2>8 DEF Typed, SameSend
    <2> QED
      BY <2>1, <2>4, <2>9, SameSendTransitive
  <1> QED
    BY <1>1, <1>2

-----------------------------------------------------------------------------
(***************************************************************************)
(* Blocked streams and the stream table.                                   *)
(***************************************************************************)

\* The two parts of SInv that speak of ids survive any step that creates no
\* stream.
LEMMA LiveShrinks ==
  ASSUME NEW s, NEW t, SInv(s), SameIds(s, t),
         \A sid \in Sids : t.tab[sid].life # "NONE" => s.tab[sid].life # "NONE"
  PROVE  NoneBeforeHello(t) /\ NextIsFresh(t)
  <1>1. t.role = s.role /\ t.next_local_sid = s.next_local_sid
    BY DEF SameIds
  <1>2. OwnParity(t) = OwnParity(s)
    BY <1>1, Zenon DEF OwnParity
  <1>3. NextIsFresh(t)
    BY <1>1, <1>2 DEF SInv, NextIsFresh
  <1>4. NoneBeforeHello(t)
    BY DEF SInv, NoneBeforeHello, SameIds
  <1> QED
    BY <1>3, <1>4

\* Flag and counter move together.
LEMMA SetBlocked ==
  ASSUME NEW s, Typed(s), Counted(s), NEW sid \in Sids, NEW blocked \in BOOLEAN
  PROVE  LET t == set_blocked(s, sid, blocked)
         IN  /\ Typed(t) /\ Counted(t) /\ SameIds(s, t)
             /\ t.dead = s.dead /\ t.tab = s.tab /\ t.waiting = s.waiting
             /\ t.sess_send_win = s.sess_send_win
             /\ t.send_blocked = IF blocked THEN s.send_blocked \cup {sid}
                                            ELSE s.send_blocked \ {sid}
  <1> DEFINE B == s.send_blocked
             up == [s EXCEPT !.send_blocked = B \cup {sid},
                             !.blocked_count = s.blocked_count + 1]
             dn == [s EXCEPT !.send_blocked = B \ {sid},
                             !.blocked_count = s.blocked_count - 1]
  <1>1. s \in SessionState /\ B \in SUBSET Sids /\ s.blocked_count \in Int
    BY Zenon DEF Typed, SessionState
  <1>2. B \cup {sid} \in SUBSET Sids /\ B \ {sid} \in SUBSET Sids
    BY <1>1
  <1>3. s.blocked_count + 1 \in Int /\ s.blocked_count - 1 \in Int
    BY <1>1
  <1>4. IsFiniteSet(B) /\ Cardinality(B) \in Nat
    BY <1>1, SidsFinite, FS_CardinalityType
  <1>5. sid \notin B => Cardinality(B \cup {sid}) = Cardinality(B) + 1
    BY <1>4, FS_AddElement
  <1>6. sid \in B => Cardinality(B \ {sid}) = Cardinality(B) - 1
    BY <1>4, FS_RemoveElement
  <1>7. ASSUME NEW n \in Int, NEW C \in SUBSET Sids
        PROVE  LET t == [s EXCEPT !.send_blocked = C, !.blocked_count = n]
               IN  /\ t \in SessionState /\ t.out = s.out /\ SameIds(s, t)
                   /\ t.dead = s.dead /\ t.tab = s.tab /\ t.waiting = s.waiting
                   /\ t.sess_send_win = s.sess_send_win
                   /\ t.send_blocked = C /\ t.blocked_count = n
    BY <1>1, Zenon DEF SessionState, SameIds
  <1>8. CASE blocked /\ sid \notin B
    <2>1. set_blocked(s, sid, blocked) = up
      BY <1>8, Zenon DEF set_blocked
    <2>2. /\ up \in SessionState /\ up.out = s.out /\ SameIds(s, up)
          /\ up.dead = s.dead /\ up.tab = s.tab /\ up.waiting = s.waiting
          /\ up.sess_send_win = s.sess_send_win
          /\ up.send_blocked = B \cup {sid}
          /\ up.blocked_count = s.blocked_count + 1
      BY <1>2, <1>3, <1>7, Zenon
    <2> HIDE DEF up
    <2>3. Typed(up) /\ Counted(up)
      BY <1>5, <1>8, <2>2 DEF Typed, Counted
    <2> QED
      BY <1>8, <2>1, <2>2, <2>3, Zenon
  <1>9. CASE ~blocked /\ sid \in B
    <2>1. set_blocked(s, sid, blocked) = dn
      BY <1>9, Zenon DEF set_blocked
    <2>2. /\ dn \in SessionState /\ dn.out = s.out /\ SameIds(s, dn)
          /\ dn.dead = s.dead /\ dn.tab = s.tab /\ dn.waiting = s.waiting
          /\ dn.sess_send_win = s.sess_send_win
          /\ dn.send_blocked = B \ {sid}
          /\ dn.blocked_count = s.blocked_count - 1
      BY <1>2, <1>3, <1>7, Zenon
    <2> HIDE DEF dn
    <2>3. Typed(dn) /\ Counted(dn)
      BY <1>6, <1>9, <2>2 DEF Typed, Counted
    <2> QED
      BY <1>9, <2>1, <2>2, <2>3, Zenon
  <1>10. CASE (blocked /\ sid \in B) \/ (~blocked /\ sid \notin B)
    <2>1. set_blocked(s, sid, blocked) = s
      BY <1>10, Zenon DEF set_blocked
    <2>2. B = IF blocked THEN B \cup {sid} ELSE B \ {sid}
      BY <1>10
    <2> QED
      BY <2>1, <2>2 DEF SameIds
  <1> QED
    BY <1>8, <1>9, <1>10

\* Waking a set of blocked streams clears their flags and counts them off.
LEMMA Wake ==
  ASSUME NEW s, Typed(s), Counted(s), NEW woken \in SUBSET s.send_blocked
  PROVE  LET t == wake(s, woken)
         IN  /\ Typed(t) /\ Counted(t) /\ SameIds(s, t)
             /\ t.dead = s.dead /\ t.tab = s.tab
             /\ t.sess_send_win = s.sess_send_win
             /\ t.waiting = s.waiting \ woken
             /\ t.send_blocked = s.send_blocked \ woken
  <1> DEFINE B == s.send_blocked
             n == s.blocked_count - Cardinality(woken)
  <1>1. /\ s \in SessionState /\ B \in SUBSET Sids
        /\ s.waiting \in SUBSET Sids /\ s.blocked_count \in Int
    BY Zenon DEF Typed, SessionState
  <1>2. B \ woken \in SUBSET Sids /\ s.waiting \ woken \in SUBSET Sids
    BY <1>1
  <1>3. IsFiniteSet(B) /\ IsFiniteSet(woken) /\ B \cap woken = woken
    BY <1>1, SidsFinite
  <1>4. /\ Cardinality(woken) \in Nat
        /\ Cardinality(B \ woken) = Cardinality(B) - Cardinality(B \cap woken)
    BY <1>3, FS_CardinalityType, FS_Difference
  <1>5. n \in Int /\ n = Cardinality(B \ woken)
    BY <1>1, <1>3, <1>4 DEF Counted
  <1> HIDE DEF n
  <1> DEFINE C == B \ woken
             D == s.waiting \ woken
             t == [s EXCEPT !.send_blocked = C, !.blocked_count = n, !.waiting = D]
  <1>6. wake(s, woken) = t
    BY Zenon DEF wake, n
  <1>7. C \in SUBSET Sids /\ D \in SUBSET Sids
    BY <1>2
  <1> HIDE DEF C, D
  <1>8. /\ t \in SessionState /\ t.out = s.out /\ SameIds(s, t)
        /\ t.dead = s.dead /\ t.tab = s.tab /\ t.waiting = D
        /\ t.sess_send_win = s.sess_send_win
        /\ t.send_blocked = C /\ t.blocked_count = n
    BY <1>1, <1>5, <1>7, Zenon DEF SessionState, SameIds
  <1> HIDE DEF t
  <1>9. Typed(t) /\ Counted(t)
    BY <1>5, <1>8, Zenon DEF Typed, Counted, C
  <1> QED
    BY <1>6, <1>8, <1>9, Zenon DEF C, D

\* Removing a stream keeps the invariant, on a dead session too.
LEMMA StRemove ==
  ASSUME NEW s, SInv(s), NEW sid \in Sids
  PROVE  LET t == st_remove(s, sid)
         IN  SInv(t) /\ SameIds(s, t) /\ t.dead = s.dead
  <1> DEFINE u == set_blocked(s, sid, FALSE)
             v == [s.tab EXCEPT ![sid] = NoStream]
             D == s.waiting \ {sid}
             t == [u EXCEPT !.tab = v, !.waiting = D]
  <1>1. /\ s \in SessionState /\ s.tab \in [Sids -> Stream]
        /\ s.waiting \in SUBSET Sids /\ s.send_blocked \in SUBSET Sids
    BY Zenon DEF SInv, Typed, SessionState
  <1>2. /\ Typed(u) /\ Counted(u) /\ SameIds(s, u)
        /\ u.dead = s.dead /\ u.tab = s.tab /\ u.waiting = s.waiting
        /\ u.sess_send_win = s.sess_send_win
        /\ u.send_blocked = s.send_blocked \ {sid}
    <2>1. FALSE \in BOOLEAN
      OBVIOUS
    <2> QED
      BY <2>1, SetBlocked DEF SInv
  <1>3. st_remove(s, sid) = t
    BY <1>2, Zenon DEF st_remove, Typed, SessionState
  <1>4. v \in [Sids -> Stream] /\ D \in SUBSET Sids
    BY <1>1 DEF NoStream, Stream, Life
  <1>5. \A i \in Sids : /\ i # sid => v[i] = s.tab[i]
                        /\ v[sid].life = "NONE"
    BY <1>1 DEF NoStream
  <1> HIDE DEF u, v, D
  <1>6. /\ t \in SessionState /\ t.out = u.out /\ SameIds(u, t)
        /\ t.dead = u.dead /\ t.tab = v /\ t.waiting = D
        /\ t.sess_send_win = u.sess_send_win
        /\ t.send_blocked = u.send_blocked /\ t.blocked_count = u.blocked_count
    BY <1>2, <1>4, Zenon DEF Typed, SessionState, SameIds
  <1> HIDE DEF t
  <1>7. Typed(t) /\ Counted(t) /\ SameIds(s, t) /\ t.dead = s.dead
    BY <1>2, <1>6 DEF Typed, Counted, SameIds
  <1>8. Blocked(t)
    BY <1>1, <1>2, <1>5, <1>6 DEF SInv, Blocked, NoRoom, D
  <1>9. BlockedAreLive(t)
    BY <1>1, <1>2, <1>5, <1>6 DEF SInv, BlockedAreLive
  <1>10. NoneBeforeHello(t) /\ NextIsFresh(t)
    BY <1>5, <1>6, <1>7, LiveShrinks
  <1> QED
    BY <1>3, <1>7, <1>8, <1>9, <1>10 DEF SInv

\* A fresh stream of the peer's parity, or one below the next local id, keeps
\* the invariant.
LEMMA StInsert ==
  ASSUME NEW s, SInv(s), NEW sid \in Sids, s.tab[sid].life = "NONE",
         s.peer_hello_seen = TRUE,
         sid % 2 = OwnParity(s) => sid < s.next_local_sid
  PROVE  LET t == st_insert(s, sid)
         IN  SInv(t) /\ SameIds(s, t) /\ t.dead = s.dead /\ t.out = s.out
  <1> DEFINE x == [life |-> "OPEN", send_win |-> s.peer_init_window,
                   recv_win |-> InitWindow[s.role], recv_pending |-> 0]
             v == [s.tab EXCEPT ![sid] = x]
             t == [s EXCEPT !.tab = v]
  <1>1. /\ s \in SessionState /\ s.tab \in [Sids -> Stream]
        /\ s.send_blocked \in SUBSET Sids
        /\ s.peer_init_window \in Nat /\ s.role \in Role
    BY Zenon DEF SInv, Typed, SessionState
  <1>2. st_insert(s, sid) = t
    BY <1>1, Zenon DEF st_insert, SessionState
  <1>3. x \in Stream /\ x.life # "NONE"
    BY <1>1, SessionAssumption DEF Stream, Life
  <1> HIDE DEF x
  <1>4. v \in [Sids -> Stream] /\ \A i \in Sids : i # sid => v[i] = s.tab[i]
    BY <1>1, <1>3
  <1> HIDE DEF v
  <1>5. /\ t \in SessionState /\ t.out = s.out /\ SameIds(s, t)
        /\ t.dead = s.dead /\ t.tab = v /\ t.waiting = s.waiting
        /\ t.sess_send_win = s.sess_send_win
        /\ t.send_blocked = s.send_blocked /\ t.blocked_count = s.blocked_count
    BY <1>1, <1>4, Zenon DEF SessionState, SameIds
  <1> HIDE DEF t
  <1>6. sid \notin s.send_blocked
    BY DEF SInv, BlockedAreLive
  <1>7. Typed(t) /\ Counted(t)
    BY <1>5 DEF SInv, Typed, Counted
  <1>8. Blocked(t) /\ BlockedAreLive(t)
    BY <1>1, <1>4, <1>5, <1>6 DEF SInv, Blocked, NoRoom, BlockedAreLive
  <1>9. NoneBeforeHello(t)
    BY <1>5 DEF NoneBeforeHello, SameIds
  <1>10. NextIsFresh(t)
    <2>1. t.role = s.role /\ t.next_local_sid = s.next_local_sid
      BY <1>5 DEF SameIds
    <2>2. OwnParity(t) = OwnParity(s)
      BY <2>1, Zenon DEF OwnParity
    <2> QED
      BY <1>4, <1>5, <2>1, <2>2 DEF SInv, NextIsFresh
  <1> QED
    BY <1>2, <1>5, <1>7, <1>8, <1>9, <1>10 DEF SInv

-----------------------------------------------------------------------------
(***************************************************************************)
(* Fields SInv does not mention.                                           *)
(***************************************************************************)

\* max_remote_sid is no part of the invariant.
LEMMA SetMaxRemote ==
  ASSUME NEW s, SInv(s), NEW n \in Nat
  PROVE  LET t == [s EXCEPT !.max_remote_sid = n]
         IN  SInv(t) /\ SameIds(s, t) /\ t.tab = s.tab
  <1> DEFINE t == [s EXCEPT !.max_remote_sid = n]
  <1>1. /\ t \in SessionState /\ t.dead = s.dead /\ t.tab = s.tab /\ t.out = s.out
        /\ SameIds(s, t) /\ SameBlocked(s, t)
    BY Zenon DEF SInv, Typed, SessionState, SameIds, SameBlocked
  <1> HIDE DEF t
  <1>2. Typed(t) /\ SameSend(s, t)
    BY <1>1 DEF SInv, Typed, SameSend
  <1>3. SInv(t)
    BY <1>2, SameSendInv
  <1> QED
    BY <1>1, <1>3 DEF t

\* The count of dropped frames is no part of the invariant.
LEMMA SetDropped ==
  ASSUME NEW s, SInv(s), NEW n \in Nat
  PROVE  LET t == [s EXCEPT !.dropped = n]
         IN  SInv(t) /\ SameIds(s, t) /\ t.tab = s.tab
  <1> DEFINE t == [s EXCEPT !.dropped = n]
  <1>1. /\ t \in SessionState /\ t.dead = s.dead /\ t.tab = s.tab /\ t.out = s.out
        /\ SameIds(s, t) /\ SameBlocked(s, t)
    BY Zenon DEF SInv, Typed, SessionState, SameIds, SameBlocked
  <1> HIDE DEF t
  <1>2. Typed(t) /\ SameSend(s, t)
    BY <1>1 DEF SInv, Typed, SameSend
  <1>3. SInv(t)
    BY <1>2, SameSendInv
  <1> QED
    BY <1>1, <1>3 DEF t

\* Recording that HELLO went out keeps the invariant.
LEMMA SetHelloSent ==
  ASSUME NEW s, SInv(s), NEW b \in BOOLEAN
  PROVE  LET t == [s EXCEPT !.hello_sent = b]
         IN  SInv(t) /\ SameIds(s, t) /\ t.tab = s.tab
  <1> DEFINE t == [s EXCEPT !.hello_sent = b]
  <1>1. /\ t \in SessionState /\ t.dead = s.dead /\ t.tab = s.tab /\ t.out = s.out
        /\ SameIds(s, t) /\ SameBlocked(s, t)
    BY Zenon DEF SInv, Typed, SessionState, SameIds, SameBlocked
  <1> HIDE DEF t
  <1>2. Typed(t) /\ SameSend(s, t)
    BY <1>1 DEF SInv, Typed, SameSend
  <1>3. SInv(t)
    BY <1>2, SameSendInv
  <1> QED
    BY <1>1, <1>3 DEF t

\* Recording a GOAWAY keeps the invariant.
LEMMA SetGoaway ==
  ASSUME NEW s, SInv(s), NEW b \in BOOLEAN
  PROVE  LET t == [s EXCEPT !.local_goaway = b]
         IN  SInv(t) /\ SameIds(s, t) /\ t.tab = s.tab
  <1> DEFINE t == [s EXCEPT !.local_goaway = b]
  <1>1. /\ t \in SessionState /\ t.dead = s.dead /\ t.tab = s.tab /\ t.out = s.out
        /\ SameIds(s, t) /\ SameBlocked(s, t)
    BY Zenon DEF SInv, Typed, SessionState, SameIds, SameBlocked
  <1> HIDE DEF t
  <1>2. Typed(t) /\ SameSend(s, t)
    BY <1>1 DEF SInv, Typed, SameSend
  <1>3. SInv(t)
    BY <1>2, SameSendInv
  <1> QED
    BY <1>1, <1>3 DEF t

\* Recording a PING keeps the invariant.
LEMMA SetPing ==
  ASSUME NEW s, SInv(s), NEW b \in BOOLEAN
  PROVE  LET t == [s EXCEPT !.ping_outstanding = b]
         IN  SInv(t) /\ SameIds(s, t) /\ t.tab = s.tab
  <1> DEFINE t == [s EXCEPT !.ping_outstanding = b]
  <1>1. /\ t \in SessionState /\ t.dead = s.dead /\ t.tab = s.tab /\ t.out = s.out
        /\ SameIds(s, t) /\ SameBlocked(s, t)
    BY Zenon DEF SInv, Typed, SessionState, SameIds, SameBlocked
  <1> HIDE DEF t
  <1>2. Typed(t) /\ SameSend(s, t)
    BY <1>1 DEF SInv, Typed, SameSend
  <1>3. SInv(t)
    BY <1>2, SameSendInv
  <1> QED
    BY <1>1, <1>3 DEF t

-----------------------------------------------------------------------------
(***************************************************************************)
(* Frame handlers.  Keeps is what each of them is shown to do.             *)
(***************************************************************************)
Keeps(s, t) == SInv(t) /\ t.role = s.role

\* A step that leaves the send side alone keeps the invariant and the role.
LEMMA SameSendKeeps ==
  ASSUME NEW s, NEW t, SInv(s), Typed(t), SameSend(s, t)
  PROVE  Keeps(s, t)
  BY SameSendInv DEF Keeps, SameSend, SameIds

\* raise_fatal keeps the invariant: it marks the session dead and queues FATAL.
LEMMA FatalKeeps ==
  ASSUME NEW s, SInv(s), NEW code \in Code \ {MUX_CODE_NO_ERROR}
  PROVE  Keeps(s, raise_fatal(s, code))
  BY RaiseFatal, SameSendKeeps DEF SInv

\* The codes that raise_fatal is called with are codes other than no-error.
LEMMA ErrorCodes ==
  /\ MUX_CODE_PROTOCOL \in Code \ {MUX_CODE_NO_ERROR}
  /\ MUX_CODE_FLOW_CONTROL \in Code \ {MUX_CODE_NO_ERROR}
  /\ MUX_CODE_INTERNAL \in Code \ {MUX_CODE_NO_ERROR}
  BY DEF Code, MUX_CODE_PROTOCOL, MUX_CODE_FLOW_CONTROL, MUX_CODE_INTERNAL,
         MUX_CODE_NO_ERROR

\* emit keeps the invariant, also when the output buffer is full.
LEMMA EmitKeeps ==
  ASSUME NEW s, SInv(s), NEW f \in Frame
  PROVE  Keeps(s, emit(s, f)) /\ SameSend(s, emit(s, f))
  BY Emit, SameSendKeeps DEF SInv

\* emit_rst keeps the invariant and leaves the send side alone.
LEMMA EmitRst ==
  ASSUME NEW s, SInv(s), NEW sid \in Sids, NEW code \in Nat
  PROVE  SInv(emit_rst(s, sid, code)) /\ SameSend(s, emit_rst(s, sid, code))
  <1>1. MkFrame("DATA", {"RST"}, sid, code) \in Frame
    BY DEF MkFrame, Frame, FrameType
  <1> QED
    BY <1>1, EmitKeeps DEF emit_rst, Keeps

\* The HELLO that a session sends at its first call keeps the invariant.
LEMMA SendHello ==
  ASSUME NEW s, SInv(s), NEW ack \in BOOLEAN
  PROVE  Keeps(s, send_hello(s, ack))
  <1> DEFINE f == MkFrame(IF ack THEN "HELLO_ACK" ELSE "HELLO", {}, MUX_SID_CONTROL, 0)
             u == emit(s, f)
  <1>1. f \in Frame
    BY DEF MkFrame, Frame, FrameType
  <1> HIDE DEF f
  <1>2. Keeps(s, u)
    BY <1>1, EmitKeeps
  <1>3. send_hello(s, ack) = IF EmitFits(s) THEN [u EXCEPT !.hello_sent = TRUE] ELSE u
    BY Zenon DEF send_hello, f
  <1> HIDE DEF u
  <1>4. Keeps(u, [u EXCEPT !.hello_sent = TRUE])
    BY <1>2, SetHelloSent DEF Keeps, SameIds
  <1> QED
    BY <1>2, <1>3, <1>4, Zenon DEF Keeps

\* Before the greeting no stream exists, so the windows may be replaced.
LEMMA OnHello ==
  ASSUME NEW s, SInv(s), NEW f \in Frame, NEW ack \in BOOLEAN
  PROVE  Keeps(s, on_hello(s, f, ack))
  <1> DEFINE y == Peer(s.role)
             g == [s EXCEPT !.peer_max_streams = MaxStreams[y],
                            !.peer_init_window = InitWindow[y],
                            !.sess_send_win = SessionWindow[y],
                            !.peer_hello_seen = TRUE]
  <1>1. CASE f.sid # MUX_SID_CONTROL \/ s.peer_hello_seen
    <2>1. on_hello(s, f, ack) = raise_fatal(s, MUX_CODE_PROTOCOL)
      BY <1>1, Zenon DEF on_hello
    <2> QED
      BY <2>1, FatalKeeps, ErrorCodes
  <1>2. CASE ~(f.sid # MUX_SID_CONTROL \/ s.peer_hello_seen)
    <2>1. on_hello(s, f, ack) = send_hello(g, TRUE) \/ on_hello(s, f, ack) = g
      BY <1>2, Zenon DEF on_hello
    <2>2. MaxStreams[y] \in Nat /\ InitWindow[y] \in Nat /\ SessionWindow[y] \in Nat
      BY SessionAssumption DEF Peer, Role
    <2>3. SessionWindow[y] \in Int
      BY <2>2
    <2> HIDE DEF y
    <2>4. /\ g \in SessionState /\ g.out = s.out /\ g.role = s.role
          /\ g.tab = s.tab /\ g.peer_hello_seen = TRUE
          /\ g.next_local_sid = s.next_local_sid
          /\ g.blocked_count = s.blocked_count /\ g.dead = s.dead
          /\ g.send_blocked = s.send_blocked /\ g.waiting = s.waiting
      BY <2>2, <2>3, Zenon DEF SInv, Typed, SessionState
    <2> HIDE DEF g
    <2>5. s.peer_hello_seen = FALSE /\ s.send_blocked \in SUBSET Sids
      BY <1>2, Zenon DEF SInv, Typed, SessionState
    <2>6. s.send_blocked = {}
      BY <2>5 DEF SInv, NoneBeforeHello, BlockedAreLive
    <2>7. OwnParity(g) = OwnParity(s)
      BY <2>4, Zenon DEF OwnParity
    <2>8. Typed(g) /\ Counted(g)
      BY <2>4 DEF SInv, Typed, Counted
    <2>9. Blocked(g) /\ BlockedAreLive(g)
      BY <2>4, <2>6 DEF SInv, Blocked, BlockedAreLive
    <2>10. NoneBeforeHello(g) /\ NextIsFresh(g)
      BY <2>4, <2>7 DEF SInv, NoneBeforeHello, NextIsFresh
    <2>11. Keeps(s, g)
      BY <2>4, <2>8, <2>9, <2>10 DEF SInv, Keeps
    <2>12. Keeps(g, send_hello(g, TRUE))
      BY <2>11, SendHello DEF Keeps
    <2> QED
      BY <2>1, <2>11, <2>12 DEF Keeps
  <1> QED
    BY <1>1, <1>2

\* Moving an existing stream between OPEN and the two half-closed states.
LEMMA SetLife ==
  ASSUME NEW s, SInv(s), NEW sid \in Sids, s.tab[sid].life # "NONE",
         NEW life \in Life \ {"NONE"}
  PROVE  Keeps(s, [s EXCEPT !.tab[sid].life = life])
  <1> DEFINE v == [s.tab EXCEPT ![sid].life = life]
             t == [s EXCEPT !.tab = v]
  <1>1. s \in SessionState /\ s.tab \in [Sids -> Stream]
    BY Zenon DEF SInv, Typed, SessionState
  <1>2. [s EXCEPT !.tab[sid].life = life] = t
    BY <1>1, Zenon DEF SessionState
  <1>3. /\ v \in [Sids -> Stream]
        /\ \A i \in Sids : /\ v[i].send_win = s.tab[i].send_win
                           /\ v[i].life = "NONE" <=> s.tab[i].life = "NONE"
    BY <1>1 DEF Stream
  <1> HIDE DEF v
  <1>4. /\ t \in SessionState /\ t.dead = s.dead /\ t.tab = v /\ t.out = s.out
        /\ SameIds(s, t) /\ SameBlocked(s, t)
    BY <1>1, <1>3, Zenon DEF SessionState, SameIds, SameBlocked
  <1> HIDE DEF t
  <1>5. Typed(t) /\ SameSend(s, t)
    BY <1>3, <1>4 DEF SInv, Typed, SameSend
  <1> QED
    BY <1>2, <1>5, SameSendKeeps

\* Accepting a DATA payload within both windows keeps the invariant.
LEMMA AcceptData ==
  ASSUME NEW s, SInv(s), NEW f \in Frame, f.sid \in Sids
  PROVE  /\ Keeps(s, accept_data(s, f))
         /\ accept_data(s, f).tab[f.sid].life = s.tab[f.sid].life
  <1> DEFINE v == [s.tab EXCEPT ![f.sid].recv_win = @ - f.val]
             w == s.sess_recv_win - f.val
             u == [s.unread EXCEPT ![f.sid] = @ + f.val]
             t == [s EXCEPT !.tab = v, !.sess_recv_win = w, !.unread = u]
  <1>1. /\ s \in SessionState /\ s.tab \in [Sids -> Stream]
        /\ s.sess_recv_win \in Int /\ s.unread \in [Sids -> Nat]
    BY Zenon DEF SInv, Typed, SessionState
  <1>2. accept_data(s, f) = t
    BY <1>1, Zenon DEF accept_data, SessionState
  <1>3. f.val \in Nat
    BY DEF Frame
  <1>4. /\ v \in [Sids -> Stream] /\ w \in Int /\ u \in [Sids -> Nat]
        /\ \A i \in Sids : /\ v[i].send_win = s.tab[i].send_win
                           /\ v[i].life = s.tab[i].life
    BY <1>1, <1>3 DEF Stream
  <1> HIDE DEF v, w, u
  <1>5. /\ t \in SessionState /\ t.dead = s.dead /\ t.tab = v /\ t.out = s.out
        /\ SameIds(s, t) /\ SameBlocked(s, t)
    BY <1>1, <1>4, Zenon DEF SessionState, SameIds, SameBlocked
  <1> HIDE DEF t
  <1>6. Typed(t) /\ SameSend(s, t)
    BY <1>4, <1>5 DEF SInv, Typed, SameSend
  <1> QED
    BY <1>2, <1>4, <1>5, <1>6, SameSendKeeps

\* on_fin keeps the invariant, whether or not it frees the stream.
LEMMA OnFin ==
  ASSUME NEW s, SInv(s), NEW sid \in Sids, s.tab[sid].life # "NONE"
  PROVE  Keeps(s, on_fin(s, sid))
  <1>1. Keeps(s, st_remove(s, sid))
    BY StRemove DEF Keeps, SameIds
  <1>2. "HCL_REMOTE" \in Life \ {"NONE"}
    BY DEF Life
  <1>3. Keeps(s, [s EXCEPT !.tab[sid].life = "HCL_REMOTE"])
    BY <1>2, SetLife
  <1> QED
    BY <1>1, <1>3, Zenon DEF on_fin

\* Resetting a stream because of a stream error keeps the invariant.
LEMMA AbortStream ==
  ASSUME NEW s, SInv(s), NEW f \in Frame, f.sid \in Sids, NEW code \in Nat
  PROVE  Keeps(s, abort_stream(s, f, code))
  <1> DEFINE e == emit_rst(s, f.sid, code)
             r == st_remove(e, f.sid)
  <1>1. SInv(e) /\ e.role = s.role
    BY EmitRst DEF SameSend, SameIds
  <1> HIDE DEF e
  <1>2. SInv(r) /\ r.role = s.role
    BY <1>1, StRemove DEF SameIds
  <1> HIDE DEF r
  <1>3. abort_stream(s, f, code) = [r EXCEPT !.dropped = r.dropped + f.val]
    BY Zenon DEF abort_stream, r, e
  <1>4. r.dropped \in Nat
    BY <1>2, Zenon DEF SInv, Typed, SessionState
  <1>5. r.dropped + f.val \in Nat
    BY <1>4 DEF Frame
  <1> QED
    BY <1>2, <1>3, <1>5, SetDropped DEF Keeps, SameIds

\* on_syn keeps the invariant.
LEMMA OnSyn ==
  ASSUME NEW s, SInv(s), NEW f \in Frame
  PROVE  Keeps(s, on_syn(s, f))
  <1> DEFINE bad == \/ ~s.peer_hello_seen
                    \/ f.sid % 2 # PeerParity(s)
                    \/ f.sid = MUX_SID_CONTROL
                    \/ f.sid \in Live(s)
                    \/ f.sid <= s.max_remote_sid
                    \/ f.val > MUX_MAX_META
             e == emit_rst(s, f.sid, MUX_CODE_REFUSED)
             i == st_insert(s, f.sid)
             new == [i EXCEPT !.max_remote_sid = f.sid]
  <1>1. CASE bad
    <2>1. on_syn(s, f) = raise_fatal(s, MUX_CODE_PROTOCOL)
      BY <1>1, Zenon DEF on_syn
    <2> QED
      BY <2>1, FatalKeeps, ErrorCodes
  <1>2. CASE ~bad
    <2>1. f.sid \in Sids /\ f.sid \in Nat
      BY <1>2, SessionAssumption DEF Frame, Sids, MUX_SID_CONTROL
    <2>2. s.tab[f.sid].life = "NONE" /\ s.peer_hello_seen
      BY <1>2, <2>1 DEF Live
    <2>3. s.peer_hello_seen = TRUE /\ s.role \in Role
      BY <2>2, Zenon DEF SInv, Typed, SessionState
    <2>4. f.sid % 2 = PeerParity(s)
      BY <1>2
    <2>5. f.sid % 2 # OwnParity(s)
      BY <2>3, <2>4 DEF PeerParity, OwnParity, Role
    <2>6. SInv(e) /\ e.role = s.role
      BY <2>1, EmitRst DEF SameSend, SameIds, MUX_CODE_REFUSED
    <2>7. SInv(i) /\ i.role = s.role
      BY <2>1, <2>2, <2>3, <2>5, StInsert DEF SameIds
    <2>8. i.tab[f.sid].life # "NONE"
      <3>1. s \in SessionState /\ s.tab \in [Sids -> Stream]
        BY Zenon DEF SInv, Typed, SessionState
      <3>2. i.tab = [s.tab EXCEPT ![f.sid] =
                      [life |-> "OPEN", send_win |-> s.peer_init_window,
                       recv_win |-> InitWindow[s.role], recv_pending |-> 0]]
        BY <3>1, Zenon DEF st_insert, SessionState
      <3> HIDE DEF i
      <3> QED
        BY <2>1, <3>1, <3>2
    <2> HIDE DEF e, i
    <2>9. Keeps(s, [e EXCEPT !.max_remote_sid = f.sid])
      BY <2>1, <2>6, SetMaxRemote DEF Keeps, SameIds
    <2>10. Keeps(s, new) /\ new.tab[f.sid].life # "NONE"
      BY <2>1, <2>7, <2>8, SetMaxRemote DEF Keeps, SameIds
    <2>11. \/ on_syn(s, f) = [e EXCEPT !.max_remote_sid = f.sid]
           \/ on_syn(s, f) = st_remove(new, f.sid)
           \/ on_syn(s, f) = [new EXCEPT !.tab[f.sid].life = "HCL_REMOTE"]
           \/ on_syn(s, f) = new
      BY <1>2, Zenon DEF on_syn, e, i
    <2> HIDE DEF new
    <2>12. Keeps(s, st_remove(new, f.sid))
      BY <2>1, <2>10, StRemove DEF Keeps, SameIds
    <2>13. "HCL_REMOTE" \in Life \ {"NONE"}
      BY DEF Life
    <2>14. Keeps(s, [new EXCEPT !.tab[f.sid].life = "HCL_REMOTE"])
      BY <2>1, <2>10, <2>13, SetLife DEF Keeps
    <2> QED
      BY <2>9, <2>10, <2>11, <2>12, <2>14
  <1> QED
    BY <1>1, <1>2

\* on_data keeps the invariant.
LEMMA OnData ==
  ASSUME NEW s, SInv(s), NEW f \in Frame
  PROVE  Keeps(s, on_data(s, f))
  <1> DEFINE a == accept_data(s, f)
             d == [s EXCEPT !.dropped = s.dropped + f.val]
  <1>1. CASE "SYN" \in f.flags
    BY <1>1, OnSyn, Zenon DEF on_data
  <1>2. CASE "SYN" \notin f.flags /\ f.sid = MUX_SID_CONTROL
    <2>1. on_data(s, f) = raise_fatal(s, MUX_CODE_PROTOCOL)
      BY <1>2, Zenon DEF on_data
    <2> QED
      BY <2>1, FatalKeeps, ErrorCodes
  <1>3. CASE "SYN" \notin f.flags /\ f.sid # MUX_SID_CONTROL /\ f.sid \notin Live(s)
    <2>1. on_data(s, f) = s \/ on_data(s, f) = d
      BY <1>3, Zenon DEF on_data
    <2>2. s.dropped \in Nat
      BY Zenon DEF SInv, Typed, SessionState
    <2>3. s.dropped + f.val \in Nat
      BY <2>2 DEF Frame
    <2>4. Keeps(s, d)
      BY <2>3, SetDropped DEF Keeps, SameIds
    <2> QED
      BY <2>1, <2>4 DEF Keeps
  <1>4. CASE "SYN" \notin f.flags /\ f.sid # MUX_SID_CONTROL /\ f.sid \in Live(s)
    <2>1. f.sid \in Sids /\ s.tab[f.sid].life # "NONE"
      BY <1>4 DEF Live
    <2>2. \/ on_data(s, f) = st_remove(s, f.sid)
          \/ on_data(s, f) = abort_stream(s, f, MUX_CODE_PROTOCOL)
          \/ on_data(s, f) = raise_fatal(s, MUX_CODE_FLOW_CONTROL)
          \/ on_data(s, f) = abort_stream(s, f, MUX_CODE_FLOW_CONTROL)
          \/ on_data(s, f) = on_fin(a, f.sid)
          \/ on_data(s, f) = a
      BY <1>4, Zenon DEF on_data
    <2>3. Keeps(s, a) /\ a.tab[f.sid].life # "NONE"
      BY <2>1, AcceptData
    <2> HIDE DEF a
    <2>4. Keeps(s, st_remove(s, f.sid))
      BY <2>1, StRemove DEF Keeps, SameIds
    <2>5. /\ Keeps(s, abort_stream(s, f, MUX_CODE_PROTOCOL))
          /\ Keeps(s, abort_stream(s, f, MUX_CODE_FLOW_CONTROL))
      BY <2>1, AbortStream DEF MUX_CODE_PROTOCOL, MUX_CODE_FLOW_CONTROL
    <2>6. Keeps(s, raise_fatal(s, MUX_CODE_FLOW_CONTROL))
      BY FatalKeeps, ErrorCodes
    <2>7. Keeps(s, on_fin(a, f.sid))
      BY <2>1, <2>3, OnFin DEF Keeps
    <2> QED
      BY <2>2, <2>3, <2>4, <2>5, <2>6, <2>7
  <1> QED
    BY <1>1, <1>2, <1>3, <1>4

\* The parts of SInv that do not depend on the size of the send windows.
LEMMA WindowsMoved ==
  ASSUME NEW s, SInv(s), NEW t, Typed(t), SameIds(s, t),
         t.blocked_count = s.blocked_count, t.send_blocked = s.send_blocked,
         \A i \in Sids : t.tab[i].life = s.tab[i].life
  PROVE  /\ Counted(t) /\ BlockedAreLive(t) /\ NoneBeforeHello(t) /\ NextIsFresh(t)
         /\ \A code \in Code \ {MUX_CODE_NO_ERROR} : Keeps(s, raise_fatal(t, code))
  <1>1. Counted(t)
    BY DEF SInv, Counted
  <1>2. s.send_blocked \in SUBSET Sids
    BY Zenon DEF SInv, Typed, SessionState
  <1>3. BlockedAreLive(t)
    BY <1>2 DEF SInv, BlockedAreLive
  <1>4. NoneBeforeHello(t) /\ NextIsFresh(t)
    BY LiveShrinks
  <1>5. ASSUME NEW code \in Code \ {MUX_CODE_NO_ERROR}
        PROVE  Keeps(s, raise_fatal(t, code))
    <2> DEFINE r == raise_fatal(t, code)
    <2>1. /\ Typed(r) /\ SameSend(t, r) /\ r.tab = t.tab
          /\ r.dead # MUX_CODE_NO_ERROR
      BY RaiseFatal
    <2> HIDE DEF r
    <2>2. SameIds(s, r) /\ r.role = s.role
      BY <2>1 DEF SameSend, SameIds
    <2>3. NoneBeforeHello(r) /\ NextIsFresh(r)
      BY <2>1, <2>2, LiveShrinks
    <2>4. Counted(r) /\ BlockedAreLive(r)
      BY <1>1, <1>3, <2>1 DEF SameSend, SameBlocked, Counted, BlockedAreLive
    <2>5. Blocked(r)
      BY <2>1 DEF Blocked
    <2> QED
      BY <2>1, <2>2, <2>3, <2>4, <2>5 DEF Keeps, SInv, r
  <1> QED
    BY <1>1, <1>3, <1>4, <1>5

\* Connection credit: the sweep leaves only streams blocked on their own window.
LEMMA OnSessionCredit ==
  ASSUME NEW s, SInv(s), NEW credit \in Nat
  PROVE  Keeps(s, on_session_credit(s, credit))
  <1> DEFINE w == s.sess_send_win + credit
             t == [s EXCEPT !.sess_send_win = w]
             woken == {sid \in s.send_blocked : s.tab[sid].send_win > 0}
             k == wake(t, woken)
  <1>1. /\ s \in SessionState /\ s.sess_send_win \in Int /\ s.tab \in [Sids -> Stream]
        /\ s.send_blocked \in SUBSET Sids /\ s.blocked_count \in Int
        /\ s.dead \in Code
    BY Zenon DEF SInv, Typed, SessionState
  <1>2. w \in Int /\ w >= s.sess_send_win
    BY <1>1
  <1> HIDE DEF w
  <1>3. /\ t \in SessionState /\ t.dead = s.dead /\ t.tab = s.tab /\ t.out = s.out
        /\ SameIds(s, t) /\ t.sess_send_win = w /\ t.waiting = s.waiting
        /\ t.send_blocked = s.send_blocked /\ t.blocked_count = s.blocked_count
    BY <1>1, <1>2, Zenon DEF SessionState, SameIds
  <1>4. \/ on_session_credit(s, credit) = raise_fatal(t, MUX_CODE_FLOW_CONTROL)
        \/ on_session_credit(s, credit) = k
        \/ /\ on_session_credit(s, credit) = t
           /\ ~(s.sess_send_win <= 0 /\ w > 0 /\ s.blocked_count > 0)
    BY <1>3, Zenon DEF on_session_credit, w
  <1> HIDE DEF t
  <1>5. Typed(t)
    BY <1>3 DEF SInv, Typed
  <1>6. /\ Counted(t) /\ BlockedAreLive(t) /\ NoneBeforeHello(t) /\ NextIsFresh(t)
        /\ Keeps(s, raise_fatal(t, MUX_CODE_FLOW_CONTROL))
    BY <1>3, <1>5, WindowsMoved, ErrorCodes
  <1>7. Keeps(s, k)
    <2>1. /\ Typed(k) /\ Counted(k) /\ SameIds(t, k) /\ k.dead = t.dead
          /\ k.tab = t.tab /\ k.waiting = t.waiting \ woken
          /\ k.send_blocked = t.send_blocked \ woken
      BY <1>3, <1>5, <1>6, Wake
    <2> HIDE DEF k
    <2>2. SameIds(s, k) /\ k.role = s.role
      BY <1>3, <2>1 DEF SameIds
    <2>3. NoneBeforeHello(k) /\ NextIsFresh(k)
      BY <1>3, <2>1, <2>2, LiveShrinks
    <2>4. \A sid \in k.send_blocked : s.tab[sid].send_win <= 0
      BY <1>1, <1>3, <2>1 DEF Stream
    <2>5. Blocked(k) /\ BlockedAreLive(k)
      BY <1>3, <2>1, <2>4 DEF SInv, Blocked, BlockedAreLive, NoRoom
    <2> QED
      BY <2>1, <2>2, <2>3, <2>5 DEF Keeps, SInv
  <1>8. ASSUME ~(s.sess_send_win <= 0 /\ w > 0 /\ s.blocked_count > 0)
        PROVE  Keeps(s, t)
    <2>1. CASE s.blocked_count <= 0
      <3>1. Cardinality(s.send_blocked) \in Nat /\ IsFiniteSet(s.send_blocked)
        BY <1>1, SidsFinite, FS_CardinalityType
      <3>2. Cardinality(s.send_blocked) = 0
        BY <1>1, <2>1, <3>1 DEF SInv, Counted
      <3>3. s.send_blocked = {}
        BY <3>1, <3>2, FS_EmptySet
      <3>4. Blocked(t)
        BY <1>3, <3>3 DEF SInv, Blocked
      <3> QED
        BY <1>3, <1>5, <1>6, <3>4 DEF Keeps, SInv, SameIds
    <2>2. CASE s.sess_send_win > 0 \/ w <= 0
      <3>1. Blocked(t)
        BY <1>1, <1>2, <1>3, <2>2 DEF SInv, Blocked, NoRoom
      <3> QED
        BY <1>3, <1>5, <1>6, <3>1 DEF Keeps, SInv, SameIds
    <2> QED
      BY <1>1, <1>2, <1>8, <2>1, <2>2
  <1> QED
    BY <1>4, <1>6, <1>7, <1>8

\* Stream credit: the stream is woken exactly when both its windows are open.
LEMMA OnStreamCredit ==
  ASSUME NEW s, SInv(s), NEW sid \in Sids, NEW credit \in Nat
  PROVE  Keeps(s, on_stream_credit(s, sid, credit))
  <1> DEFINE v == [s.tab EXCEPT ![sid].send_win = @ + credit]
             t == [s EXCEPT !.tab = v]
             k == wake(t, {sid})
  <1>1. /\ s \in SessionState /\ s.sess_send_win \in Int /\ s.tab \in [Sids -> Stream]
        /\ s.send_blocked \in SUBSET Sids
    BY Zenon DEF SInv, Typed, SessionState
  <1>2. [s EXCEPT !.tab[sid].send_win = @ + credit] = t
    BY <1>1, Zenon DEF SessionState
  <1>3. /\ v \in [Sids -> Stream]
        /\ \A i \in Sids : v[i].life = s.tab[i].life
        /\ \A i \in Sids : i # sid => v[i].send_win = s.tab[i].send_win
        /\ v[sid].send_win \in Int
    BY <1>1 DEF Stream
  <1> HIDE DEF v
  <1>4. /\ t \in SessionState /\ t.dead = s.dead /\ t.tab = v /\ t.out = s.out
        /\ SameIds(s, t) /\ t.sess_send_win = s.sess_send_win
        /\ t.waiting = s.waiting
        /\ t.send_blocked = s.send_blocked /\ t.blocked_count = s.blocked_count
    BY <1>1, <1>3, Zenon DEF SessionState, SameIds
  <1>5. \/ on_stream_credit(s, sid, credit) = raise_fatal(t, MUX_CODE_FLOW_CONTROL)
        \/ on_stream_credit(s, sid, credit) = k /\ sid \in t.send_blocked
        \/ /\ on_stream_credit(s, sid, credit) = t
           /\ ~(/\ sid \in t.send_blocked
                /\ t.tab[sid].send_win > 0
                /\ t.sess_send_win > 0)
    BY <1>2, Zenon DEF on_stream_credit
  <1> HIDE DEF t
  <1>6. Typed(t)
    BY <1>4 DEF SInv, Typed
  <1>7. /\ Counted(t) /\ BlockedAreLive(t) /\ NoneBeforeHello(t) /\ NextIsFresh(t)
        /\ Keeps(s, raise_fatal(t, MUX_CODE_FLOW_CONTROL))
    BY <1>3, <1>4, <1>6, WindowsMoved, ErrorCodes
  <1>8. ASSUME sid \in t.send_blocked
        PROVE  Keeps(s, k)
    <2>1. /\ Typed(k) /\ Counted(k) /\ SameIds(t, k) /\ k.dead = t.dead
          /\ k.tab = t.tab /\ k.waiting = t.waiting \ {sid}
          /\ k.sess_send_win = t.sess_send_win
          /\ k.send_blocked = t.send_blocked \ {sid}
      BY <1>6, <1>7, <1>8, Wake
    <2> HIDE DEF k
    <2>2. SameIds(s, k) /\ k.role = s.role
      BY <1>4, <2>1 DEF SameIds
    <2>3. NoneBeforeHello(k) /\ NextIsFresh(k)
      BY <1>3, <1>4, <2>1, <2>2, LiveShrinks
    <2>4. Blocked(k) /\ BlockedAreLive(k)
      BY <1>1, <1>3, <1>4, <2>1 DEF SInv, Blocked, BlockedAreLive, NoRoom
    <2> QED
      BY <2>1, <2>2, <2>3, <2>4 DEF Keeps, SInv
  <1>9. ASSUME ~(/\ sid \in t.send_blocked
                 /\ t.tab[sid].send_win > 0
                 /\ t.sess_send_win > 0)
        PROVE  Keeps(s, t)
    <2>1. Blocked(t)
      BY <1>1, <1>3, <1>4, <1>9 DEF SInv, Blocked, NoRoom
    <2> QED
      BY <1>4, <1>6, <1>7, <2>1 DEF Keeps, SInv, SameIds
  <1> QED
    BY <1>5, <1>7, <1>8, <1>9

\* on_window_update keeps the invariant: it wakes what it makes sendable.
LEMMA OnWindowUpdate ==
  ASSUME NEW s, SInv(s), NEW f \in Frame
  PROVE  Keeps(s, on_window_update(s, f))
  <1>1. f.val \in Nat
    BY DEF Frame
  <1>2. Keeps(s, on_session_credit(s, f.val))
    BY <1>1, OnSessionCredit
  <1>3. f.sid \in Live(s) => Keeps(s, on_stream_credit(s, f.sid, f.val))
    BY <1>1, OnStreamCredit DEF Live
  <1>4. Keeps(s, s)
    BY DEF Keeps
  <1> QED
    BY <1>2, <1>3, <1>4, Zenon DEF on_window_update

\* on_ping keeps the invariant.
LEMMA OnPing ==
  ASSUME NEW s, SInv(s), NEW f \in Frame
  PROVE  Keeps(s, on_ping(s, f))
  <1>1. MkFrame("PING", {"ACK"}, MUX_SID_CONTROL, f.val) \in Frame
    BY DEF MkFrame, Frame, FrameType
  <1>2. Keeps(s, emit(s, MkFrame("PING", {"ACK"}, MUX_SID_CONTROL, f.val)))
    BY <1>1, EmitKeeps
  <1>3. Keeps(s, [s EXCEPT !.ping_outstanding = FALSE])
    BY SetPing DEF Keeps, SameIds
  <1>4. Keeps(s, raise_fatal(s, MUX_CODE_PROTOCOL))
    BY FatalKeeps, ErrorCodes
  <1> QED
    BY <1>2, <1>3, <1>4, Zenon DEF on_ping

\* Every frame, legal or not, leaves a session that satisfies the invariant.
LEMMA ProcessFrame ==
  ASSUME NEW s, SInv(s), NEW f \in Frame
  PROVE  Keeps(s, process_frame(s, f))
  <1>1. Keeps(s, raise_fatal(s, MUX_CODE_PROTOCOL)) /\ Keeps(s, s)
    BY FatalKeeps, ErrorCodes DEF Keeps
  <1>2. Keeps(s, on_goaway(s, f)) /\ Keeps(s, on_capacity(s, f))
    BY <1>1, Zenon DEF on_goaway, on_capacity
  <1>3. Keeps(s, on_hello(s, f, FALSE)) /\ Keeps(s, on_hello(s, f, TRUE))
    BY OnHello
  <1>4. f.type \in FrameType
    BY DEF Frame
  <1> QED
    BY <1>1, <1>2, <1>3, <1>4, OnData, OnWindowUpdate, OnPing
       DEF process_frame, FrameType
=============================================================================

------------------------------ MODULE LinkProofs ------------------------------
(***************************************************************************)
(* Proofs about TetherLink: what travels between the coordinator and the   *)
(* agent arrives in order, each command at most once and each line whole,  *)
(* for any number of connections, cuts and commands.                       *)
(*                                                                         *)
(* The argument looks at all the places a command can be at one time - the *)
(* agent's buffer, the connection, the batch being sent, the queue of the  *)
(* operator - as one stream: within a connection the frames increase, what *)
(* an earlier connection still holds is older than what a later one holds, *)
(* and only an uncut connection of the coordinator can grow.               *)
(***************************************************************************)
EXTENDS TetherLink, SequenceTheorems, TLAPS

Token == [frame : Nat, part : {"head", "tail"}]
Conn  == [ground : {"none", "open", "closed"}, agent : {"none", "queued", "open", "closed"},
          cut : BOOLEAN, err : SUBSET End, sent : [End -> Seq(Token)]]

Frames(q)   == {q[i].frame : i \in 1..Len(q)}
Below(q, r) == \A f \in Frames(q), g \in Frames(r) : f < g
Even(q)     == Len(q) % 2 = 0

\* Tokens of complete lines with increasing frames, the last perhaps cut short.
Framed(q) ==
    /\ \A i \in 1..Len(q) : q[i].part = IF i % 2 = 1 THEN "head" ELSE "tail"
    /\ \A i, j \in 1..Len(q) : i <= j => q[i].frame <= q[j].frame
    /\ \A i \in 1..Len(q) - 1 : q[i].frame = q[i + 1].frame <=> i % 2 = 1

-----------------------------------------------------------------------------
(* The inductive invariant.                                                *)

Types ==
    /\ conn \in [Slot -> Conn] /\ backlog \in Seq(Slot)
    /\ serving \in 0..Slots /\ rx_pending \in Seq(Token) /\ tx_pending \in Seq(Token)
    /\ line \in Seq(Token) /\ beats \in Nat
    /\ apc \in {"off", "accept", "top", "recv", "parse", "send", "close", "done"}
    /\ co_running \in BOOLEAN /\ tether_fd \in 0..Slots
    /\ cpc \in {"off", "loop", "dial", "send", "poll", "parse", "done", "crashed"}
    /\ co_pending \in Seq(Token) /\ out \in Seq(Token) /\ co_rx \in Seq(Token)
    /\ last_state \in Nat /\ telemetry \in Nat
    /\ issued \in Nat /\ dispatched \in Seq(Nat) /\ reported \in Seq(Nat)

Queued(s) == \E i \in 1..Len(backlog) : backlog[i] = s

\* How the ends of the connections go with what the two programs hold.
Shape ==
    /\ \A i, j \in 1..Len(backlog) : backlog[i] = backlog[j] => i = j
    /\ \A s \in Slot : conn[s].agent = "queued" <=> Queued(s)
    /\ \A s \in Slot : conn[s].agent = "open" <=> s = serving
    /\ \A s \in Slot : conn[s].ground = "open" <=> s = tether_fd
    /\ \A s \in Slot : conn[s].ground = "open" => conn[s].agent # "none"
    /\ \A s \in Slot : conn[s].agent = "queued" => conn[s].sent["ground"] = <<>>
    /\ \A s \in Slot : (s = tether_fd /\ conn[s].agent = "queued")
                       => backlog[Len(backlog)] = s /\ co_rx = <<>>
    /\ \A s \in Slot : (s = tether_fd /\ conn[s].agent = "open") => backlog = <<>>
    /\ serving # 0 <=> apc \in {"top", "recv", "parse", "send", "close"}
    /\ line # <<>> => apc = "parse"
    /\ out # <<>> => cpc = "send"
    /\ cpc = "dial" => tether_fd = 0

\* The stream of commands in a connection, from the agent's buffer to the
\* coordinator's batch; a connection the agent has closed delivers nothing.
LiveDown(s) == s = tether_fd /\ ~conn[s].cut
Down(s) ==
    IF conn[s].agent \in {"queued", "open"}
    THEN ((IF s = serving THEN rx_pending ELSE <<>>) \o conn[s].sent["agent"])
           \o (IF LiveDown(s) THEN out ELSE <<>>)
    ELSE <<>>

\* The agent reads connection s before connection t.
Before(s, t) ==
    \/ s = serving /\ Queued(t)
    \/ \E i, j \in 1..Len(backlog) : i < j /\ backlog[i] = s /\ backlog[j] = t

\* Commands the agent has taken off a stream.
Handled == Frames(line) \cup {dispatched[i] : i \in 1..Len(dispatched)}

Streams ==
    /\ \A s \in Slot : Framed(Down(s)) /\ (LiveDown(s) => Even(Down(s)))
    /\ \A s, t \in Slot : Before(s, t) => Below(Down(s), Down(t))
    /\ \A s \in Slot : Below(Down(s), co_pending) /\ \A f \in Frames(Down(s)) : f <= issued

Pending == Framed(co_pending) /\ Even(co_pending) /\ \A f \in Frames(co_pending) : f <= issued

Delivered ==
    /\ line # <<>> => Whole(line)
    /\ Increasing(dispatched)
    /\ \A f \in Frames(line), i \in 1..Len(dispatched) : dispatched[i] < f
    /\ \A f \in Handled :
        /\ f <= issued
        /\ \A g \in Frames(co_pending) : f < g
        /\ \A s \in Slot : \A g \in Frames(Down(s)) : f < g

DownInv == Streams /\ Pending /\ Delivered

\* The stream of heartbeats to the coordinator.
LiveUp == tether_fd # 0 /\ serving = tether_fd /\ ~conn[tether_fd].cut
Up == IF tether_fd = 0 THEN co_rx
      ELSE (co_rx \o conn[tether_fd].sent["ground"]) \o (IF LiveUp THEN tx_pending ELSE <<>>)

UpInv ==
    /\ Framed(Up)
    /\ LiveUp => Even(Up)
    /\ \A f \in Frames(Up) : f <= beats /\ \A i \in 1..Len(reported) : reported[i] < f
    /\ Increasing(reported)
    /\ \A i \in 1..Len(reported) : reported[i] <= beats
    /\ last_state = IF reported = <<>> THEN 0 ELSE reported[Len(reported)]

LinkInv == Types /\ Shape /\ DownInv /\ UpInv

-----------------------------------------------------------------------------
(* Streams of tokens.                                                      *)

LEMMA FramesNat == ASSUME NEW q \in Seq(Token) PROVE Frames(q) \subseteq Nat
<1>1. \A i \in 1..Len(q) : q[i] \in Token
  OBVIOUS
<1> QED
  BY <1>1 DEF Frames, Token

LEMMA Concat ==
    ASSUME NEW q \in Seq(Token), NEW r \in Seq(Token)
    PROVE  /\ q \o r \in Seq(Token) /\ Len(q \o r) = Len(q) + Len(r)
           /\ \A i \in 1..Len(q) : (q \o r)[i] = q[i]
           /\ \A i \in 1..Len(r) : (q \o r)[Len(q) + i] = r[i]
  OBVIOUS

LEMMA EmptyFramed == Framed(<<>>) /\ Even(<<>>) /\ Frames(<<>>) = {}
  BY DEF Framed, Even, Frames

LEMMA FramesConcat ==
    ASSUME NEW q \in Seq(Token), NEW r \in Seq(Token)
    PROVE  Frames(q \o r) = Frames(q) \cup Frames(r)
<1>1. Len(q \o r) = Len(q) + Len(r) /\ Len(q) \in Nat /\ Len(r) \in Nat
  OBVIOUS
<1>2. \A i \in 1..Len(q) : (q \o r)[i] = q[i]
  OBVIOUS
<1>3. \A i \in 1..Len(r) : (q \o r)[Len(q) + i] = r[i]
  OBVIOUS
<1>4. Frames(q \o r) \subseteq Frames(q) \cup Frames(r)
  <2> SUFFICES ASSUME NEW i \in 1..Len(q \o r)
               PROVE  (q \o r)[i].frame \in Frames(q) \cup Frames(r)
    BY DEF Frames
  <2>1. CASE i <= Len(q)
    BY <2>1, <1>1, <1>2 DEF Frames
  <2>2. CASE i > Len(q)
    <3>1. i - Len(q) \in 1..Len(r) /\ i = Len(q) + (i - Len(q))
      BY <2>2, <1>1
    <3>2. (q \o r)[i] = r[i - Len(q)]
      BY <3>1, <1>3
    <3> QED
      BY <3>1, <3>2 DEF Frames
  <2> QED
    BY <2>1, <2>2, <1>1
<1>5. Frames(q) \subseteq Frames(q \o r)
  BY <1>1, <1>2 DEF Frames
<1>6. Frames(r) \subseteq Frames(q \o r)
  <2> SUFFICES ASSUME NEW i \in 1..Len(r) PROVE r[i].frame \in Frames(q \o r)
    BY DEF Frames
  <2>1. Len(q) + i \in 1..Len(q \o r)
    BY <1>1
  <2> QED
    BY <2>1, <1>3 DEF Frames
<1> QED
  BY <1>4, <1>5, <1>6

\* A prefix of a stream.
LEMMA PrefixOf ==
    ASSUME NEW q \in Seq(Token), NEW r \in Seq(Token), Framed(q \o r)
    PROVE  Framed(q) /\ Frames(q) \subseteq Frames(q \o r)
<1>1. Len(q \o r) = Len(q) + Len(r) /\ Len(q) \in Nat /\ Len(r) \in Nat
  OBVIOUS
<1>2. \A i \in 1..Len(q) : (q \o r)[i] = q[i]
  OBVIOUS
<1>3. Framed(q)
  <2> DEFINE s == q \o r
  <2>1. \A i \in 1..Len(q) : i \in 1..Len(s) /\ s[i] = q[i]
    BY <1>1, <1>2
  <2>2. \A i \in 1..Len(q) - 1 : i \in 1..Len(s) - 1 /\ i \in 1..Len(q) /\ i + 1 \in 1..Len(q)
    BY <1>1
  <2>3. Framed(s)
    OBVIOUS
  <2> HIDE DEF s
  <2>4. \A i \in 1..Len(q) : q[i].part = IF i % 2 = 1 THEN "head" ELSE "tail"
    BY <2>1, <2>3 DEF Framed
  <2>5. \A i, j \in 1..Len(q) : i <= j => q[i].frame <= q[j].frame
    BY <2>1, <2>3 DEF Framed
  <2>6. \A i \in 1..Len(q) - 1 : q[i].frame = q[i + 1].frame <=> i % 2 = 1
    BY <2>1, <2>2, <2>3 DEF Framed
  <2> QED
    BY <2>4, <2>5, <2>6 DEF Framed
<1> QED
  BY <1>3, FramesConcat

\* Two streams one behind the other.
LEMMA FramedConcat ==
    ASSUME NEW q \in Seq(Token), NEW r \in Seq(Token),
           Framed(q), Framed(r), Even(q), Below(q, r)
    PROVE  Framed(q \o r) /\ (Even(r) => Even(q \o r))
<1> DEFINE n == Len(q)
           s == q \o r
<1>1. Len(s) = n + Len(r) /\ n \in Nat /\ Len(r) \in Nat /\ n % 2 = 0
  BY DEF Even
<1>2. \A i \in 1..n : s[i] = q[i]
  OBVIOUS
<1>3. \A i \in n + 1..Len(s) : s[i] = r[i - n] /\ i - n \in 1..Len(r) /\ (i - n) % 2 = i % 2
  <2> SUFFICES ASSUME NEW i \in n + 1..Len(s)
               PROVE  s[i] = r[i - n] /\ i - n \in 1..Len(r) /\ (i - n) % 2 = i % 2
    OBVIOUS
  <2>1. i - n \in 1..Len(r)
    BY <1>1
  <2>2. s[i] = r[i - n]
    BY <1>1, ConcatProperties
  <2>3. (i - n) % 2 = i % 2
    BY <1>1
  <2> QED
    BY <2>1, <2>2, <2>3
<1>4. \A i \in 1..n, j \in n + 1..Len(s) : s[i].frame < s[j].frame
  BY <1>2, <1>3 DEF Below, Frames
<1>5. \A i \in 1..Len(s) : i \in 1..n \/ i \in n + 1..Len(s)
  BY <1>1
<1> HIDE DEF n, s
<1>6. \A i \in 1..Len(s) : s[i].part = IF i % 2 = 1 THEN "head" ELSE "tail"
  <2> SUFFICES ASSUME NEW i \in 1..Len(s) PROVE s[i].part = IF i % 2 = 1 THEN "head" ELSE "tail"
    OBVIOUS
  <2>1. CASE i \in 1..n
    BY <2>1, <1>2 DEF Framed, n
  <2>2. CASE i \in n + 1..Len(s)
    BY <2>2, <1>3 DEF Framed
  <2> QED
    BY <2>1, <2>2, <1>5
<1>7. \A i, j \in 1..Len(s) : i <= j => s[i].frame <= s[j].frame
  <2> SUFFICES ASSUME NEW i \in 1..Len(s), NEW j \in 1..Len(s), i <= j PROVE s[i].frame <= s[j].frame
    OBVIOUS
  <2>0. \A k \in 1..Len(s) : s[k].frame \in Nat
    BY <1>2, <1>3, <1>5, FramesNat DEF Frames, n
  <2>1. CASE j \in 1..n
    <3>1. i \in 1..n
      BY <2>1, <1>1
    <3> QED
      BY <3>1, <2>1, <1>2 DEF Framed, n
  <2>2. CASE i \in n + 1..Len(s)
    <3>1. j \in n + 1..Len(s) /\ i - n <= j - n
      BY <2>2, <1>1
    <3> QED
      BY <3>1, <2>2, <1>3 DEF Framed
  <2>3. CASE i \in 1..n /\ j \in n + 1..Len(s)
    BY <2>3, <2>0, <1>4
  <2> QED
    BY <2>1, <2>2, <2>3, <1>5
<1>8. \A i \in 1..Len(s) - 1 : s[i].frame = s[i + 1].frame <=> i % 2 = 1
  <2> SUFFICES ASSUME NEW i \in 1..Len(s) - 1 PROVE s[i].frame = s[i + 1].frame <=> i % 2 = 1
    OBVIOUS
  <2>0. \A k \in 1..Len(s) : s[k].frame \in Nat
    BY <1>2, <1>3, <1>5, FramesNat DEF Frames, n
  <2>1. CASE i < n
    <3>1. i \in 1..n - 1 /\ i \in 1..n /\ i + 1 \in 1..n
      BY <2>1, <1>1
    <3> QED
      BY <3>1, <1>2 DEF Framed, n
  <2>2. CASE i = n
    <3>1. i \in 1..n /\ i + 1 \in n + 1..Len(s) /\ i \in 1..Len(s) /\ i + 1 \in 1..Len(s)
      BY <2>2, <1>1
    <3>2. s[i].frame < s[i + 1].frame
      BY <3>1, <1>4
    <3> QED
      BY <3>1, <3>2, <2>0, <2>2, <1>1
  <2>3. CASE i > n
    <3>1. i \in n + 1..Len(s) /\ i + 1 \in n + 1..Len(s) /\ i - n \in 1..Len(r) - 1 /\ (i + 1) - n = (i - n) + 1
      BY <2>3, <1>1
    <3>2. s[i] = r[i - n] /\ s[i + 1] = r[(i - n) + 1] /\ (i - n) % 2 = i % 2
      BY <3>1, <1>3
    <3> QED
      BY <3>1, <3>2 DEF Framed
  <2> QED
    BY <2>1, <2>2, <2>3, <1>1
<1>9. Even(r) => Even(s)
  BY <1>1 DEF Even
<1> QED
  BY <1>6, <1>7, <1>8, <1>9 DEF Framed, s

LEMMA TokensFramed ==
    ASSUME NEW f \in Nat
    PROVE  /\ Tokens(f) \in Seq(Token) /\ Framed(Tokens(f)) /\ Even(Tokens(f))
           /\ Frames(Tokens(f)) = {f}
<1> DEFINE t == Tokens(f)
<1>1. t \in Seq(Token) /\ Len(t) = 2 /\ t[1].frame = f /\ t[2].frame = f
         /\ t[1].part = "head" /\ t[2].part = "tail"
  BY DEF Tokens, Token
<1> HIDE DEF t
<1>2. \A i \in 1..Len(t) : i = 1 \/ i = 2
  BY <1>1
<1>3. Framed(t)
  BY <1>1, <1>2 DEF Framed
<1> QED
  BY <1>1, <1>2, <1>3 DEF Even, Frames, t

\* A queue split where a read or a write stops.
LEMMA Split ==
    ASSUME NEW w \in Seq(Token), NEW n \in 0..Len(w)
    PROVE  /\ SubSeq(w, 1, n) \in Seq(Token) /\ SubSeq(w, n + 1, Len(w)) \in Seq(Token)
           /\ Len(SubSeq(w, 1, n)) = n
           /\ SubSeq(w, 1, n) \o SubSeq(w, n + 1, Len(w)) = w
<1>1. \A i \in 1..Len(w) : w[i] \in Token
  OBVIOUS
<1>2. SubSeq(w, 1, n) \in Seq(Token) /\ Len(SubSeq(w, 1, n)) = n
  BY <1>1, SubSeqProperties
<1>3. SubSeq(w, n + 1, Len(w)) \in Seq(Token)
  BY <1>1, SubSeqProperties
<1>4. SubSeq(w, 1, n) \o SubSeq(w, n + 1, Len(w)) = SubSeq(w, 1, Len(w))
  <2>1. 1 \in 1..Len(w) + 1 /\ n \in 1 - 1..Len(w) /\ Len(w) \in n..Len(w)
    OBVIOUS
  <2> QED
    BY <2>1, ConcatAdjacentSubSeq
<1> QED
  BY <1>2, <1>3, <1>4, SubSeqFull

\* The first line of a stream, and what is left without it.
LEMMA FirstLine ==
    ASSUME NEW rx \in Seq(Token), HasLine(rx), Framed(rx)
    PROVE  /\ Len(rx) >= 2 /\ LineLen(rx) = 2
           /\ Line(rx) \in Seq(Token) /\ Whole(Line(rx)) /\ Frames(Line(rx)) = {rx[1].frame}
           /\ Line(rx)[1].frame = rx[1].frame
           /\ Rest(rx) \in Seq(Token) /\ rx = Line(rx) \o Rest(rx)
<1>0. DOMAIN rx = 1..Len(rx) /\ Len(rx) \in Nat
  OBVIOUS
<1>1. PICK i \in 1..Len(rx) : rx[i].part = "tail"
  BY <1>0 DEF HasLine
<1>2. rx[1].part = "head" /\ Len(rx) >= 2
  <2>1. rx[1].part = "head"
    BY <1>0, <1>1 DEF Framed
  <2>2. i # 1
    BY <2>1, <1>1
  <2> QED
    BY <2>1, <2>2, <1>0, <1>1
<1>3. rx[2].part = "tail" /\ rx[1].frame = rx[2].frame
  BY <1>2, <1>0 DEF Framed
<1>4. LineLen(rx) = 2
  <2> DEFINE P(k) == rx[k].part = "tail" /\ \A j \in 1..(k - 1) : rx[j].part = "head"
  <2>1. P(2)
    BY <1>2, <1>3
  <2>2. \A k \in DOMAIN rx : P(k) => k = 2
    BY <1>0, <1>2, <1>3
  <2>3. 2 \in DOMAIN rx
    BY <1>0, <1>2
  <2> HIDE DEF P
  <2>4. (CHOOSE k \in DOMAIN rx : P(k)) = 2
    BY <2>1, <2>2, <2>3
  <2> QED
    BY <2>4 DEF LineLen, P
<1>5. Line(rx) \in Seq(Token) /\ Rest(rx) \in Seq(Token) /\ rx = Line(rx) \o Rest(rx) /\ Len(Line(rx)) = 2
  BY <1>2, <1>4, <1>0, Split DEF Line, Rest
<1>6. Line(rx)[1] = rx[1] /\ Line(rx)[2] = rx[2]
  <2>1. \A k \in 1..2 : rx[k] \in Token
    BY <1>2, <1>0, ElementOfSeq
  <2>2. \A k \in 1..2 : SubSeq(rx, 1, 2)[k] = rx[k]
    BY <2>1, SubSeqProperties
  <2> QED
    BY <2>2, <1>4 DEF Line
<1>7. Frames(Line(rx)) = {rx[1].frame}
  <2>1. \A k \in 1..Len(Line(rx)) : k = 1 \/ k = 2
    BY <1>5
  <2> QED
    BY <2>1, <1>3, <1>5, <1>6 DEF Frames
<1> QED
  BY <1>2, <1>3, <1>4, <1>5, <1>6, <1>7 DEF Whole

\* Without its first line a stream is a stream of later frames.
LEMMA BehindLine ==
    ASSUME NEW a \in Seq(Token), NEW q \in Seq(Token), Len(a) = 2, Framed(a \o q)
    PROVE  /\ Framed(q) /\ Below(a, q) /\ (Even(a \o q) => Even(q))
<1> DEFINE s == a \o q
<1>1. Len(s) = 2 + Len(q) /\ Len(q) \in Nat /\ s \in Seq(Token)
  <2>1. s \in Seq(Token)
    OBVIOUS
  <2>2. Len(s) = Len(a) + Len(q)
    BY Concat
  <2>3. Len(q) \in Nat
    OBVIOUS
  <2> QED
    BY <2>1, <2>2, <2>3
<1>2. \A i \in 1..Len(q) : q[i] = s[i + 2] /\ i + 2 \in 1..Len(s) /\ (i + 2) % 2 = i % 2
  <2> SUFFICES ASSUME NEW i \in 1..Len(q)
               PROVE  q[i] = s[i + 2] /\ i + 2 \in 1..Len(s) /\ (i + 2) % 2 = i % 2
    OBVIOUS
  <2>1. i + 2 \in 1..Len(s) /\ (i + 2) % 2 = i % 2 /\ i + 2 = Len(a) + i
    BY <1>1
  <2>2. s[Len(a) + i] = q[i]
    BY Concat
  <2> QED
    BY <2>1, <2>2
<1>3. a[1] = s[1] /\ a[2] = s[2] /\ Framed(s)
  <2>1. \A i \in 1..Len(a) : s[i] = a[i]
    BY Concat
  <2>2. Framed(s)
    OBVIOUS
  <2> HIDE DEF s
  <2> QED
    BY <2>1, <2>2
<1>4. \A i \in 1..Len(s) : s[i].frame \in Nat
  <2>1. \A i \in 1..Len(s) : s[i] \in Token
    BY <1>1, ElementOfSeq
  <2> QED
    BY <2>1 DEF Token
<1> HIDE DEF s
<1>5. \A i \in 1..Len(q) : q[i].part = IF i % 2 = 1 THEN "head" ELSE "tail"
  BY <1>2, <1>3 DEF Framed
<1>6. \A i, j \in 1..Len(q) : i <= j => q[i].frame <= q[j].frame
  <2> SUFFICES ASSUME NEW i \in 1..Len(q), NEW j \in 1..Len(q), i <= j
               PROVE  q[i].frame <= q[j].frame
    OBVIOUS
  <2>1. i + 2 \in 1..Len(s) /\ j + 2 \in 1..Len(s) /\ i + 2 <= j + 2
    BY <1>2
  <2>2. s[i + 2].frame <= s[j + 2].frame
    BY <2>1, <1>3 DEF Framed
  <2> QED
    BY <2>2, <1>2
<1>7. \A i \in 1..Len(q) - 1 : q[i].frame = q[i + 1].frame <=> i % 2 = 1
  <2> SUFFICES ASSUME NEW i \in 1..Len(q) - 1 PROVE q[i].frame = q[i + 1].frame <=> i % 2 = 1
    OBVIOUS
  <2>1. i \in 1..Len(q) /\ i + 1 \in 1..Len(q) /\ i + 2 \in 1..Len(s) - 1 /\ (i + 1) + 2 = (i + 2) + 1
    BY <1>1
  <2>2. q[i] = s[i + 2] /\ q[i + 1] = s[(i + 2) + 1] /\ (i + 2) % 2 = i % 2
    BY <2>1, <1>2
  <2> QED
    BY <2>1, <2>2, <1>3 DEF Framed
<1>8. Below(a, q)
  <2> SUFFICES ASSUME NEW i \in 1..Len(a), NEW j \in 1..Len(q) PROVE a[i].frame < q[j].frame
    BY DEF Below, Frames
  <2>1. i = 1 \/ i = 2
    OBVIOUS
  <2>2. Len(s) >= 3 /\ 1 \in 1..Len(s) /\ 2 \in 1..Len(s) - 1 /\ 2 \in 1..Len(s) /\ 3 \in 1..Len(s)
    BY <1>1
  <2>3. s[1].frame <= s[2].frame /\ s[2].frame <= s[3].frame /\ s[2].frame # s[3].frame
    BY <2>2, <1>3 DEF Framed
  <2>4. s[3].frame <= s[j + 2].frame
    BY <2>2, <1>2, <1>3 DEF Framed
  <2>5. s[1].frame \in Nat /\ s[2].frame \in Nat /\ s[3].frame \in Nat /\ s[j + 2].frame \in Nat
    BY <2>2, <1>2, <1>4
  <2>6. s[1].frame < s[j + 2].frame /\ s[2].frame < s[j + 2].frame
    BY <2>3, <2>4, <2>5
  <2> QED
    BY <2>1, <2>6, <1>2, <1>3
<1>9. Even(s) => Even(q)
  BY <1>1 DEF Even
<1> QED
  BY <1>5, <1>6, <1>7, <1>8, <1>9 DEF Framed, s

\* Where reads, writes and cuts leave a stream p \o m \o q: m is in the
\* connection, p has been received, q is still to be sent.
LEMMA Associates ==
    ASSUME NEW p \in Seq(Token), NEW m \in Seq(Token), NEW q \in Seq(Token)
    PROVE  (p \o m) \o q = p \o (m \o q)
  BY ConcatAssociative

LEMMA NoTail == ASSUME NEW p \in Seq(Token) PROVE p \o <<>> = p /\ <<>> \o p = p
  BY ConcatEmptySeq

LEMMA CutShort ==
    ASSUME NEW p \in Seq(Token), NEW m \in Seq(Token), NEW q \in Seq(Token), NEW n \in 0..Len(m),
           Framed((p \o m) \o q)
    PROVE  /\ Framed((p \o SubSeq(m, 1, n)) \o <<>>)
           /\ Frames((p \o SubSeq(m, 1, n)) \o <<>>) \subseteq Frames((p \o m) \o q)
<1> DEFINE a == SubSeq(m, 1, n)
           b == SubSeq(m, n + 1, Len(m))
<1>1. a \in Seq(Token) /\ b \in Seq(Token) /\ a \o b = m
  BY Split
<1> HIDE DEF a, b
<1>2. p \o a \in Seq(Token) /\ b \o q \in Seq(Token)
  BY <1>1, Concat
<1>3. (p \o m) \o q = (p \o a) \o (b \o q)
  <2>1. p \o m = (p \o a) \o b
    BY <1>1, Associates
  <2>2. ((p \o a) \o b) \o q = (p \o a) \o (b \o q)
    <3> DEFINE c == p \o a
    <3>1. c \in Seq(Token)
      BY <1>2
    <3> HIDE DEF c
    <3>2. (c \o b) \o q = c \o (b \o q)
      BY <1>1, <3>1, Associates
    <3> QED
      BY <3>2 DEF c
  <2> QED
    BY <2>1, <2>2
<1>4. Framed(p \o a) /\ Frames(p \o a) \subseteq Frames((p \o m) \o q)
  BY <1>2, <1>3, PrefixOf
<1>5. (p \o a) \o <<>> = p \o a
  BY <1>2, NoTail
<1> QED
  BY <1>4, <1>5 DEF a

LEMMA TailDropped ==
    ASSUME NEW p \in Seq(Token), NEW m \in Seq(Token), NEW q \in Seq(Token), Framed((p \o m) \o q)
    PROVE  /\ Framed((p \o m) \o <<>>) /\ Frames((p \o m) \o <<>>) \subseteq Frames((p \o m) \o q)
           /\ Framed(p) /\ Frames(p) \subseteq Frames((p \o m) \o q)
<1>1. p \o m \in Seq(Token) /\ m \o q \in Seq(Token)
  BY Concat
<1>2. (p \o m) \o <<>> = p \o m /\ (p \o m) \o q = p \o (m \o q)
  BY <1>1, NoTail, Associates
<1>3. Framed(p \o m) /\ Frames(p \o m) \subseteq Frames((p \o m) \o q)
  BY <1>1, PrefixOf
<1>4. Framed(p) /\ Frames(p) \subseteq Frames(p \o (m \o q))
  BY <1>1, <1>2, PrefixOf
<1> QED
  BY <1>2, <1>3, <1>4

LEMMA Received ==
    ASSUME NEW p \in Seq(Token), NEW m \in Seq(Token), NEW n \in 0..Len(m)
    PROVE  /\ p \o SubSeq(m, 1, n) \in Seq(Token)
           /\ (p \o SubSeq(m, 1, n)) \o SubSeq(m, n + 1, Len(m)) = p \o m
<1> DEFINE a == SubSeq(m, 1, n)
           b == SubSeq(m, n + 1, Len(m))
<1>1. a \in Seq(Token) /\ b \in Seq(Token) /\ a \o b = m
  BY Split
<1> HIDE DEF a, b
<1>2. p \o a \in Seq(Token)
  BY <1>1, Concat
<1>3. (p \o a) \o b = p \o m
  BY <1>1, Associates
<1> QED
  BY <1>2, <1>3 DEF a, b

Joined(p, m, q) == (p \o m) \o q

LEMMA Written ==
    ASSUME NEW p \in Seq(Token), NEW m \in Seq(Token), NEW a \in Seq(Token), NEW b \in Seq(Token)
    PROVE  Joined(p, m \o a, b) = Joined(p, m, a \o b)
<1>1. p \o m \in Seq(Token)
  BY Concat
<1>2. (p \o m) \o a = p \o (m \o a)
  BY Associates
<1>3. ((p \o m) \o a) \o b = (p \o m) \o (a \o b)
  <2> DEFINE c == p \o m
  <2>1. c \in Seq(Token)
    BY <1>1
  <2> HIDE DEF c
  <2>2. (c \o a) \o b = c \o (a \o b)
    BY <2>1, Associates
  <2> QED
    BY <2>2 DEF c
<1> QED
  BY <1>2, <1>3 DEF Joined

LEMMA LineTaken ==
    ASSUME NEW p \in Seq(Token), NEW m \in Seq(Token), NEW q \in Seq(Token),
           Framed((p \o m) \o q), HasLine(p)
    PROVE  /\ Line(p) \in Seq(Token) /\ Rest(p) \in Seq(Token) /\ Whole(Line(p))
           /\ Framed((Rest(p) \o m) \o q)
           /\ Even((p \o m) \o q) => Even((Rest(p) \o m) \o q)
           /\ Frames((Rest(p) \o m) \o q) \subseteq Frames((p \o m) \o q)
           /\ Line(p)[1].frame \in Nat /\ Frames(Line(p)) = {Line(p)[1].frame}
           /\ Frames(Line(p)) \subseteq Frames((p \o m) \o q)
           /\ Below(Line(p), (Rest(p) \o m) \o q)
<1> DEFINE l == Line(p)
           r == Rest(p)
           w == (r \o m) \o q
<1>1. Framed(p)
  BY TailDropped
<1>2. /\ l \in Seq(Token) /\ r \in Seq(Token) /\ p = l \o r /\ Whole(l)
      /\ Frames(l) = {p[1].frame} /\ l[1].frame = p[1].frame
  BY <1>1, FirstLine
<1>3. Len(l) = 2
  BY <1>2 DEF Whole
<1>4. l[1].frame \in Nat
  BY <1>2, FramesNat
<1> HIDE DEF l, r
<1>5. w \in Seq(Token) /\ r \o m \in Seq(Token)
  BY <1>2, Concat
<1>6. (p \o m) \o q = l \o w
  <2>1. (l \o r) \o m = l \o (r \o m)
    BY <1>2, Associates
  <2> DEFINE c == r \o m
  <2>2. c \in Seq(Token)
    BY <1>5
  <2>3. p \o m = l \o c
    BY <2>1, <1>2
  <2> HIDE DEF c, w
  <2>4. l \in Seq(Token)
    BY <1>2
  <2>5. (l \o c) \o q = l \o (c \o q)
    BY <2>2, <2>4, Associates
  <2> QED
    BY <2>3, <2>5 DEF c, w
<1> HIDE DEF w
<1>7. Framed(w) /\ Below(l, w) /\ (Even(l \o w) => Even(w))
  BY <1>2, <1>3, <1>5, <1>6, BehindLine
<1>8. Frames(l \o w) = Frames(l) \cup Frames(w)
  BY <1>2, <1>5, FramesConcat
<1>9. Frames(l) = {l[1].frame}
  BY <1>2
<1> QED
  BY <1>2, <1>4, <1>6, <1>7, <1>8, <1>9 DEF l, r, w

-----------------------------------------------------------------------------
(* What the socket calls do to a connection.                               *)

LEMMA OnTake ==
    ASSUME conn \in [Slot -> Conn], NEW s \in Slot, NEW e \in End,
           NEW n \in 1..Len(conn[s].sent[e]), Take(s, e, n)
    PROVE  /\ conn' \in [Slot -> Conn]
           /\ \A t \in Slot : /\ conn'[t].ground = conn[t].ground /\ conn'[t].agent = conn[t].agent
                              /\ conn'[t].cut = conn[t].cut
                              /\ t # s => conn'[t] = conn[t]
           /\ conn'[s].sent[Other(e)] = conn[s].sent[Other(e)]
           /\ conn'[s].sent[e] = SubSeq(conn[s].sent[e], n + 1, Len(conn[s].sent[e]))
<1> DEFINE w == conn[s].sent[e]
<1>1. w \in Seq(Token) /\ conn[s] \in Conn
  BY DEF Conn
<1>2. SubSeq(w, n + 1, Len(w)) \in Seq(Token)
  BY <1>1
<1>3. conn' = [conn EXCEPT ![s] = [conn[s] EXCEPT !.sent = [conn[s].sent EXCEPT ![e] = SubSeq(w, n + 1, Len(w))]]]
  BY <1>1 DEF Take, Conn
<1> QED
  BY <1>1, <1>2, <1>3 DEF Conn, End, Other

LEMMA OnPut ==
    ASSUME conn \in [Slot -> Conn], NEW s \in Slot, NEW e \in End,
           NEW tokens \in Seq(Token), Put(s, e, tokens)
    PROVE  /\ conn' \in [Slot -> Conn]
           /\ \A t \in Slot : /\ conn'[t].ground = conn[t].ground /\ conn'[t].agent = conn[t].agent
                              /\ conn'[t].cut = conn[t].cut
                              /\ t # s => conn'[t] = conn[t]
           /\ conn'[s].sent[e] = conn[s].sent[e]
           /\ conn'[s].sent[Other(e)] = IF conn[s].cut \/ conn[s][Other(e)] = "closed"
                                        THEN conn[s].sent[Other(e)]
                                        ELSE conn[s].sent[Other(e)] \o tokens
<1> DEFINE w == conn[s].sent[Other(e)]
<1>1. CASE conn[s].cut \/ conn[s][Other(e)] = "closed"
  BY <1>1 DEF Put
<1>2. CASE ~(conn[s].cut \/ conn[s][Other(e)] = "closed")
  <2>1. w \in Seq(Token) /\ conn[s] \in Conn /\ Other(e) \in End /\ Other(e) # e
    BY DEF Conn, Other, End
  <2>2. w \o tokens \in Seq(Token)
    BY <2>1
  <2>3. conn' = [conn EXCEPT ![s] = [conn[s] EXCEPT !.sent = [conn[s].sent EXCEPT ![Other(e)] = w \o tokens]]]
    BY <1>2, <2>1 DEF Put, Conn
  <2> HIDE DEF w
  <2> QED
    BY <1>2, <2>1, <2>2, <2>3 DEF Conn, w
<1> QED
  BY <1>1, <1>2

LEMMA BothEnds ==
    ASSUME NEW a \in Seq(Token), NEW b \in Seq(Token)
    PROVE  [ground |-> a, agent |-> b] \in [End -> Seq(Token)]
  BY DEF End

LEMMA OnCut ==
    ASSUME conn \in [Slot -> Conn], NEW s \in Slot, Cut(s)
    PROVE  /\ conn' \in [Slot -> Conn]
           /\ \A t \in Slot : /\ conn'[t].ground = conn[t].ground /\ conn'[t].agent = conn[t].agent
                              /\ t # s => conn'[t] = conn[t]
           /\ conn'[s].cut
           /\ \A e \in End : \E n \in 0..Len(conn[s].sent[e]) :
                 conn'[s].sent[e] = SubSeq(conn[s].sent[e], 1, n)
           /\ UNCHANGED <<listening, backlog>>
<1> PICK i \in 0..Len(conn[s].sent.ground), j \in 0..Len(conn[s].sent.agent) :
       conn' = [conn EXCEPT ![s].cut = TRUE,
                            ![s].sent = [ground |-> SubSeq(@.ground, 1, i),
                                         agent  |-> SubSeq(@.agent, 1, j)]]
  BY DEF Cut
<1> DEFINE a == conn[s].sent.ground
           b == conn[s].sent.agent
           w == [ground |-> SubSeq(a, 1, i), agent |-> SubSeq(b, 1, j)]
<1>1. a \in Seq(Token) /\ b \in Seq(Token) /\ conn[s] \in Conn
  BY DEF Conn, End
<1>2. SubSeq(a, 1, i) \in Seq(Token) /\ SubSeq(b, 1, j) \in Seq(Token)
  BY <1>1
<1>3. w \in [End -> Seq(Token)]
  BY <1>2, BothEnds
<1>4. conn' = [conn EXCEPT ![s] = [conn[s] EXCEPT !.cut = TRUE, !.sent = w]]
  BY <1>1 DEF Conn
<1>5. w["ground"] = SubSeq(a, 1, i) /\ w["agent"] = SubSeq(b, 1, j)
  OBVIOUS
<1> HIDE DEF w
<1> DEFINE d == [conn[s] EXCEPT !.cut = TRUE, !.sent = w]
<1>6. /\ d \in Conn /\ d.cut /\ d.sent = w
      /\ d.ground = conn[s].ground /\ d.agent = conn[s].agent
  BY <1>1, <1>3 DEF Conn
<1> HIDE DEF d
<1>7. conn' = [conn EXCEPT ![s] = d]
  BY <1>4 DEF d
<1>8. \A e \in End : \E n \in 0..Len(conn[s].sent[e]) : w[e] = SubSeq(conn[s].sent[e], 1, n)
  BY <1>5 DEF End
<1>9. UNCHANGED <<listening, backlog>>
  BY DEF Cut
<1>10. conn' \in [Slot -> Conn] /\ conn'[s] = d /\ \A t \in Slot : t # s => conn'[t] = conn[t]
  BY <1>6, <1>7
<1> QED
  BY <1>6, <1>8, <1>9, <1>10

LEMMA OnNotice ==
    ASSUME conn \in [Slot -> Conn], NEW s \in Slot, NEW e \in End, Notice(s, e)
    PROVE  /\ conn' \in [Slot -> Conn]
           /\ \A t \in Slot : /\ conn'[t].ground = conn[t].ground /\ conn'[t].agent = conn[t].agent
                              /\ conn'[t].cut = conn[t].cut /\ conn'[t].sent = conn[t].sent
           /\ UNCHANGED <<listening, backlog>>
<1>1. conn[s] \in Conn /\ conn[s].err \cup {e} \in SUBSET End
  BY DEF Conn
<1>2. conn' = [conn EXCEPT ![s] = [conn[s] EXCEPT !.err = @ \cup {e}]]
  BY <1>1 DEF Notice, Conn
<1> DEFINE d == [conn[s] EXCEPT !.err = @ \cup {e}]
<1>3. /\ d \in Conn /\ d.ground = conn[s].ground /\ d.agent = conn[s].agent
      /\ d.cut = conn[s].cut /\ d.sent = conn[s].sent
  BY <1>1 DEF Conn
<1> HIDE DEF d
<1>4. conn' = [conn EXCEPT ![s] = d] /\ UNCHANGED <<listening, backlog>>
  BY <1>2 DEF d, Notice
<1> QED
  BY <1>3, <1>4

LEMMA NoConnConn == NoConn \in Conn /\ NoConn.sent["ground"] = <<>> /\ NoConn.sent["agent"] = <<>>
                      /\ NoConn.ground = "none" /\ NoConn.agent = "none" /\ NoConn.cut = FALSE
  BY DEF NoConn, Conn, End

LEMMA OnShut ==
    ASSUME conn \in [Slot -> Conn], NEW s \in Slot, NEW e \in End,
           conn' = [conn EXCEPT ![s] = Shut(@, e)]
    PROVE  /\ conn' \in [Slot -> Conn]
           /\ \A t \in Slot : t # s => conn'[t] = conn[t]
           /\ \/ conn[s][Other(e)] = "closed" /\ conn'[s] = NoConn
              \/ /\ conn'[s][e] = "closed" /\ conn'[s][Other(e)] = conn[s][Other(e)]
                 /\ conn'[s].cut = conn[s].cut
                 /\ conn'[s].sent[Other(e)] = conn[s].sent[Other(e)] /\ conn'[s].sent[e] = <<>>
<1> DEFINE c == conn[s]
           d == [c EXCEPT ![e] = "closed", !.sent[e] = <<>>]
<1>1. c \in Conn /\ Other(e) \in End /\ Other(e) # e
  BY DEF Conn, Other, End
<1>2. CASE c[Other(e)] = "closed"
  <2>1. conn' = [conn EXCEPT ![s] = NoConn]
    BY <1>2 DEF Shut
  <2> QED
    BY <1>2, <2>1, NoConnConn
<1>3. CASE c[Other(e)] # "closed"
  <2>1. conn' = [conn EXCEPT ![s] = d]
    BY <1>3 DEF Shut
  <2>2. [c.sent EXCEPT ![e] = <<>>] \in [End -> Seq(Token)]
    BY <1>1 DEF Conn
  <2>3. /\ d \in Conn /\ d[e] = "closed" /\ d[Other(e)] = c[Other(e)] /\ d.cut = c.cut
        /\ d.sent = [c.sent EXCEPT ![e] = <<>>]
    BY <1>1, <2>2 DEF Conn, End, Other
  <2> HIDE DEF d
  <2>4. d.sent[Other(e)] = c.sent[Other(e)] /\ d.sent[e] = <<>>
    BY <2>3, <1>1 DEF Conn
  <2> QED
    BY <2>1, <2>3, <2>4
<1> QED
  BY <1>2, <1>3

LEMMA OnOpen ==
    ASSUME conn \in [Slot -> Conn], backlog \in Seq(Slot), NEW s \in Slot, Open(s)
    PROVE  /\ conn' \in [Slot -> Conn]
           /\ \A t \in Slot : t # s => conn'[t] = conn[t]
           /\ conn[s] = NoConn
           /\ conn'[s].ground = "open" /\ conn'[s].agent = "queued" /\ conn'[s].cut = FALSE
           /\ conn'[s].sent["ground"] = <<>> /\ conn'[s].sent["agent"] = <<>>
           /\ backlog' = Append(backlog, s)
<1>1. conn' = [conn EXCEPT ![s].ground = "open", ![s].agent = "queued"] /\ conn[s] = NoConn
         /\ backlog' = Append(backlog, s)
  BY DEF Open
<1>2. conn' = [conn EXCEPT ![s] = [NoConn EXCEPT !.ground = "open", !.agent = "queued"]]
  BY <1>1
<1> DEFINE c == [NoConn EXCEPT !.ground = "open", !.agent = "queued"]
<1>3. c \in Conn /\ c.ground = "open" /\ c.agent = "queued" /\ c.cut = FALSE
         /\ c.sent["ground"] = <<>> /\ c.sent["agent"] = <<>>
  BY NoConnConn DEF Conn
<1> HIDE DEF c
<1> QED
  BY <1>1, <1>2, <1>3 DEF c

LEMMA OnAccepted ==
    ASSUME conn \in [Slot -> Conn], NEW s \in Slot, conn' = [conn EXCEPT ![s].agent = "open"]
    PROVE  /\ conn' \in [Slot -> Conn]
           /\ \A t \in Slot : t # s => conn'[t] = conn[t]
           /\ conn'[s].agent = "open" /\ conn'[s].ground = conn[s].ground
           /\ conn'[s].cut = conn[s].cut /\ conn'[s].sent = conn[s].sent
<1>1. conn[s] \in Conn
  OBVIOUS
<1>2. conn' = [conn EXCEPT ![s] = [conn[s] EXCEPT !.agent = "open"]]
  BY <1>1 DEF Conn
<1> DEFINE d == [conn[s] EXCEPT !.agent = "open"]
<1>3. /\ d \in Conn /\ d.ground = conn[s].ground /\ d.agent = "open"
      /\ d.cut = conn[s].cut /\ d.sent = conn[s].sent
  BY <1>1 DEF Conn
<1> HIDE DEF d
<1>4. conn' = [conn EXCEPT ![s] = d]
  BY <1>2 DEF d
<1> QED
  BY <1>3, <1>4

-----------------------------------------------------------------------------
(* Steps that add nothing to a stream.                                     *)

LEMMA DownKept ==
    ASSUME DownInv, UNCHANGED <<co_pending, issued, dispatched, line>>,
           \A s \in Slot : /\ Framed(Down(s)') /\ Frames(Down(s)') \subseteq Frames(Down(s))
                           /\ LiveDown(s)' => Even(Down(s)'),
           \A s, t \in Slot : Before(s, t)' => Before(s, t)
    PROVE  DownInv'
<1>1. Streams'
  <2>1. \A s \in Slot : Framed(Down(s)') /\ (LiveDown(s)' => Even(Down(s)'))
    OBVIOUS
  <2>2. \A s, t \in Slot : Before(s, t)' => Below(Down(s)', Down(t)')
    BY DEF DownInv, Streams, Below
  <2>3. \A s \in Slot : Below(Down(s)', co_pending') /\ \A f \in Frames(Down(s)') : f <= issued'
    BY DEF DownInv, Streams, Below
  <2> QED
    BY <2>1, <2>2, <2>3 DEF Streams
<1>2. Pending'
  BY DEF DownInv, Pending
<1>3. Delivered'
  <2>1. Handled' = Handled
    BY DEF Handled
  <2>2. \A f \in Handled' : /\ f <= issued' /\ \A g \in Frames(co_pending') : f < g
                            /\ \A s \in Slot : \A g \in Frames(Down(s)') : f < g
    BY <2>1 DEF DownInv, Delivered
  <2> QED
    BY <2>2 DEF DownInv, Delivered
<1> QED
  BY <1>1, <1>2, <1>3 DEF DownInv

LEMMA UpKept ==
    ASSUME UpInv, UNCHANGED <<reported, last_state, beats>>,
           Framed(Up'), LiveUp' => Even(Up'), Frames(Up') \subseteq Frames(Up)
    PROVE  UpInv'
  BY DEF UpInv

LEMMA InUse ==
    ASSUME Types
    PROVE  /\ tether_fd # 0 => tether_fd \in Slot
           /\ serving # 0 => serving \in Slot
           /\ 0 \notin Slot
  BY WireConstants DEF Types, Slot

\* What a stream is made of.
LEMMA DownParts ==
    ASSUME Types, NEW s \in Slot
    PROVE  /\ conn[s].sent["agent"] \in Seq(Token) /\ conn[s].sent["ground"] \in Seq(Token)
           /\ (IF s = serving THEN rx_pending ELSE <<>>) \in Seq(Token)
           /\ (IF LiveDown(s) THEN out ELSE <<>>) \in Seq(Token)
           /\ Down(s) \in Seq(Token)
<1>1. conn[s] \in Conn /\ conn[s].sent["agent"] \in Seq(Token) /\ conn[s].sent["ground"] \in Seq(Token)
  BY DEF Types, Conn, End
<1>2. <<>> \in Seq(Token)
  OBVIOUS
<1> DEFINE p == IF s = serving THEN rx_pending ELSE <<>>
           q == IF LiveDown(s) THEN out ELSE <<>>
           m == conn[s].sent["agent"]
<1>3. p \in Seq(Token) /\ q \in Seq(Token)
  BY <1>2 DEF Types
<1> HIDE DEF p, q, m
<1>4. (p \o m) \o q \in Seq(Token)
  <2>1. m \in Seq(Token)
    BY <1>1 DEF m
  <2>2. p \o m \in Seq(Token)
    BY <1>3, <2>1, Concat
  <2> QED
    BY <1>3, <2>2, Concat
<1> QED
  BY <1>1, <1>2, <1>3, <1>4 DEF Down, p, q, m

LEMMA UpParts ==
    ASSUME Types
    PROVE  /\ tether_fd # 0 => conn[tether_fd].sent["ground"] \in Seq(Token)
           /\ (IF LiveUp THEN tx_pending ELSE <<>>) \in Seq(Token)
           /\ Up \in Seq(Token)
<1>1. tether_fd # 0 => conn[tether_fd].sent["ground"] \in Seq(Token)
  <2> SUFFICES ASSUME tether_fd # 0 PROVE conn[tether_fd].sent["ground"] \in Seq(Token)
    OBVIOUS
  <2>1. conn[tether_fd] \in Conn
    BY InUse DEF Types
  <2> QED
    BY <2>1 DEF Conn, End
<1>2. <<>> \in Seq(Token)
  OBVIOUS
<1> DEFINE q == IF LiveUp THEN tx_pending ELSE <<>>
           m == conn[tether_fd].sent["ground"]
<1>3. q \in Seq(Token) /\ co_rx \in Seq(Token)
  BY <1>2 DEF Types
<1> HIDE DEF q, m
<1>4. tether_fd # 0 => (co_rx \o m) \o q \in Seq(Token)
  <2> SUFFICES ASSUME tether_fd # 0 PROVE (co_rx \o m) \o q \in Seq(Token)
    OBVIOUS
  <2>1. m \in Seq(Token)
    BY <1>1 DEF m
  <2>2. co_rx \o m \in Seq(Token)
    BY <1>3, <2>1, Concat
  <2> QED
    BY <1>3, <2>2, Concat
<1> QED
  BY <1>1, <1>3, <1>4 DEF Up, q, m

\* Steps that move no token.
LEMMA NothingMoves ==
    ASSUME LinkInv,
           UNCHANGED <<conn, backlog, serving, rx_pending, tx_pending, line, beats, tether_fd,
                       co_pending, out, co_rx, last_state, issued, dispatched, reported>>
    PROVE  DownInv' /\ UpInv'
<1>1. \A s \in Slot : Down(s)' = Down(s) /\ LiveDown(s)' = LiveDown(s)
  BY DEF Down, LiveDown
<1>2. \A s, t \in Slot : Before(s, t)' => Before(s, t)
  BY DEF Before, Queued
<1>3. DownInv'
  BY <1>1, <1>2, DownKept DEF LinkInv, DownInv, Streams
<1>4. Up' = Up /\ LiveUp' = LiveUp
  BY DEF Up, LiveUp
<1> QED
  BY <1>3, <1>4, UpKept DEF LinkInv, UpInv

-----------------------------------------------------------------------------
(* Steps of the agent.                                                     *)

Dispatch == dispatched' = IF callback' # <<>> /\ callback'[1] = "command"
                          THEN Append(dispatched, callback'[2]) ELSE dispatched
GroundIdle == UNCHANGED <<coordinatorVars, issued, reported, cuts>>

LEMMA NoDispatch ==
    ASSUME Dispatch, NoCallback \/ FireLoss \/ FireRecover
    PROVE  dispatched' = dispatched
<1>1. callback' \in {<<>>, <<"loss">>, <<"recover">>}
  BY DEF NoCallback, FireLoss, FireRecover
<1>2. callback' = <<>> \/ callback'[1] # "command"
  BY <1>1
<1> QED
  BY <1>2 DEF Dispatch

LEMMA IdleAgent ==
    ASSUME LinkInv, GroundIdle, Dispatch,
           StartAgent \/ AcceptEnds \/ Pass \/ ReceiveNothing \/ AgentTick
    PROVE  LinkInv'
<1>1. dispatched' = dispatched
  BY NoDispatch DEF StartAgent, AcceptEnds, Pass, ReceiveNothing, AgentTick
<1>2. UNCHANGED <<conn, backlog, serving, rx_pending, tx_pending, line, beats>>
  BY DEF StartAgent, AcceptEnds, Pass, ReceiveNothing, AgentTick, wireVars
<1>3. UNCHANGED <<co_running, cpc, tether_fd, co_pending, out, co_rx, last_state, telemetry, issued, reported>>
  BY DEF GroundIdle, coordinatorVars
<1>4. /\ apc' \in {"off", "accept", "top", "recv", "parse", "send", "close", "done"}
      /\ serving # 0 <=> apc' \in {"top", "recv", "parse", "send", "close"}
      /\ line = <<>>
  BY DEF StartAgent, AcceptEnds, Pass, ReceiveNothing, AgentTick, LinkInv, Types, Shape
<1>5. Types'
  BY <1>1, <1>2, <1>3, <1>4 DEF LinkInv, Types
<1>6. Shape'
  BY <1>2, <1>3, <1>4 DEF LinkInv, Shape, Queued
<1>7. DownInv' /\ UpInv'
  BY <1>1, <1>2, <1>3, NothingMoves
<1> QED
  BY <1>5, <1>6, <1>7 DEF LinkInv

LEMMA ReceiveLineStep ==
    ASSUME LinkInv, GroundIdle, Dispatch, ReceiveLine
    PROVE  LinkInv'
<1>1. dispatched' = dispatched
  BY NoDispatch DEF ReceiveLine
<1>2. UNCHANGED <<conn, backlog, serving, tx_pending, beats>> /\ apc' = "parse" /\ apc = "recv"
      /\ HasLine(rx_pending) /\ line' = Line(rx_pending) /\ rx_pending' = Rest(rx_pending)
  BY DEF ReceiveLine, wireVars
<1>3. UNCHANGED <<co_running, cpc, tether_fd, co_pending, out, co_rx, last_state, telemetry, issued, reported>>
  BY DEF GroundIdle, coordinatorVars
<1>4. Types /\ Shape /\ DownInv /\ UpInv
  BY DEF LinkInv
<1>0. serving \in Slot /\ conn[serving].agent = "open" /\ line = <<>> /\ serving # 0
  BY <1>2, <1>4, InUse DEF Shape
<1>5. PICK z \in Slot : z = serving /\ conn[z].agent = "open" /\ line = <<>> /\ z # 0
  BY <1>0
<1> DEFINE m == conn[z].sent["agent"]
           q == IF LiveDown(z) THEN out ELSE <<>>
<1>6. m \in Seq(Token) /\ q \in Seq(Token) /\ rx_pending \in Seq(Token)
  BY <1>4, <1>5, DownParts DEF Types
<1>7. Down(z) = (rx_pending \o m) \o q
  BY <1>5 DEF Down
<1>8. Down(z)' = (rx_pending' \o m) \o q
  BY <1>2, <1>3, <1>5 DEF Down, LiveDown
<1> HIDE DEF m, q
<1>9. Framed(Down(z))
  BY <1>4, <1>5 DEF DownInv, Streams
<1>10. /\ line' \in Seq(Token) /\ rx_pending' \in Seq(Token) /\ Whole(line')
       /\ Framed(Down(z)') /\ (Even(Down(z)) => Even(Down(z)'))
       /\ Frames(Down(z)') \subseteq Frames(Down(z))
       /\ Frames(line') \subseteq Frames(Down(z)) /\ Below(line', Down(z)')
  BY <1>2, <1>6, <1>7, <1>8, <1>9, LineTaken
<1>11. \A s \in Slot : LiveDown(s)' = LiveDown(s) /\ (s # z => Down(s)' = Down(s))
  BY <1>2, <1>3, <1>5 DEF Down, LiveDown
<1>12. \A s \in Slot : /\ Framed(Down(s)') /\ Frames(Down(s)') \subseteq Frames(Down(s))
                       /\ LiveDown(s)' => Even(Down(s)')
  BY <1>4, <1>10, <1>11 DEF DownInv, Streams
<1>13. Types'
  BY <1>1, <1>2, <1>3, <1>4, <1>10 DEF Types
<1>14. Shape'
  BY <1>2, <1>3, <1>4 DEF Shape, Queued
<1>15. DownInv'
  <2>1. Streams'
    <3>1. \A s, t \in Slot : Before(s, t)' = Before(s, t)
      BY <1>2 DEF Before, Queued
    <3>2. \A s, t \in Slot : Before(s, t)' => Below(Down(s)', Down(t)')
      BY <1>4, <1>12, <3>1 DEF DownInv, Streams, Below
    <3>3. \A s \in Slot : Below(Down(s)', co_pending') /\ \A f \in Frames(Down(s)') : f <= issued'
      BY <1>3, <1>4, <1>12 DEF DownInv, Streams, Below
    <3> QED
      BY <1>12, <3>2, <3>3 DEF Streams
  <2>2. Pending'
    BY <1>3, <1>4 DEF DownInv, Pending
  <2>3. Delivered'
    <3>1. \A f \in Frames(line'), i \in 1..Len(dispatched) : dispatched[i] < f
      BY <1>4, <1>5, <1>10 DEF DownInv, Delivered, Handled
    <3>2. \A f \in Frames(line') : \A s \in Slot : \A g \in Frames(Down(s)') : f < g
      <4> SUFFICES ASSUME NEW f \in Frames(line'), NEW s \in Slot, NEW g \in Frames(Down(s)')
                   PROVE  f < g
        OBVIOUS
      <4>1. CASE s = z
        BY <4>1, <1>10 DEF Below
      <4>2. CASE s # z /\ conn[s].agent \in {"queued", "open"}
        <5>1. Before(z, s)
          BY <4>2, <1>4, <1>5 DEF Before, Shape
        <5> QED
          BY <5>1, <4>2, <1>4, <1>5, <1>10, <1>11 DEF DownInv, Streams, Below
      <4>3. CASE conn[s].agent \notin {"queued", "open"}
        BY <4>3, <1>2, EmptyFramed DEF Down
      <4> QED
        BY <4>1, <4>2, <4>3
    <3>3. \A f \in Frames(line') : f <= issued' /\ \A g \in Frames(co_pending') : f < g
      BY <1>3, <1>4, <1>5, <1>10 DEF DownInv, Streams, Below
    <3>4. \A f \in {dispatched[i] : i \in 1..Len(dispatched)} :
             /\ f <= issued' /\ \A g \in Frames(co_pending') : f < g
             /\ \A s \in Slot : \A g \in Frames(Down(s)') : f < g
      BY <1>3, <1>4, <1>12 DEF DownInv, Delivered, Handled
    <3>5. \A f \in Handled' : /\ f <= issued' /\ \A g \in Frames(co_pending') : f < g
                              /\ \A s \in Slot : \A g \in Frames(Down(s)') : f < g
      BY <1>1, <3>2, <3>3, <3>4 DEF Handled
    <3>6. Whole(line)' /\ Increasing(dispatched)'
      BY <1>1, <1>4, <1>10 DEF DownInv, Delivered
    <3> QED
      BY <1>1, <3>1, <3>5, <3>6 DEF Delivered
  <2> QED
    BY <2>1, <2>2, <2>3 DEF DownInv
<1>16. UpInv'
  <2>1. Up' = Up /\ LiveUp' = LiveUp
    BY <1>2, <1>3 DEF Up, LiveUp
  <2> QED
    BY <2>1, <1>2, <1>3, <1>4, UpKept DEF UpInv
<1> QED
  BY <1>13, <1>14, <1>15, <1>16 DEF LinkInv

LEMMA ParseLineStep ==
    ASSUME LinkInv, GroundIdle, Dispatch, ParseLine
    PROVE  LinkInv'
<1>1. UNCHANGED <<conn, backlog, serving, rx_pending, tx_pending, beats>>
      /\ apc = "parse" /\ apc' = "recv" /\ line' = <<>>
  BY DEF ParseLine, wireVars
<1>2. UNCHANGED <<co_running, cpc, tether_fd, co_pending, out, co_rx, last_state, telemetry, issued, reported>>
  BY DEF GroundIdle, coordinatorVars
<1>3. Types /\ Shape /\ DownInv /\ UpInv
  BY DEF LinkInv
<1>4. \/ dispatched' = dispatched
      \/ \E f \in Frames(line) : dispatched' = Append(dispatched, f)
  <2>1. CASE Whole(line) /\ line[1].frame \in Commands
    <3>1. line[1].frame \in Frames(line)
      BY <2>1 DEF Whole, Frames
    <3>2. callback' = <<"command", line[1].frame>>
      BY <2>1 DEF ParseLine
    <3> QED
      BY <3>1, <3>2 DEF Dispatch
  <2>2. CASE ~(Whole(line) /\ line[1].frame \in Commands)
    BY <2>2 DEF ParseLine, Dispatch
  <2> QED
    BY <2>1, <2>2
<1>5. Frames(line) \subseteq Nat /\ Frames(line') = {}
  BY <1>1, <1>3, FramesNat, EmptyFramed DEF Types
<1>6. dispatched' \in Seq(Nat)
  <2>1. dispatched \in Seq(Nat)
    BY <1>3 DEF Types
  <2>2. \A f \in Frames(line) : Append(dispatched, f) \in Seq(Nat)
    BY <2>1, <1>5, AppendProperties
  <2> QED
    BY <2>1, <2>2, <1>4
<1>7. Types'
  BY <1>1, <1>2, <1>3, <1>6 DEF Types
<1>8. Shape'
  BY <1>1, <1>2, <1>3 DEF Shape, Queued
<1>9. \A s \in Slot : Down(s)' = Down(s) /\ LiveDown(s)' = LiveDown(s)
  BY <1>1, <1>2 DEF Down, LiveDown
<1>10. Streams'
  <2>1. \A s, t \in Slot : Before(s, t)' = Before(s, t)
    BY <1>1 DEF Before, Queued
  <2> QED
    BY <1>2, <1>3, <1>9, <2>1 DEF DownInv, Streams
<1>11. Pending'
  BY <1>2, <1>3 DEF DownInv, Pending
<1>12. Handled' \subseteq Handled /\ Increasing(dispatched)'
  <2>1. CASE dispatched' = dispatched
    BY <2>1, <1>3, <1>5 DEF Handled, DownInv, Delivered
  <2>2. CASE dispatched' # dispatched
    <3>1. PICK f \in Frames(line) : dispatched' = Append(dispatched, f)
      BY <2>2, <1>4
    <3>2. /\ dispatched \in Seq(Nat) /\ f \in Nat /\ Len(dispatched) \in Nat
          /\ Len(dispatched') = Len(dispatched) + 1 /\ DOMAIN dispatched' = 1..Len(dispatched')
          /\ \A i \in 1..Len(dispatched) : dispatched'[i] = dispatched[i]
          /\ dispatched'[Len(dispatched) + 1] = f
      BY <3>1, <1>3, <1>5, <1>6, AppendProperties DEF Types
    <3>3. \A i \in 1..Len(dispatched') : i \in 1..Len(dispatched) \/ i = Len(dispatched) + 1
      BY <3>2
    <3>4. Handled' \subseteq Handled
      BY <3>2, <3>3, <1>5 DEF Handled
    <3>5. \A i, j \in DOMAIN dispatched' : i < j => dispatched'[i] < dispatched'[j]
      <4> SUFFICES ASSUME NEW i \in 1..Len(dispatched'), NEW j \in 1..Len(dispatched'), i < j
                   PROVE  dispatched'[i] < dispatched'[j]
        BY <3>2
      <4>1. i \in 1..Len(dispatched)
        BY <3>2
      <4>2. CASE j \in 1..Len(dispatched)
        BY <4>1, <4>2, <3>2, <1>3 DEF DownInv, Delivered, Increasing
      <4>3. CASE j = Len(dispatched) + 1
        BY <4>1, <4>3, <3>2, <1>3 DEF DownInv, Delivered
      <4> QED
        BY <4>2, <4>3, <3>3
    <3> QED
      BY <3>4, <3>5 DEF Increasing
  <2> QED
    BY <2>1, <2>2
<1>13. Delivered'
  <2>1. \A f \in Handled' : /\ f <= issued' /\ \A g \in Frames(co_pending') : f < g
                            /\ \A s \in Slot : \A g \in Frames(Down(s)') : f < g
    BY <1>2, <1>3, <1>9, <1>12 DEF DownInv, Delivered
  <2> QED
    BY <2>1, <1>1, <1>5, <1>12 DEF Delivered
<1>14. UpInv'
  <2>1. Up' = Up /\ LiveUp' = LiveUp
    BY <1>1, <1>2 DEF Up, LiveUp
  <2> QED
    BY <2>1, <1>1, <1>2, <1>3, UpKept DEF UpInv
<1> QED
  BY <1>7, <1>8, <1>10, <1>11, <1>13, <1>14 DEF LinkInv, DownInv

LEMMA ReceiveBytesStep ==
    ASSUME LinkInv, GroundIdle, Dispatch, ReceiveBytes
    PROVE  LinkInv'
<1>1. dispatched' = dispatched
  BY NoDispatch DEF ReceiveBytes
<1>2. UNCHANGED <<backlog, serving, tx_pending, beats, line, apc>> /\ apc = "recv"
  BY DEF ReceiveBytes
<1>3. UNCHANGED <<co_running, cpc, tether_fd, co_pending, out, co_rx, last_state, telemetry, issued, reported>>
  BY DEF GroundIdle, coordinatorVars
<1>4. Types /\ Shape /\ DownInv /\ UpInv
  BY DEF LinkInv
<1>5. PICK z \in Slot : z = serving /\ conn[z].agent = "open"
  BY <1>2, <1>4, InUse DEF Shape
<1> DEFINE m == conn[z].sent["agent"]
           q == IF LiveDown(z) THEN out ELSE <<>>
<1>6. m \in Seq(Token) /\ q \in Seq(Token) /\ rx_pending \in Seq(Token)
  BY <1>4, <1>5, DownParts DEF Types
<1>7. PICK n \in 1..Len(m) : Take(z, "agent", n) /\ rx_pending' = rx_pending \o SubSeq(m, 1, n)
  BY <1>5 DEF ReceiveBytes, Waiting
<1>8. /\ conn' \in [Slot -> Conn]
      /\ \A t \in Slot : /\ conn'[t].ground = conn[t].ground /\ conn'[t].agent = conn[t].agent
                         /\ conn'[t].cut = conn[t].cut
                         /\ t # z => conn'[t] = conn[t]
      /\ conn'[z].sent["ground"] = conn[z].sent["ground"]
      /\ conn'[z].sent["agent"] = SubSeq(m, n + 1, Len(m))
  BY <1>4, <1>7, OnTake DEF Types, End, Other
<1>9. Down(z) = (rx_pending \o m) \o q
  BY <1>5 DEF Down
<1>10. Down(z)' = (rx_pending' \o conn'[z].sent["agent"]) \o q
  BY <1>2, <1>3, <1>5, <1>8 DEF Down, LiveDown
<1> HIDE DEF m, q
<1>11. rx_pending' \in Seq(Token) /\ rx_pending' \o conn'[z].sent["agent"] = rx_pending \o m
  <2>1. n \in 0..Len(m)
    BY <1>6
  <2>2. /\ rx_pending \o SubSeq(m, 1, n) \in Seq(Token)
        /\ (rx_pending \o SubSeq(m, 1, n)) \o SubSeq(m, n + 1, Len(m)) = rx_pending \o m
    BY <2>1, <1>6, Received
  <2> QED
    BY <2>2, <1>7, <1>8
<1>12. \A s \in Slot : LiveDown(s)' = LiveDown(s) /\ Down(s)' = Down(s)
  <2> SUFFICES ASSUME NEW s \in Slot PROVE LiveDown(s)' = LiveDown(s) /\ Down(s)' = Down(s)
    OBVIOUS
  <2>1. CASE s = z
    BY <2>1, <1>3, <1>8, <1>9, <1>10, <1>11 DEF LiveDown
  <2>2. CASE s # z
    BY <2>2, <1>2, <1>3, <1>5, <1>8 DEF LiveDown, Down
  <2> QED
    BY <2>1, <2>2
<1>13. Types'
  BY <1>1, <1>2, <1>3, <1>4, <1>8, <1>11 DEF Types
<1>14. \A s \in Slot : conn'[s].sent["ground"] = conn[s].sent["ground"]
  BY <1>8
<1>15. Shape'
  BY <1>2, <1>3, <1>4, <1>8, <1>14 DEF Shape, Queued
<1>16. DownInv'
  <2>1. \A s, t \in Slot : Before(s, t)' => Before(s, t)
    BY <1>2 DEF Before, Queued
  <2>2. \A s \in Slot : /\ Framed(Down(s)') /\ Frames(Down(s)') \subseteq Frames(Down(s))
                        /\ LiveDown(s)' => Even(Down(s)')
    BY <1>4, <1>12 DEF DownInv, Streams
  <2> QED
    BY <2>1, <2>2, <1>1, <1>2, <1>3, <1>4, DownKept
<1>17. UpInv'
  <2>1. Up' = Up /\ LiveUp' = LiveUp
    BY <1>2, <1>3, <1>4, <1>8, <1>14, InUse DEF Up, LiveUp
  <2> QED
    BY <2>1, <1>2, <1>3, <1>4, UpKept DEF UpInv
<1> QED
  BY <1>13, <1>15, <1>16, <1>17 DEF LinkInv

LEMMA AcceptStep ==
    ASSUME LinkInv, GroundIdle, Dispatch, Accept
    PROVE  LinkInv'
<1>1. dispatched' = dispatched
  BY NoDispatch DEF Accept
<1>2. /\ UNCHANGED <<beats, line>> /\ apc = "accept" /\ apc' = "top"
      /\ rx_pending' = <<>> /\ tx_pending' = <<>>
      /\ backlog # <<>> /\ backlog' = Tail(backlog)
  BY DEF Accept
<1>3. UNCHANGED <<co_running, cpc, tether_fd, co_pending, out, co_rx, last_state, telemetry, issued, reported>>
  BY DEF GroundIdle, coordinatorVars
<1>4. Types /\ Shape /\ DownInv /\ UpInv
  BY DEF LinkInv
<1>5. serving = 0 /\ line = <<>>
  BY <1>2, <1>4 DEF Shape
<1>6. /\ backlog \in Seq(Slot) /\ Len(backlog) \in Nat \ {0} /\ Head(backlog) = backlog[1]
      /\ backlog' \in Seq(Slot) /\ Len(backlog') = Len(backlog) - 1
      /\ \A i \in 1..Len(backlog') : i + 1 \in 1..Len(backlog) /\ backlog'[i] = backlog[i + 1]
  <2>1. backlog \in Seq(Slot)
    BY <1>4 DEF Types
  <2> QED
    BY <2>1, <1>2, HeadTailProperties
<1>7. PICK z \in Slot : z = backlog[1] /\ serving' = z /\ conn' = [conn EXCEPT ![z].agent = "open"]
  <2>1. 1 \in 1..Len(backlog)
    BY <1>6
  <2>2. backlog[1] \in Slot
    BY <2>1, <1>6, ElementOfSeq
  <2>3. serving' = backlog[1] /\ conn' = [conn EXCEPT ![serving'].agent = "open"]
    BY <1>6 DEF Accept
  <2> QED
    BY <2>2, <2>3
<1>8. /\ conn' \in [Slot -> Conn] /\ \A t \in Slot : t # z => conn'[t] = conn[t]
      /\ conn'[z].agent = "open" /\ conn'[z].ground = conn[z].ground
      /\ conn'[z].cut = conn[z].cut /\ conn'[z].sent = conn[z].sent
  BY <1>4, <1>7, OnAccepted DEF Types
<1>9. conn[z].agent = "queued" /\ z # 0 /\ Queued(z)
  <2>1. 1 \in 1..Len(backlog)
    BY <1>6
  <2> QED
    BY <2>1, <1>4, <1>7, InUse DEF Shape, Queued
<1>10. \A i \in 1..Len(backlog') : backlog'[i] # z
  BY <1>4, <1>6, <1>7 DEF Shape
<1>11. \A s \in Slot : Queued(s)' <=> Queued(s) /\ s # z
  <2> SUFFICES ASSUME NEW s \in Slot PROVE Queued(s)' <=> Queued(s) /\ s # z
    OBVIOUS
  <2>1. ASSUME NEW i \in 1..Len(backlog), backlog[i] = s, s # z PROVE Queued(s)'
    <3>1. i # 1
      BY <2>1, <1>7
    <3>2. i - 1 \in 1..Len(backlog') /\ backlog'[i - 1] = backlog[i]
      BY <3>1, <1>6
    <3> QED
      BY <3>2, <2>1 DEF Queued
  <2>2. Queued(s)' => Queued(s) /\ s # z
    BY <1>6, <1>10 DEF Queued
  <2> QED
    BY <2>1, <2>2 DEF Queued
<1>12. z = tether_fd => backlog' = <<>> /\ co_rx = <<>> /\ conn[z].sent["ground"] = <<>>
  <2> SUFFICES ASSUME z = tether_fd PROVE backlog' = <<>> /\ co_rx = <<>> /\ conn[z].sent["ground"] = <<>>
    OBVIOUS
  <2>1. backlog[Len(backlog)] = z /\ co_rx = <<>> /\ conn[z].sent["ground"] = <<>>
    BY <1>4, <1>9 DEF Shape
  <2>2. Len(backlog) = 1
    BY <2>1, <1>4, <1>6, <1>7 DEF Shape
  <2> QED
    BY <2>1, <2>2, <1>6
<1>13. Types'
  BY <1>1, <1>2, <1>3, <1>4, <1>6, <1>7, <1>8 DEF Types, Slot
<1>14. Shape'
  <2>1. \A i, j \in 1..Len(backlog') : backlog'[i] = backlog'[j] => i = j
    <3> SUFFICES ASSUME NEW i \in 1..Len(backlog'), NEW j \in 1..Len(backlog'), backlog'[i] = backlog'[j]
                 PROVE  i = j
      OBVIOUS
    <3>1. i + 1 = j + 1
      BY <1>4, <1>6 DEF Shape
    <3> QED
      BY <3>1
  <2>2. \A s \in Slot : conn'[s].agent = "queued" <=> Queued(s)'
    BY <1>4, <1>8, <1>11 DEF Shape
  <2>3. \A s \in Slot : conn'[s].agent = "open" <=> s = serving'
    BY <1>4, <1>5, <1>7, <1>8, InUse DEF Shape
  <2>4. \A s \in Slot : /\ conn'[s].ground = "open" <=> s = tether_fd'
                        /\ conn'[s].ground = "open" => conn'[s].agent # "none"
                        /\ conn'[s].agent = "queued" => conn'[s].sent["ground"] = <<>>
    BY <1>3, <1>4, <1>8 DEF Shape
  <2>5. \A s \in Slot : (s = tether_fd' /\ conn'[s].agent = "queued")
                        => backlog'[Len(backlog')] = s /\ co_rx' = <<>>
    <3> SUFFICES ASSUME NEW s \in Slot, s = tether_fd', conn'[s].agent = "queued"
                 PROVE  backlog'[Len(backlog')] = s /\ co_rx' = <<>>
      OBVIOUS
    <3>1. s # z /\ conn[s].agent = "queued"
      BY <1>8
    <3>2. backlog[Len(backlog)] = s /\ co_rx = <<>>
      BY <3>1, <1>3, <1>4 DEF Shape
    <3>3. Len(backlog') \in 1..Len(backlog')
      BY <3>1, <3>2, <1>6, <1>7
    <3> QED
      BY <3>2, <3>3, <1>3, <1>6
  <2>6. \A s \in Slot : (s = tether_fd' /\ conn'[s].agent = "open") => backlog' = <<>>
    BY <2>3, <1>3, <1>7, <1>12
  <2> QED
    BY <2>1, <2>2, <2>3, <2>4, <2>5, <2>6, <1>2, <1>3, <1>4, <1>5, <1>7, <1>9 DEF Shape
<1>15. DownInv'
  <2>1. \A s \in Slot : LiveDown(s)' = LiveDown(s) /\ Down(s)' = Down(s)
    <3> SUFFICES ASSUME NEW s \in Slot PROVE LiveDown(s)' = LiveDown(s) /\ Down(s)' = Down(s)
      OBVIOUS
    <3>1. LiveDown(s)' = LiveDown(s) /\ conn'[s].sent = conn[s].sent
      BY <1>3, <1>8 DEF LiveDown
    <3>2. s # serving /\ (conn'[s].agent \in {"queued", "open"} <=> conn[s].agent \in {"queued", "open"})
      BY <1>5, <1>8, <1>9, InUse, <1>4
    <3>3. (IF s = serving' THEN rx_pending' ELSE <<>>) = <<>>
      BY <1>2
    <3> QED
      BY <3>1, <3>2, <3>3, <1>3 DEF Down
  <2>2. \A s, t \in Slot : Before(s, t)' => Before(s, t)
    <3> SUFFICES ASSUME NEW s \in Slot, NEW t \in Slot, Before(s, t)' PROVE Before(s, t)
      OBVIOUS
    <3>1. CASE s = serving' /\ Queued(t)'
      <4>1. PICK j \in 1..Len(backlog') : backlog'[j] = t
        BY <3>1 DEF Queued
      <4>2. 1 \in 1..Len(backlog) /\ j + 1 \in 1..Len(backlog) /\ 1 < j + 1
               /\ backlog[1] = s /\ backlog[j + 1] = t
        BY <4>1, <3>1, <1>6, <1>7
      <4> QED
        BY <4>2 DEF Before
    <3>2. ASSUME NEW i \in 1..Len(backlog'), NEW j \in 1..Len(backlog'), i < j,
                 backlog'[i] = s, backlog'[j] = t
          PROVE  Before(s, t)
      <4>1. i + 1 \in 1..Len(backlog) /\ backlog[i + 1] = s
        BY <3>2, <1>6
      <4>2. j + 1 \in 1..Len(backlog) /\ backlog[j + 1] = t
        BY <3>2, <1>6
      <4>3. i + 1 < j + 1
        BY <3>2
      <4> QED
        BY <4>1, <4>2, <4>3 DEF Before
    <3> QED
      BY <3>1, <3>2 DEF Before
  <2>3. \A s \in Slot : /\ Framed(Down(s)') /\ Frames(Down(s)') \subseteq Frames(Down(s))
                        /\ LiveDown(s)' => Even(Down(s)')
    BY <2>1, <1>4 DEF DownInv, Streams
  <2> QED
    BY <2>2, <2>3, <1>1, <1>2, <1>3, <1>4, DownKept
<1>16. UpInv'
  <2>1. ~LiveUp /\ (IF LiveUp' THEN tx_pending' ELSE <<>>) = <<>>
    BY <1>2, <1>5 DEF LiveUp
  <2>2. tether_fd # 0 => conn'[tether_fd].sent = conn[tether_fd].sent
    BY <1>4, <1>8, InUse
  <2>3. Up' = Up
    BY <2>1, <2>2, <1>3 DEF Up
  <2>4. LiveUp' => Even(Up')
    <3> SUFFICES ASSUME LiveUp' PROVE Even(Up')
      OBVIOUS
    <3>1. tether_fd = z /\ tether_fd # 0
      BY <1>3, <1>7 DEF LiveUp
    <3>2. Up = (<<>> \o <<>>) \o <<>>
      BY <3>1, <2>1, <1>12 DEF Up
    <3>3. <<>> \in Seq(Token)
      OBVIOUS
    <3>4. (<<>> \o <<>>) \o <<>> = <<>>
      BY <3>3, NoTail
    <3> QED
      BY <2>3, <3>2, <3>4, EmptyFramed
  <2> QED
    BY <2>3, <2>4, <1>2, <1>3, <1>4, UpKept DEF UpInv
<1> QED
  BY <1>13, <1>14, <1>15, <1>16 DEF LinkInv

LEMMA FinishPassStep ==
    ASSUME LinkInv, GroundIdle, Dispatch, FinishPass
    PROVE  LinkInv'
<1>1. dispatched' = dispatched
  BY NoDispatch DEF FinishPass, Watchdog
<1>2. UNCHANGED <<backlog, serving, rx_pending, line>> /\ apc = "send" /\ apc' = "top"
  BY DEF FinishPass
<1>3. UNCHANGED <<co_running, cpc, tether_fd, co_pending, out, co_rx, last_state, telemetry, issued, reported>>
  BY DEF GroundIdle, coordinatorVars
<1>4. Types /\ Shape /\ DownInv /\ UpInv
  BY DEF LinkInv
<1>5. PICK z \in Slot : z = serving /\ conn[z].agent = "open" /\ z # 0
  BY <1>2, <1>4, InUse DEF Shape
<1>6. line = <<>>
  BY <1>2, <1>4 DEF Shape
<1> DEFINE q == Queue
           m == conn[z].sent["ground"]
<1>7. m \in Seq(Token) /\ co_rx \in Seq(Token) /\ tx_pending \in Seq(Token) /\ beats \in Nat /\ beats' \in Nat /\ beats <= beats'
  BY <1>4, DownParts DEF Types, FinishPass, Heartbeat
<1>8. \/ q = tx_pending /\ beats' = beats
      \/ q = tx_pending \o Tokens(beats + 1) /\ beats' = beats + 1
  BY DEF Queue, FinishPass, Heartbeat
<1>9. q \in Seq(Token)
  <2>1. beats + 1 \in Nat
    BY <1>7
  <2> QED
    BY <2>1, <1>7, <1>8, TokensFramed, Concat
<1> HIDE DEF q, m
<1>10. \/ \E n \in 0..Len(q) : Put(z, "agent", SubSeq(q, 1, n)) /\ tx_pending' = SubSeq(q, n + 1, Len(q))
       \/ conn' = conn /\ tx_pending' = q
  BY <1>5 DEF FinishPass, Write, q
<1>11. /\ conn' \in [Slot -> Conn]
       /\ \A t \in Slot : /\ conn'[t].ground = conn[t].ground /\ conn'[t].agent = conn[t].agent
                          /\ conn'[t].cut = conn[t].cut /\ conn'[t].sent["agent"] = conn[t].sent["agent"]
                          /\ t # z => conn'[t] = conn[t]
       /\ tx_pending' \in Seq(Token)
       /\ ~conn[z].cut /\ conn[z].ground # "closed"
            => (co_rx \o conn'[z].sent["ground"]) \o tx_pending' = (co_rx \o m) \o q
       /\ conn[z].cut => conn'[z].sent["ground"] = m
  <2>1. CASE conn' = conn /\ tx_pending' = q
    BY <2>1, <1>4, <1>9 DEF Types, m
  <2>2. ASSUME NEW n \in 0..Len(q), Put(z, "agent", SubSeq(q, 1, n)), tx_pending' = SubSeq(q, n + 1, Len(q))
        PROVE  <1>11!:
    <3>1. SubSeq(q, 1, n) \in Seq(Token) /\ tx_pending' \in Seq(Token)
      BY <2>2, <1>9, Split
    <3>2. /\ conn' \in [Slot -> Conn]
          /\ \A t \in Slot : /\ conn'[t].ground = conn[t].ground /\ conn'[t].agent = conn[t].agent
                             /\ conn'[t].cut = conn[t].cut
                             /\ t # z => conn'[t] = conn[t]
          /\ conn'[z].sent["agent"] = conn[z].sent["agent"]
          /\ conn'[z].sent["ground"] = IF conn[z].cut \/ conn[z].ground = "closed"
                                       THEN m ELSE m \o SubSeq(q, 1, n)
      BY <2>2, <3>1, <1>4, OnPut DEF Types, End, Other, m
    <3>3. (co_rx \o (m \o SubSeq(q, 1, n))) \o SubSeq(q, n + 1, Len(q)) = (co_rx \o m) \o q
      <4> DEFINE a == SubSeq(q, 1, n)
                 b == SubSeq(q, n + 1, Len(q))
      <4>1. n \in 0..Len(q)
        BY <2>2
      <4>2. a \in Seq(Token) /\ b \in Seq(Token)
        BY <4>1, <1>9, Split
      <4>3. a \o b = q
        BY <4>1, <1>9, Split, Zenon
      <4> HIDE DEF a, b
      <4>4. Joined(co_rx, m \o a, b) = Joined(co_rx, m, a \o b)
        BY <4>2, <1>7, Written
      <4> QED
        BY <4>3, <4>4 DEF a, b, Joined
    <3>4. ~conn[z].cut /\ conn[z].ground # "closed"
            => (co_rx \o conn'[z].sent["ground"]) \o tx_pending' = (co_rx \o m) \o q
      BY <2>2, <3>2, <3>3
    <3>5. \A t \in Slot : conn'[t].sent["agent"] = conn[t].sent["agent"]
      BY <3>2
    <3>6. conn[z].cut => conn'[z].sent["ground"] = m
      BY <3>2
    <3> QED
      BY <3>1, <3>2, <3>4, <3>5, <3>6
  <2> QED
    BY <1>10, <2>1, <2>2
<1>12. Types'
  BY <1>1, <1>2, <1>3, <1>4, <1>7, <1>11 DEF Types
<1>13. Shape'
  <2>1. \A s \in Slot : conn'[s].agent = "queued" => conn'[s].sent["ground"] = <<>>
    BY <1>4, <1>5, <1>11 DEF Shape
  <2> QED
    BY <2>1, <1>2, <1>3, <1>4, <1>5, <1>6, <1>11 DEF Shape, Queued
<1>14. DownInv'
  <2>1. \A s \in Slot : Down(s)' = Down(s) /\ LiveDown(s)' = LiveDown(s)
    BY <1>2, <1>3, <1>11 DEF Down, LiveDown
  <2>2. \A s, t \in Slot : Before(s, t)' => Before(s, t)
    BY <1>2 DEF Before, Queued
  <2>3. \A s \in Slot : /\ Framed(Down(s)') /\ Frames(Down(s)') \subseteq Frames(Down(s))
                        /\ LiveDown(s)' => Even(Down(s)')
    BY <2>1, <1>4 DEF DownInv, Streams
  <2> QED
    BY <2>2, <2>3, <1>1, <1>2, <1>3, <1>4, DownKept
<1>15. UpInv'
  <2>0. \A f \in Frames(Up) : f \in Nat /\ f <= beats'
    BY <1>4, <1>7, UpParts, FramesNat DEF UpInv
  <2>3. \A i \in 1..Len(reported) : reported[i] \in Nat /\ reported[i] <= beats /\ reported[i] <= beats'
    <3>1. \A i \in 1..Len(reported) : reported[i] \in Nat
      BY <1>4, ElementOfSeq DEF Types
    <3>2. \A i \in 1..Len(reported) : reported[i] <= beats
      BY <1>4 DEF UpInv
    <3> QED
      BY <3>1, <3>2, <1>7
  <2>1. CASE ~LiveUp
    <3>1. ~LiveUp' /\ (tether_fd # 0 => conn'[tether_fd].sent["ground"] = conn[tether_fd].sent["ground"])
      BY <2>1, <1>2, <1>3, <1>4, <1>5, <1>11, InUse DEF LiveUp, m
    <3>2. Up' = Up
      BY <2>1, <3>1, <1>3 DEF Up
    <3> QED
      BY <2>0, <2>3, <3>1, <3>2, <1>3, <1>4 DEF UpInv
  <2>2. CASE LiveUp
    <3>1. tether_fd = z /\ ~conn[z].cut /\ conn[z].ground # "closed" /\ LiveUp'
      BY <2>2, <1>2, <1>3, <1>4, <1>5, <1>11 DEF LiveUp, Shape
    <3>2. Up' = (co_rx \o m) \o q
      BY <3>1, <1>3, <1>5, <1>11 DEF Up, m
    <3>3. Up = (co_rx \o m) \o tx_pending
      BY <2>2, <3>1, <1>5 DEF Up, m
    <3>4. Framed(Up) /\ Even(Up) /\ Up \in Seq(Token)
      BY <2>2, <1>4, UpParts DEF UpInv
    <3>5. /\ Framed(Up') /\ Even(Up')
          /\ \A f \in Frames(Up') : f <= beats' /\ \A i \in 1..Len(reported) : reported[i] < f
      <4>1. CASE q = tx_pending
        BY <4>1, <2>0, <3>2, <3>3, <3>4, <1>4 DEF UpInv
      <4>2. CASE q = tx_pending \o Tokens(beats + 1) /\ beats' = beats + 1
        <5> DEFINE w == Up
                   t == Tokens(beats + 1)
        <5>1. t \in Seq(Token) /\ Framed(t) /\ Even(t) /\ Frames(t) = {beats + 1}
          BY <1>7, TokensFramed
        <5> HIDE DEF t
        <5>2. Up' = w \o t
          <6>1. co_rx \o m \in Seq(Token)
            BY <1>7, Concat
          <6>2. (co_rx \o m) \o (tx_pending \o t) = ((co_rx \o m) \o tx_pending) \o t
            BY <6>1, <5>1, <1>7, Associates
          <6> QED
            BY <6>2, <4>2, <3>2, <3>3 DEF t
        <5>3. Below(w, t)
          BY <5>1, <1>4, <1>7, <2>0 DEF UpInv, Below
        <5> HIDE DEF w
        <5>4. Framed(w \o t) /\ Even(w \o t) /\ Frames(w \o t) = Frames(w) \cup {beats + 1}
          BY <3>4, <5>1, <5>3, FramedConcat, FramesConcat DEF w
        <5>5. \A i \in 1..Len(reported) : reported[i] < beats + 1
          BY <2>3, <1>7
        <5> QED
          BY <5>2, <5>4, <5>5, <4>2, <2>0, <1>4, <1>7 DEF UpInv, w
      <4> QED
        BY <4>1, <4>2, <1>8
    <3> QED
      BY <2>3, <3>5, <1>3, <1>4 DEF UpInv
  <2> QED
    BY <2>1, <2>2
<1> QED
  BY <1>12, <1>13, <1>14, <1>15 DEF LinkInv

LEMMA CloseSessionStep ==
    ASSUME LinkInv, GroundIdle, Dispatch, CloseSession
    PROVE  LinkInv'
<1>1. dispatched' = dispatched
  BY NoDispatch DEF CloseSession
<1>2. /\ UNCHANGED <<backlog, rx_pending, tx_pending, beats, line>>
      /\ apc = "close" /\ apc' \in {"accept", "done"} /\ serving' = 0
  BY DEF CloseSession
<1>3. UNCHANGED <<co_running, cpc, tether_fd, co_pending, out, co_rx, last_state, telemetry, issued, reported>>
  BY DEF GroundIdle, coordinatorVars
<1>4. Types /\ Shape /\ DownInv /\ UpInv
  BY DEF LinkInv
<1>5. PICK z \in Slot : z = serving /\ conn[z].agent = "open" /\ z # 0
  BY <1>2, <1>4, InUse DEF Shape
<1>6. line = <<>> /\ ~Queued(z)
  BY <1>2, <1>4, <1>5 DEF Shape
<1>7. /\ conn' \in [Slot -> Conn] /\ \A t \in Slot : t # z => conn'[t] = conn[t]
      /\ conn'[z].agent \in {"closed", "none"}
      /\ conn[z].ground = "open"
           => /\ conn'[z].ground = "open" /\ conn'[z].agent = "closed"
              /\ conn'[z].sent["ground"] = conn[z].sent["ground"]
      /\ conn'[z].ground = "open" => conn[z].ground = "open"
  <2>1. conn' = [conn EXCEPT ![z] = Shut(@, "agent")]
    BY <1>5 DEF CloseSession
  <2>2. /\ conn' \in [Slot -> Conn] /\ \A t \in Slot : t # z => conn'[t] = conn[t]
        /\ \/ conn[z].ground = "closed" /\ conn'[z] = NoConn
           \/ /\ conn'[z].agent = "closed" /\ conn'[z].ground = conn[z].ground
              /\ conn'[z].sent["ground"] = conn[z].sent["ground"]
    BY <2>1, <1>4, OnShut DEF Types, End, Other
  <2> QED
    BY <2>2, NoConnConn
<1>8. Types'
  BY <1>1, <1>2, <1>3, <1>4, <1>7, WireConstants DEF Types
<1>9. Shape'
  <2>1. \A s \in Slot : conn'[s].agent = "queued" <=> Queued(s)'
    BY <1>2, <1>4, <1>5, <1>6, <1>7 DEF Shape, Queued
  <2>2. \A s \in Slot : conn'[s].agent = "open" <=> s = serving'
    BY <1>2, <1>4, <1>5, <1>7, InUse DEF Shape
  <2>3. \A s \in Slot : /\ conn'[s].ground = "open" <=> s = tether_fd'
                        /\ conn'[s].ground = "open" => conn'[s].agent # "none"
                        /\ conn'[s].agent = "queued" => conn'[s].sent["ground"] = <<>>
    BY <1>3, <1>4, <1>5, <1>7 DEF Shape
  <2>4. \A s \in Slot : (s = tether_fd' /\ conn'[s].agent = "queued")
                        => backlog'[Len(backlog')] = s /\ co_rx' = <<>>
    BY <1>2, <1>3, <1>4, <1>5, <1>7 DEF Shape
  <2>5. \A s \in Slot : (s = tether_fd' /\ conn'[s].agent = "open") => backlog' = <<>>
    BY <1>2, <1>3, <1>4, <1>7 DEF Shape
  <2> QED
    BY <2>1, <2>2, <2>3, <2>4, <2>5, <1>2, <1>3, <1>4, <1>6 DEF Shape
<1>10. DownInv'
  <2>1. Down(z)' = <<>>
    BY <1>7 DEF Down
  <2>2. \A s \in Slot : s # z => Down(s)' = Down(s) /\ LiveDown(s)' = LiveDown(s)
    <3> SUFFICES ASSUME NEW s \in Slot, s # z PROVE Down(s)' = Down(s) /\ LiveDown(s)' = LiveDown(s)
      OBVIOUS
    <3>1. conn'[s] = conn[s] /\ s # serving /\ s # serving' /\ tether_fd' = tether_fd /\ out' = out
      BY <1>2, <1>3, <1>4, <1>5, <1>7, InUse
    <3> QED
      BY <3>1 DEF Down, LiveDown
  <2>3. \A s \in Slot : /\ Framed(Down(s)') /\ Frames(Down(s)') \subseteq Frames(Down(s))
                        /\ LiveDown(s)' => Even(Down(s)')
    <3> SUFFICES ASSUME NEW s \in Slot
                 PROVE  /\ Framed(Down(s)') /\ Frames(Down(s)') \subseteq Frames(Down(s))
                        /\ LiveDown(s)' => Even(Down(s)')
      OBVIOUS
    <3>1. CASE s = z
      BY <3>1, <2>1, EmptyFramed
    <3>2. CASE s # z
      BY <3>2, <2>2, <1>4 DEF DownInv, Streams
    <3> QED
      BY <3>1, <3>2
  <2>4. \A s, t \in Slot : Before(s, t)' => Before(s, t)
    BY <1>2, <1>4, InUse DEF Before, Queued
  <2> QED
    BY <2>3, <2>4, <1>1, <1>2, <1>3, <1>4, DownKept
<1>11. UpInv'
  <2>1. ~LiveUp'
    BY <1>2, <1>3 DEF LiveUp
  <2>2. Framed(Up') /\ Frames(Up') \subseteq Frames(Up)
    <3>1. CASE tether_fd = 0
      BY <3>1, <1>3, <1>4 DEF Up, UpInv
    <3>2. CASE tether_fd # 0
      <4> DEFINE m == conn[tether_fd].sent["ground"]
                 q == IF LiveUp THEN tx_pending ELSE <<>>
      <4>1. m \in Seq(Token) /\ q \in Seq(Token) /\ co_rx \in Seq(Token)
        BY <3>2, <1>4, UpParts DEF Types
      <4>2. Up = (co_rx \o m) \o q
        BY <3>2 DEF Up
      <4>3. conn'[tether_fd].sent["ground"] = m
        BY <3>2, <1>4, <1>7, InUse DEF Shape
      <4>4. Up' = (co_rx \o m) \o <<>>
        BY <3>2, <4>3, <2>1, <1>3 DEF Up
      <4> HIDE DEF m, q
      <4> QED
        BY <4>1, <4>2, <4>4, <1>4, TailDropped DEF UpInv
    <3> QED
      BY <3>1, <3>2
  <2> QED
    BY <2>1, <2>2, <1>2, <1>3, <1>4, UpKept
<1> QED
  BY <1>8, <1>9, <1>10, <1>11 DEF LinkInv

-----------------------------------------------------------------------------
(* Steps of the coordinator, and the operator's.                           *)

AgentIdle == UNCHANGED <<agentVars, issued, dispatched, cuts>>
Report == reported' = IF telemetry' # 0 THEN Append(reported, telemetry') ELSE reported

LEMMA IdleCoordinator ==
    ASSUME LinkInv, AgentIdle, Report,
           StartCoordinator \/ DialBegins \/ DialFails \/ PollNothing \/ PollBadFd \/ ParseEnds
    PROVE  LinkInv'
<1>1. reported' = reported /\ telemetry' = 0
  BY DEF Report, StartCoordinator, DialBegins, DialFails, PollNothing, PollBadFd, ParseEnds, GoTo
<1>2. UNCHANGED <<apc, serving, rx_pending, tx_pending, line, beats, issued, dispatched>>
  BY DEF AgentIdle, agentVars
<1>3. /\ UNCHANGED <<conn, backlog, tether_fd, co_pending, out, co_rx, last_state>>
      /\ co_running' \in BOOLEAN /\ out = <<>>
      /\ cpc' \in {"off", "loop", "dial", "send", "poll", "parse", "done", "crashed"}
      /\ cpc' = "dial" => tether_fd = 0
  BY DEF StartCoordinator, DialBegins, DialFails, PollNothing, PollBadFd, ParseEnds, GoTo, wireVars,
         LinkInv, Types, Shape
<1>4. Types'
  BY <1>1, <1>2, <1>3 DEF LinkInv, Types
<1>5. Shape'
  BY <1>2, <1>3 DEF LinkInv, Shape, Queued
<1>6. DownInv' /\ UpInv'
  BY <1>1, <1>2, <1>3, NothingMoves
<1> QED
  BY <1>4, <1>5, <1>6 DEF LinkInv

\* The coordinator closes its end, or has none: whatever it had not sent is
\* gone with it.
LEMMA GroundLeaves ==
    ASSUME LinkInv, AgentIdle,
           UNCHANGED <<backlog, co_pending, co_rx, last_state, reported>>,
           co_running' \in BOOLEAN, telemetry' = 0,
           cpc' \in {"off", "loop", "dial", "send", "poll", "parse", "done", "crashed"},
           out' = out \/ out' = <<>>, out' # <<>> => cpc' = "send",
           IF tether_fd # 0 THEN ShutFd ELSE UNCHANGED <<conn, tether_fd>>
    PROVE  LinkInv'
<1>1. Types /\ Shape /\ DownInv /\ UpInv
  BY DEF LinkInv
<1>2. UNCHANGED <<apc, serving, rx_pending, tx_pending, line, beats, issued, dispatched>>
  BY DEF AgentIdle, agentVars
<1>3. tether_fd' = 0
  BY DEF ShutFd
<1>4. /\ conn' \in [Slot -> Conn]
      /\ \A t \in Slot : t # tether_fd => conn'[t] = conn[t]
      /\ tether_fd # 0 =>
           /\ conn'[tether_fd].ground \in {"closed", "none"}
           /\ conn[tether_fd].agent \in {"queued", "open"} <=> conn'[tether_fd].agent \in {"queued", "open"}
           /\ conn[tether_fd].agent \in {"queued", "open"} =>
                /\ conn'[tether_fd].agent = conn[tether_fd].agent
                /\ conn'[tether_fd].sent["agent"] = conn[tether_fd].sent["agent"]
           /\ conn'[tether_fd].agent = "queued" => conn'[tether_fd].sent["ground"] = <<>>
  <2>1. CASE tether_fd = 0
    BY <2>1, <1>1, InUse DEF Types
  <2>2. CASE tether_fd # 0
    <3>1. PICK z \in Slot : z = tether_fd
      BY <2>2, <1>1, InUse
    <3>2. conn' = [conn EXCEPT ![z] = Shut(@, "ground")]
      BY <2>2, <3>1 DEF ShutFd
    <3>3. /\ conn' \in [Slot -> Conn] /\ \A t \in Slot : t # z => conn'[t] = conn[t]
          /\ \/ conn[z].agent = "closed" /\ conn'[z] = NoConn
             \/ /\ conn'[z].ground = "closed" /\ conn'[z].agent = conn[z].agent
                /\ conn'[z].sent["agent"] = conn[z].sent["agent"]
                /\ conn'[z].sent["ground"] = <<>>
      BY <3>2, <1>1, OnShut DEF Types, End, Other
    <3> QED
      BY <3>1, <3>3, NoConnConn
  <2> QED
    BY <2>1, <2>2
<1>5. Types'
  <2>1. out' \in Seq(Token)
    <3>1. out \in Seq(Token)
      BY <1>1 DEF Types
    <3>2. <<>> \in Seq(Token)
      OBVIOUS
    <3> QED
      BY <3>1, <3>2
  <2>2. tether_fd' \in 0..Slots
    BY <1>3, WireConstants
  <2> QED
    BY <2>1, <2>2, <1>1, <1>2, <1>4 DEF Types
<1>6. Shape'
  <2>1. \A s \in Slot : conn'[s].agent = "queued" <=> Queued(s)'
    BY <1>1, <1>4 DEF Shape, Queued
  <2>2. \A s \in Slot : conn'[s].agent = "open" <=> s = serving'
    BY <1>1, <1>2, <1>4 DEF Shape
  <2>3. \A s \in Slot : conn'[s].ground # "open" /\ s # tether_fd'
    BY <1>1, <1>3, <1>4, InUse DEF Shape
  <2>4. \A s \in Slot : conn'[s].agent = "queued" => conn'[s].sent["ground"] = <<>>
    BY <1>1, <1>4 DEF Shape
  <2> QED
    BY <2>1, <2>2, <2>3, <2>4, <1>1, <1>2, <1>3 DEF Shape
<1>7. DownInv'
  <2>1. \A s \in Slot : /\ Framed(Down(s)') /\ Frames(Down(s)') \subseteq Frames(Down(s))
                        /\ LiveDown(s)' => Even(Down(s)')
    <3> SUFFICES ASSUME NEW s \in Slot
                 PROVE  Framed(Down(s)') /\ Frames(Down(s)') \subseteq Frames(Down(s)) /\ ~LiveDown(s)'
      OBVIOUS
    <3>1. ~LiveDown(s)'
      BY <1>1, <1>3, InUse DEF LiveDown
    <3>2. CASE conn[s].agent \in {"queued", "open"}
      <4> DEFINE p == IF s = serving THEN rx_pending ELSE <<>>
                 m == conn[s].sent["agent"]
                 q == IF LiveDown(s) THEN out ELSE <<>>
      <4>1. p \in Seq(Token) /\ m \in Seq(Token) /\ q \in Seq(Token)
        BY <1>1, DownParts
      <4>2. Down(s) = (p \o m) \o q
        BY <3>2 DEF Down
      <4>3. conn'[s].agent \in {"queued", "open"} /\ conn'[s].sent["agent"] = m
        BY <3>2, <1>1, <1>4, InUse
      <4>4. Down(s)' = (p \o m) \o <<>>
        BY <4>3, <3>1, <1>2 DEF Down
      <4> HIDE DEF p, m, q
      <4>5. Framed((p \o m) \o q)
        BY <4>2, <1>1 DEF DownInv, Streams
      <4> QED
        BY <4>1, <4>2, <4>4, <4>5, <3>1, TailDropped
    <3>3. CASE conn[s].agent \notin {"queued", "open"}
      <4>1. conn'[s].agent \notin {"queued", "open"}
        BY <3>3, <1>1, <1>4, InUse
      <4> QED
        BY <4>1, <3>1, EmptyFramed DEF Down
    <3> QED
      BY <3>2, <3>3
  <2>2. \A s, t \in Slot : Before(s, t)' => Before(s, t)
    BY <1>2 DEF Before, Queued
  <2> QED
    BY <2>1, <2>2, <1>1, <1>2, DownKept
<1>8. UpInv'
  <2>1. ~LiveUp' /\ Up' = co_rx
    BY <1>3 DEF LiveUp, Up
  <2>2. Framed(co_rx) /\ Frames(co_rx) \subseteq Frames(Up)
    <3>1. CASE tether_fd = 0
      BY <3>1, <1>1 DEF Up, UpInv
    <3>2. CASE tether_fd # 0
      <4> DEFINE m == conn[tether_fd].sent["ground"]
                 q == IF LiveUp THEN tx_pending ELSE <<>>
      <4>1. m \in Seq(Token) /\ q \in Seq(Token) /\ co_rx \in Seq(Token)
        BY <3>2, <1>1, UpParts DEF Types
      <4>2. Up = (co_rx \o m) \o q
        BY <3>2 DEF Up
      <4> HIDE DEF m, q
      <4> QED
        BY <4>1, <4>2, <1>1, TailDropped DEF UpInv
    <3> QED
      BY <3>1, <3>2
  <2> QED
    BY <2>1, <2>2, <1>1, <1>2, UpKept
<1> QED
  BY <1>5, <1>6, <1>7, <1>8 DEF LinkInv

LEMMA Closings ==
    ASSUME LinkInv, AgentIdle, Report, StopCoordinator \/ SendFails \/ PollGone \/ LoopEnds
    PROVE  LinkInv'
<1>1. telemetry' = 0 /\ reported' = reported /\ UNCHANGED <<backlog, co_pending, co_rx, last_state>>
  BY DEF Report, StopCoordinator, SendFails, PollGone, LoopEnds, GoTo
<1>2. Types /\ Shape
  BY DEF LinkInv
<1>3. /\ co_running' \in BOOLEAN
      /\ cpc' \in {"off", "loop", "dial", "send", "poll", "parse", "done", "crashed"}
      /\ out' = out \/ out' = <<>>
      /\ out' # <<>> => cpc' = "send"
  BY <1>2 DEF StopCoordinator, SendFails, PollGone, LoopEnds, GoTo, Types, Shape
<1>4. IF tether_fd # 0 THEN ShutFd ELSE UNCHANGED <<conn, tether_fd>>
  BY DEF StopCoordinator, SendFails, PollGone, LoopEnds
<1> QED
  BY <1>1, <1>3, <1>4, GroundLeaves

LEMMA PollBytesStep ==
    ASSUME LinkInv, AgentIdle, Report, PollBytes
    PROVE  LinkInv'
<1>1. /\ reported' = reported /\ telemetry' = 0 /\ cpc = "poll" /\ cpc' = "parse"
      /\ UNCHANGED <<backlog, co_running, tether_fd, co_pending, out, last_state>>
  BY DEF Report, PollBytes, GoTo
<1>2. UNCHANGED <<apc, serving, rx_pending, tx_pending, line, beats, issued, dispatched>>
  BY DEF AgentIdle, agentVars
<1>3. Types /\ Shape /\ DownInv /\ UpInv
  BY DEF LinkInv
<1>4. PICK z \in Slot : z = tether_fd /\ z # 0 /\ conn[z].ground = "open"
  BY <1>3, InUse DEF PollBytes, Shape
<1> DEFINE m == conn[z].sent["ground"]
           q == IF LiveUp THEN tx_pending ELSE <<>>
<1>5. m \in Seq(Token) /\ q \in Seq(Token) /\ co_rx \in Seq(Token)
  BY <1>3, <1>4, UpParts DEF Types
<1>6. PICK n \in 1..Len(m) : Take(z, "ground", n) /\ co_rx' = co_rx \o SubSeq(m, 1, n)
  BY <1>4 DEF PollBytes
<1>7. /\ conn' \in [Slot -> Conn]
      /\ \A t \in Slot : /\ conn'[t].ground = conn[t].ground /\ conn'[t].agent = conn[t].agent
                         /\ conn'[t].cut = conn[t].cut
                         /\ t # z => conn'[t] = conn[t]
      /\ conn'[z].sent["agent"] = conn[z].sent["agent"]
      /\ conn'[z].sent["ground"] = SubSeq(m, n + 1, Len(m))
  BY <1>3, <1>6, OnTake DEF Types, End, Other
<1>8. m # <<>> /\ conn[z].agent # "queued"
  <2>1. m # <<>>
    BY <1>6
  <2> QED
    BY <2>1, <1>3 DEF Shape
<1>9. LiveUp' = LiveUp
  BY <1>1, <1>2, <1>4, <1>7 DEF LiveUp
<1>10. Up = (co_rx \o m) \o q
  BY <1>4 DEF Up
<1>11. Up' = (co_rx' \o conn'[z].sent["ground"]) \o q
  BY <1>1, <1>2, <1>4, <1>9 DEF Up
<1> HIDE DEF m, q
<1>12. co_rx' \in Seq(Token) /\ co_rx' \o conn'[z].sent["ground"] = co_rx \o m
  <2>1. n \in 0..Len(m)
    BY <1>5
  <2>2. /\ co_rx \o SubSeq(m, 1, n) \in Seq(Token)
        /\ (co_rx \o SubSeq(m, 1, n)) \o SubSeq(m, n + 1, Len(m)) = co_rx \o m
    BY <2>1, <1>5, Received
  <2> QED
    BY <2>2, <1>6, <1>7
<1>13. Up' = Up
  BY <1>10, <1>11, <1>12
<1>14. Types'
  BY <1>1, <1>2, <1>3, <1>7, <1>12 DEF Types
<1>15. Shape'
  <2>1. \A s \in Slot : conn'[s].agent = "queued" => conn'[s].sent["ground"] = <<>>
    BY <1>3, <1>7, <1>8 DEF Shape
  <2>2. \A s \in Slot : ~(s = tether_fd' /\ conn'[s].agent = "queued")
    BY <1>1, <1>4, <1>7, <1>8
  <2> QED
    BY <2>1, <2>2, <1>1, <1>2, <1>3, <1>7 DEF Shape, Queued
<1>16. DownInv'
  <2>1. \A s \in Slot : conn'[s].sent["agent"] = conn[s].sent["agent"]
    BY <1>7
  <2>2. \A s \in Slot : Down(s)' = Down(s) /\ LiveDown(s)' = LiveDown(s)
    BY <2>1, <1>1, <1>2, <1>7 DEF Down, LiveDown
  <2>3. \A s, t \in Slot : Before(s, t)' => Before(s, t)
    BY <1>1, <1>2 DEF Before, Queued
  <2>4. \A s \in Slot : /\ Framed(Down(s)') /\ Frames(Down(s)') \subseteq Frames(Down(s))
                        /\ LiveDown(s)' => Even(Down(s)')
    BY <2>2, <1>3 DEF DownInv, Streams
  <2> QED
    BY <2>3, <2>4, <1>1, <1>2, <1>3, DownKept
<1>17. UpInv'
  BY <1>1, <1>2, <1>3, <1>9, <1>13, UpKept DEF UpInv
<1> QED
  BY <1>14, <1>15, <1>16, <1>17 DEF LinkInv

LEMMA ParseStateStep ==
    ASSUME LinkInv, AgentIdle, Report, ParseState
    PROVE  LinkInv'
<1>1. /\ UNCHANGED <<conn, backlog, co_running, cpc, tether_fd, co_pending, out>>
      /\ cpc = "parse" /\ HasLine(co_rx) /\ co_rx' = Rest(co_rx)
      /\ telemetry' = IF Whole(Line(co_rx)) THEN Line(co_rx)[1].frame ELSE 0
      /\ last_state' = IF telemetry' # 0 THEN telemetry' ELSE last_state
  BY DEF ParseState, wireVars
<1>2. UNCHANGED <<apc, serving, rx_pending, tx_pending, line, beats, issued, dispatched>>
  BY DEF AgentIdle, agentVars
<1>3. Types /\ Shape /\ DownInv /\ UpInv
  BY DEF LinkInv
<1> DEFINE m == IF tether_fd = 0 THEN <<>> ELSE conn[tether_fd].sent["ground"]
           q == IF LiveUp THEN tx_pending ELSE <<>>
           f == Line(co_rx)[1].frame
<1>4. m \in Seq(Token) /\ q \in Seq(Token) /\ co_rx \in Seq(Token) /\ Rest(co_rx) \in Seq(Token)
  <2>1. m \in Seq(Token)
    <3>1. <<>> \in Seq(Token)
      OBVIOUS
    <3> QED
      BY <3>1, <1>3, UpParts
  <2>2. co_rx \in Seq(Token) /\ Framed(co_rx)
    <3>1. co_rx \in Seq(Token)
      BY <1>3 DEF Types
    <3>2. CASE tether_fd = 0
      BY <3>1, <3>2, <1>3 DEF UpInv, Up
    <3>3. CASE tether_fd # 0
      <4>1. Up = (co_rx \o m) \o q
        BY <3>3 DEF Up
      <4>2. q \in Seq(Token) /\ Framed(Up)
        BY <1>3, UpParts DEF UpInv
      <4> HIDE DEF m, q
      <4> QED
        BY <2>1, <3>1, <4>1, <4>2, TailDropped
    <3> QED
      BY <3>1, <3>2, <3>3
  <2>3. q \in Seq(Token)
    BY <1>3, UpParts
  <2> QED
    BY <2>1, <2>2, <2>3, <1>1, FirstLine
<1>5. LiveUp' = LiveUp
  BY <1>1, <1>2 DEF LiveUp
<1>6. Up = (co_rx \o m) \o q /\ Up' = (Rest(co_rx) \o m) \o q
  <2>1. CASE tether_fd # 0
    BY <2>1, <1>1, <1>2, <1>5 DEF Up
  <2>2. CASE tether_fd = 0
    <3>1. m = <<>> /\ q = <<>> /\ Up = co_rx /\ Up' = Rest(co_rx)
      BY <2>2, <1>1 DEF Up, LiveUp
    <3>2. \A r \in Seq(Token) : (r \o <<>>) \o <<>> = r
      BY NoTail
    <3> HIDE DEF m, q
    <3> QED
      BY <3>1, <3>2, <1>4
  <2> QED
    BY <2>1, <2>2
<1> HIDE DEF m, q
<1>7. /\ Whole(Line(co_rx)) /\ f \in Nat /\ Frames(Line(co_rx)) = {f}
      /\ Framed(Up') /\ (Even(Up) => Even(Up')) /\ Frames(Up') \subseteq Frames(Up)
      /\ f \in Frames(Up) /\ \A g \in Frames(Up') : f < g
  <2>1. Framed((co_rx \o m) \o q)
    BY <1>3, <1>6 DEF UpInv
  <2>2. /\ Whole(Line(co_rx)) /\ f \in Nat /\ Frames(Line(co_rx)) = {f}
        /\ Framed(Up') /\ (Even(Up) => Even(Up')) /\ Frames(Up') \subseteq Frames(Up)
        /\ Frames(Line(co_rx)) \subseteq Frames(Up) /\ Below(Line(co_rx), Up')
    BY <2>1, <1>1, <1>4, <1>6, LineTaken
  <2> QED
    BY <2>2 DEF Below
<1>8. telemetry' = f /\ telemetry' \in Nat
  BY <1>1, <1>7
<1>9. reported' = IF f # 0 THEN Append(reported, f) ELSE reported
  BY <1>8 DEF Report
<1> HIDE DEF f
<1>10. reported' \in Seq(Nat)
  <2>1. reported \in Seq(Nat)
    BY <1>3 DEF Types
  <2>2. Append(reported, f) \in Seq(Nat)
    BY <2>1, <1>7, AppendProperties
  <2> QED
    BY <2>1, <2>2, <1>9
<1>11. Types'
  BY <1>1, <1>2, <1>3, <1>4, <1>8, <1>10 DEF Types
<1>12. Shape'
  <2>1. co_rx # <<>>
    BY <1>1 DEF HasLine
  <2> QED
    BY <2>1, <1>1, <1>2, <1>3 DEF Shape, Queued
<1>13. DownInv'
  <2>1. \A s \in Slot : Down(s)' = Down(s) /\ LiveDown(s)' = LiveDown(s)
    BY <1>1, <1>2 DEF Down, LiveDown
  <2>2. \A s, t \in Slot : Before(s, t)' => Before(s, t)
    BY <1>1, <1>2 DEF Before, Queued
  <2>3. \A s \in Slot : /\ Framed(Down(s)') /\ Frames(Down(s)') \subseteq Frames(Down(s))
                        /\ LiveDown(s)' => Even(Down(s)')
    BY <2>1, <1>3 DEF DownInv, Streams
  <2> QED
    BY <2>2, <2>3, <1>1, <1>2, <1>3, DownKept
<1>14. UpInv'
  <2>1. CASE f = 0
    <3>1. UNCHANGED <<reported, last_state, beats>>
      BY <2>1, <1>1, <1>2, <1>8, <1>9
    <3> QED
      BY <3>1, <1>3, <1>5, <1>7, UpKept DEF UpInv
  <2>2. CASE f # 0
    <3>1. /\ reported \in Seq(Nat) /\ Len(reported) \in Nat /\ reported' = Append(reported, f)
          /\ Len(reported') = Len(reported) + 1 /\ DOMAIN reported' = 1..Len(reported') /\ reported' # <<>>
          /\ \A i \in 1..Len(reported) : reported'[i] = reported[i]
          /\ reported'[Len(reported) + 1] = f
      <4>1. reported \in Seq(Nat) /\ f \in Nat /\ reported' = Append(reported, f)
        BY <2>2, <1>3, <1>7, <1>9 DEF Types
      <4> QED
        BY <4>1, AppendProperties
    <3>2. \A i \in 1..Len(reported') : i \in 1..Len(reported) \/ i = Len(reported) + 1
      BY <3>1
    <3>3. \A i \in 1..Len(reported) : reported[i] < f /\ reported[i] <= beats
      BY <1>3, <1>7 DEF UpInv
    <3>4. f <= beats
      BY <1>3, <1>7 DEF UpInv
    <3>5. \A g \in Frames(Up') : g <= beats' /\ \A i \in 1..Len(reported') : reported'[i] < g
      <4> SUFFICES ASSUME NEW g \in Frames(Up')
                   PROVE  g <= beats' /\ \A i \in 1..Len(reported') : reported'[i] < g
        OBVIOUS
      <4>1. g <= beats /\ f < g /\ \A i \in 1..Len(reported) : reported[i] < g
        BY <1>3, <1>7 DEF UpInv
      <4> QED
        BY <4>1, <3>1, <3>2, <1>2
    <3>6. Increasing(reported)'
      <4> SUFFICES ASSUME NEW i \in 1..Len(reported'), NEW j \in 1..Len(reported'), i < j
                   PROVE  reported'[i] < reported'[j]
        BY <3>1 DEF Increasing
      <4>1. i \in 1..Len(reported)
        BY <3>1
      <4>2. CASE j \in 1..Len(reported)
        BY <4>1, <4>2, <3>1, <1>3 DEF UpInv, Increasing
      <4>3. CASE j = Len(reported) + 1
        BY <4>1, <4>3, <3>1, <3>3
      <4> QED
        BY <4>2, <4>3, <3>2
    <3>7. \A i \in 1..Len(reported') : reported'[i] <= beats'
      BY <3>1, <3>2, <3>3, <3>4, <1>2
    <3>8. last_state' = IF reported' = <<>> THEN 0 ELSE reported'[Len(reported')]
      BY <2>2, <3>1, <1>1, <1>8
    <3> QED
      BY <3>5, <3>6, <3>7, <3>8, <1>3, <1>5, <1>7 DEF UpInv
  <2> QED
    BY <2>1, <2>2
<1> QED
  BY <1>11, <1>12, <1>13, <1>14 DEF LinkInv

LEMMA SendSomeStep ==
    ASSUME LinkInv, AgentIdle, Report, SendSome
    PROVE  LinkInv'
<1>1. /\ reported' = reported /\ telemetry' = 0 /\ cpc = "send"
      /\ cpc' = IF out' = <<>> THEN "poll" ELSE "send"
      /\ UNCHANGED <<backlog, co_running, tether_fd, co_pending, co_rx, last_state>>
  BY DEF Report, SendSome, GoTo
<1>2. UNCHANGED <<apc, serving, rx_pending, tx_pending, line, beats, issued, dispatched>>
  BY DEF AgentIdle, agentVars
<1>3. Types /\ Shape /\ DownInv /\ UpInv
  BY DEF LinkInv
<1>4. PICK z \in Slot : z = tether_fd /\ z # 0 /\ conn[z].ground = "open"
  BY <1>3, InUse DEF SendSome, Shape
<1>5. PICK n \in 1..Len(out) : Put(z, "ground", SubSeq(out, 1, n)) /\ out' = SubSeq(out, n + 1, Len(out))
  BY <1>4 DEF SendSome
<1> DEFINE p == IF z = serving THEN rx_pending ELSE <<>>
           m == conn[z].sent["agent"]
           a == SubSeq(out, 1, n)
           b == SubSeq(out, n + 1, Len(out))
<1>6. p \in Seq(Token) /\ m \in Seq(Token) /\ out \in Seq(Token)
  BY <1>3, DownParts DEF Types
<1>7. a \in Seq(Token) /\ b \in Seq(Token) /\ a \o b = out
  <2>1. n \in 0..Len(out)
    BY <1>6
  <2>2. a \in Seq(Token) /\ b \in Seq(Token)
    BY <2>1, <1>6, Split
  <2>3. a \o b = out
    BY <2>1, <1>6, Split, Zenon
  <2> QED
    BY <2>2, <2>3
<1>8. Put(z, "ground", a) /\ out' = b
  BY <1>5
<1> HIDE DEF a, b
<1>9. /\ conn' \in [Slot -> Conn]
      /\ \A t \in Slot : /\ conn'[t].ground = conn[t].ground /\ conn'[t].agent = conn[t].agent
                         /\ conn'[t].cut = conn[t].cut
                         /\ t # z => conn'[t] = conn[t]
      /\ conn'[z].sent["ground"] = conn[z].sent["ground"]
      /\ conn'[z].sent["agent"] = IF conn[z].cut \/ conn[z].agent = "closed" THEN m ELSE m \o a
  BY <1>3, <1>7, <1>8, OnPut DEF Types, End, Other
<1>10. \A s \in Slot : conn'[s].sent["ground"] = conn[s].sent["ground"]
  BY <1>9
<1>11. \A s \in Slot : LiveDown(s)' = LiveDown(s) /\ Down(s)' = Down(s)
  <2> SUFFICES ASSUME NEW s \in Slot PROVE LiveDown(s)' = LiveDown(s) /\ Down(s)' = Down(s)
    OBVIOUS
  <2>1. LiveDown(s)' = LiveDown(s)
    BY <1>1, <1>9 DEF LiveDown
  <2>2. CASE ~LiveDown(s) \/ conn[s].agent \notin {"queued", "open"}
    <3>1. conn[s].agent \in {"queued", "open"} => conn'[s].sent["agent"] = conn[s].sent["agent"]
      BY <2>2, <1>4, <1>9 DEF LiveDown
    <3> QED
      BY <3>1, <2>1, <2>2, <1>2, <1>9 DEF Down
  <2>3. CASE LiveDown(s) /\ conn[s].agent \in {"queued", "open"}
    <3>1. s = z /\ conn'[z].sent["agent"] = m \o a
      BY <2>3, <1>4, <1>9 DEF LiveDown
    <3>2. Down(s) = Joined(p, m, out)
      BY <3>1, <2>3 DEF Down, Joined
    <3>3. Down(s)' = Joined(p, m \o a, b)
      <4>1. conn'[s].agent \in {"queued", "open"} /\ conn'[s].sent["agent"] = m \o a
        BY <3>1, <2>3, <1>9
      <4>2. (IF s = serving' THEN rx_pending' ELSE <<>>) = p
        BY <3>1, <1>2
      <4>3. (IF LiveDown(s)' THEN out' ELSE <<>>) = b
        BY <2>1, <2>3, <1>8
      <4> HIDE DEF p, m
      <4> QED
        BY <4>1, <4>2, <4>3 DEF Down, Joined
    <3> HIDE DEF p, m
    <3>4. Joined(p, m \o a, b) = Joined(p, m, a \o b)
      <4>1. a \in Seq(Token) /\ b \in Seq(Token)
        BY <1>7
      <4> QED
        BY <4>1, <1>6, Written
    <3> QED
      BY <2>1, <3>2, <3>3, <3>4, <1>7
  <2> QED
    BY <2>2, <2>3
<1>12. Types'
  BY <1>1, <1>2, <1>3, <1>7, <1>8, <1>9 DEF Types
<1>13. Shape'
  BY <1>1, <1>2, <1>3, <1>4, <1>9, <1>10 DEF Shape, Queued
<1>14. DownInv'
  <2>1. \A s, t \in Slot : Before(s, t)' => Before(s, t)
    BY <1>1, <1>2 DEF Before, Queued
  <2>2. \A s \in Slot : /\ Framed(Down(s)') /\ Frames(Down(s)') \subseteq Frames(Down(s))
                        /\ LiveDown(s)' => Even(Down(s)')
    BY <1>3, <1>11 DEF DownInv, Streams
  <2> QED
    BY <2>1, <2>2, <1>1, <1>2, <1>3, DownKept
<1>15. UpInv'
  <2>1. LiveUp' = LiveUp /\ Up' = Up
    BY <1>1, <1>2, <1>4, <1>9 DEF LiveUp, Up
  <2> QED
    BY <2>1, <1>1, <1>2, <1>3, UpKept DEF UpInv
<1> QED
  BY <1>12, <1>13, <1>14, <1>15 DEF LinkInv

\* The queue is swapped out behind what the open connection still carries.
LEMMA StayConnectedStep ==
    ASSUME LinkInv, AgentIdle, Report, StayConnected
    PROVE  LinkInv'
<1>1. /\ reported' = reported /\ telemetry' = 0 /\ cpc = "loop"
      /\ cpc' \in {"poll", "send"} /\ (co_pending # <<>> => cpc' = "send")
      /\ out' = co_pending /\ co_pending' = <<>>
      /\ UNCHANGED <<conn, backlog, co_running, tether_fd, co_rx, last_state>>
  BY DEF Report, StayConnected, Drain, GoTo, wireVars
<1>2. UNCHANGED <<apc, serving, rx_pending, tx_pending, line, beats, issued, dispatched>>
  BY DEF AgentIdle, agentVars
<1>3. Types /\ Shape /\ DownInv /\ UpInv
  BY DEF LinkInv
<1>4. out = <<>> /\ co_pending \in Seq(Token) /\ Framed(co_pending) /\ Even(co_pending)
  BY <1>1, <1>3 DEF Shape, Types, DownInv, Pending
<1>5. PICK z \in Slot : z = tether_fd /\ z # 0 /\ conn[z].ground = "open"
  BY <1>3, InUse DEF StayConnected, Shape
<1>6. Types'
  BY <1>1, <1>2, <1>3, <1>4 DEF Types
<1>7. Shape'
  BY <1>1, <1>2, <1>3 DEF Shape, Queued
<1>8. \A s \in Slot : /\ LiveDown(s)' = LiveDown(s)
                      /\ \/ Down(s)' = Down(s)
                         \/ /\ Down(s)' = Down(s) \o co_pending /\ s = z /\ LiveDown(s)
                            /\ conn[s].agent \in {"queued", "open"}
  <2> SUFFICES ASSUME NEW s \in Slot
               PROVE  /\ LiveDown(s)' = LiveDown(s)
                      /\ \/ Down(s)' = Down(s)
                         \/ /\ Down(s)' = Down(s) \o co_pending /\ s = z /\ LiveDown(s)
                            /\ conn[s].agent \in {"queued", "open"}
    OBVIOUS
  <2>1. LiveDown(s)' = LiveDown(s)
    BY <1>1 DEF LiveDown
  <2>2. CASE ~LiveDown(s) \/ conn[s].agent \notin {"queued", "open"}
    BY <2>1, <2>2, <1>1, <1>2 DEF Down
  <2>3. CASE LiveDown(s) /\ conn[s].agent \in {"queued", "open"}
    <3> DEFINE c == (IF s = serving THEN rx_pending ELSE <<>>) \o conn[s].sent["agent"]
    <3>1. Down(s) = c \o <<>> /\ Down(s)' = c \o co_pending
      BY <2>1, <2>3, <1>1, <1>2, <1>4 DEF Down
    <3>2. c \in Seq(Token)
      BY <1>3, DownParts, Concat
    <3> HIDE DEF c
    <3>3. Down(s) = c
      BY <3>1, <3>2, NoTail
    <3> QED
      BY <3>1, <3>3, <2>1, <2>3, <1>5 DEF LiveDown
  <2> QED
    BY <2>2, <2>3
<1>9. \A s \in Slot : /\ Framed(Down(s)') /\ (LiveDown(s)' => Even(Down(s)'))
                      /\ Frames(Down(s)') \subseteq Frames(Down(s)) \cup Frames(co_pending)
  <2> SUFFICES ASSUME NEW s \in Slot
               PROVE  /\ Framed(Down(s)') /\ (LiveDown(s)' => Even(Down(s)'))
                      /\ Frames(Down(s)') \subseteq Frames(Down(s)) \cup Frames(co_pending)
    OBVIOUS
  <2>1. CASE Down(s)' = Down(s)
    BY <2>1, <1>3, <1>8 DEF DownInv, Streams
  <2>2. CASE Down(s)' = Down(s) \o co_pending /\ LiveDown(s)
    <3> DEFINE d == Down(s)
    <3>1. d \in Seq(Token) /\ Framed(d) /\ Even(d) /\ Below(d, co_pending)
      BY <2>2, <1>3, DownParts DEF DownInv, Streams
    <3> HIDE DEF d
    <3>2. /\ Framed(d \o co_pending) /\ Even(d \o co_pending)
          /\ Frames(d \o co_pending) = Frames(d) \cup Frames(co_pending)
      BY <3>1, <1>4, FramedConcat, FramesConcat
    <3> QED
      BY <3>2, <2>2 DEF d
  <2> QED
    BY <2>1, <2>2, <1>8
<1>10. Frames(co_pending') = {}
  BY <1>1, EmptyFramed
<1>11. Streams'
  <2>1. ASSUME NEW s \in Slot, NEW t \in Slot, Before(s, t)'
        PROVE  Below(Down(s)', Down(t)')
    <3>1. Before(s, t)
      BY <2>1, <1>1, <1>2 DEF Before, Queued
    <3>2. Below(Down(s), Down(t)) /\ Below(Down(s), co_pending)
      BY <3>1, <1>3 DEF DownInv, Streams
    <3>3. CASE Down(s)' = Down(s)
      BY <3>2, <3>3, <1>9 DEF Below
    <3>4. CASE s = z /\ conn[s].agent = "open"
      <4>1. backlog = <<>>
        BY <3>4, <1>3, <1>5 DEF Shape
      <4> QED
        BY <4>1, <3>1 DEF Before, Queued
    <3>5. CASE s = z /\ conn[s].agent = "queued"
      <4>1. backlog[Len(backlog)] = s /\ s # serving
        BY <3>5, <1>3, <1>5 DEF Shape
      <4>2. PICK i \in 1..Len(backlog), j \in 1..Len(backlog) : i < j /\ backlog[i] = s /\ backlog[j] = t
        BY <4>1, <3>1 DEF Before
      <4>3. Len(backlog) \in 1..Len(backlog) /\ i # Len(backlog)
        BY <4>2, <1>3 DEF Types
      <4> QED
        BY <4>1, <4>2, <4>3, <1>3 DEF Shape
    <3> QED
      BY <3>3, <3>4, <3>5, <1>8
  <2>2. \A s \in Slot : Below(Down(s)', co_pending') /\ \A f \in Frames(Down(s)') : f <= issued'
    BY <1>2, <1>3, <1>9, <1>10 DEF DownInv, Streams, Pending, Below
  <2> QED
    BY <2>1, <2>2, <1>9 DEF Streams
<1>12. Pending'
  BY <1>1, <1>10, EmptyFramed DEF Pending
<1>13. Delivered'
  <2>1. Handled' = Handled
    BY <1>2 DEF Handled
  <2>2. \A f \in Handled' : /\ f <= issued' /\ \A g \in Frames(co_pending') : f < g
                            /\ \A s \in Slot : \A g \in Frames(Down(s)') : f < g
    BY <2>1, <1>2, <1>3, <1>9, <1>10 DEF DownInv, Delivered
  <2> QED
    BY <2>2, <1>2, <1>3 DEF DownInv, Delivered
<1>14. UpInv'
  <2>1. LiveUp' = LiveUp /\ Up' = Up
    BY <1>1, <1>2 DEF LiveUp, Up
  <2> QED
    BY <2>1, <1>1, <1>2, <1>3, UpKept DEF UpInv
<1> QED
  BY <1>6, <1>7, <1>11, <1>12, <1>13, <1>14 DEF LinkInv, DownInv

\* A new connection is the last the agent reads, and starts with the queue.
LEMMA DialSucceedsStep ==
    ASSUME LinkInv, AgentIdle, Report, DialSucceeds
    PROVE  LinkInv'
<1>1. /\ reported' = reported /\ telemetry' = 0 /\ cpc = "dial"
      /\ cpc' \in {"poll", "send"} /\ (co_pending # <<>> => cpc' = "send")
      /\ out' = co_pending /\ co_pending' = <<>> /\ co_rx' = <<>>
      /\ UNCHANGED <<co_running, last_state>>
  BY DEF Report, DialSucceeds, Drain, GoTo
<1>2. UNCHANGED <<apc, serving, rx_pending, tx_pending, line, beats, issued, dispatched>>
  BY DEF AgentIdle, agentVars
<1>3. Types /\ Shape /\ DownInv /\ UpInv
  BY DEF LinkInv
<1>4. tether_fd = 0 /\ co_pending \in Seq(Token) /\ Framed(co_pending) /\ Even(co_pending)
  BY <1>1, <1>3 DEF Shape, Types, DownInv, Pending
<1>5. PICK z \in Slot : Open(z) /\ tether_fd' = z
  BY DEF DialSucceeds
<1>6. /\ conn' \in [Slot -> Conn] /\ \A t \in Slot : t # z => conn'[t] = conn[t]
      /\ conn[z] = NoConn
      /\ conn'[z].ground = "open" /\ conn'[z].agent = "queued" /\ conn'[z].cut = FALSE
      /\ conn'[z].sent["ground"] = <<>> /\ conn'[z].sent["agent"] = <<>>
      /\ backlog' = Append(backlog, z)
  BY <1>3, <1>5, OnOpen DEF Types
<1>7. conn[z].agent = "none" /\ z # serving /\ ~Queued(z) /\ z # 0
  BY <1>3, <1>6, NoConnConn, InUse DEF Shape
<1>8. /\ backlog \in Seq(Slot) /\ Len(backlog) \in Nat
      /\ backlog' \in Seq(Slot) /\ Len(backlog') = Len(backlog) + 1 /\ backlog'[Len(backlog')] = z
      /\ \A i \in 1..Len(backlog) : backlog'[i] = backlog[i] /\ backlog[i] # z
  <2>1. backlog \in Seq(Slot)
    BY <1>3 DEF Types
  <2>2. \A i \in 1..Len(backlog) : backlog[i] # z
    BY <1>7 DEF Queued
  <2> QED
    BY <2>1, <2>2, <1>6, AppendProperties
<1>9. \A i \in 1..Len(backlog') : i \in 1..Len(backlog) \/ i = Len(backlog')
  BY <1>8
<1>10. \A s \in Slot : Queued(s)' <=> Queued(s) \/ s = z
  BY <1>8, <1>9 DEF Queued
<1>11. Types'
  BY <1>1, <1>2, <1>3, <1>4, <1>5, <1>6, <1>8, WireConstants DEF Types, Slot
<1>12. Shape'
  <2>1. \A i, j \in 1..Len(backlog') : backlog'[i] = backlog'[j] => i = j
    BY <1>3, <1>8, <1>9 DEF Shape
  <2>2. \A s \in Slot : /\ conn'[s].agent = "queued" <=> Queued(s)'
                        /\ conn'[s].agent = "open" <=> s = serving'
    BY <1>2, <1>3, <1>6, <1>7, <1>10 DEF Shape
  <2>3. \A s \in Slot : /\ conn'[s].ground = "open" <=> s = tether_fd'
                        /\ conn'[s].ground = "open" => conn'[s].agent # "none"
                        /\ conn'[s].agent = "queued" => conn'[s].sent["ground"] = <<>>
    BY <1>3, <1>4, <1>5, <1>6, InUse DEF Shape
  <2>4. \A s \in Slot : (s = tether_fd' /\ conn'[s].agent = "queued")
                        => backlog'[Len(backlog')] = s /\ co_rx' = <<>>
    BY <1>1, <1>5, <1>8
  <2>5. \A s \in Slot : ~(s = tether_fd' /\ conn'[s].agent = "open")
    BY <1>5, <1>6
  <2> QED
    BY <2>1, <2>2, <2>3, <2>4, <2>5, <1>1, <1>2, <1>3 DEF Shape
<1>13. \A s \in Slot : /\ s # z => Down(s)' = Down(s) /\ ~LiveDown(s)'
                       /\ s = z => Down(s)' = co_pending
  <2> SUFFICES ASSUME NEW s \in Slot
               PROVE  /\ s # z => Down(s)' = Down(s) /\ ~LiveDown(s)'
                      /\ s = z => Down(s)' = co_pending
    OBVIOUS
  <2>1. CASE s # z
    <3>1. ~LiveDown(s) /\ ~LiveDown(s)'
      BY <2>1, <1>4, <1>5, <1>3, InUse DEF LiveDown
    <3> QED
      BY <2>1, <3>1, <1>2, <1>6 DEF Down
  <2>2. CASE s = z
    <3>1. LiveDown(s)'
      BY <2>2, <1>5, <1>6 DEF LiveDown
    <3>2. Down(s)' = (<<>> \o <<>>) \o co_pending
      BY <2>2, <3>1, <1>1, <1>2, <1>6, <1>7 DEF Down
    <3>3. (<<>> \o <<>>) \o co_pending = co_pending
      <4>1. <<>> \in Seq(Token)
        OBVIOUS
      <4>2. <<>> \o <<>> = <<>>
        BY <4>1, NoTail
      <4>3. <<>> \o co_pending = co_pending
        BY <1>4, NoTail
      <4> QED
        BY <4>2, <4>3
    <3> QED
      BY <2>2, <3>2, <3>3
  <2> QED
    BY <2>1, <2>2
<1>14. Frames(co_pending') = {}
  BY <1>1, EmptyFramed
<1>15. Streams'
  <2>1. \A s \in Slot : Framed(Down(s)') /\ (LiveDown(s)' => Even(Down(s)'))
    BY <1>3, <1>4, <1>13 DEF DownInv, Streams
  <2>2. ASSUME NEW s \in Slot, NEW t \in Slot, Before(s, t)'
        PROVE  Below(Down(s)', Down(t)')
    <3>1. s # z
      <4>1. CASE s = serving'
        BY <4>1, <1>2, <1>7
      <4>2. ASSUME NEW i \in 1..Len(backlog'), NEW j \in 1..Len(backlog'), i < j, backlog'[i] = s
            PROVE  s # z
        <5>1. i \in 1..Len(backlog)
          BY <4>2, <1>8, <1>9
        <5> QED
          BY <5>1, <4>2, <1>8
      <4> QED
        BY <2>2, <4>1, <4>2 DEF Before
    <3>2. CASE t = z
      BY <3>1, <3>2, <1>3, <1>13 DEF DownInv, Streams
    <3>3. CASE t # z
      <4>1. Before(s, t)
        <5>1. CASE s = serving' /\ Queued(t)'
          BY <5>1, <3>3, <1>2, <1>10 DEF Before
        <5>2. ASSUME NEW i \in 1..Len(backlog'), NEW j \in 1..Len(backlog'), i < j,
                     backlog'[i] = s, backlog'[j] = t
              PROVE  Before(s, t)
          <6>1. i \in 1..Len(backlog) /\ j \in 1..Len(backlog)
            BY <5>2, <3>1, <3>3, <1>8, <1>9
          <6> QED
            BY <6>1, <5>2, <1>8 DEF Before
        <5> QED
          BY <2>2, <5>1, <5>2 DEF Before
      <4> QED
        BY <4>1, <3>1, <3>3, <1>3, <1>13 DEF DownInv, Streams
    <3> QED
      BY <3>2, <3>3
  <2>3. \A s \in Slot : Below(Down(s)', co_pending') /\ \A f \in Frames(Down(s)') : f <= issued'
    BY <1>2, <1>3, <1>13, <1>14 DEF DownInv, Streams, Pending, Below
  <2> QED
    BY <2>1, <2>2, <2>3 DEF Streams
<1>16. Pending'
  BY <1>1, <1>14, EmptyFramed DEF Pending
<1>17. Delivered'
  <2>1. Handled' = Handled
    BY <1>2 DEF Handled
  <2>2. \A f \in Handled' : /\ f <= issued' /\ \A g \in Frames(co_pending') : f < g
                            /\ \A s \in Slot : \A g \in Frames(Down(s)') : f < g
    BY <2>1, <1>2, <1>3, <1>13, <1>14 DEF DownInv, Delivered
  <2> QED
    BY <2>2, <1>2, <1>3 DEF DownInv, Delivered
<1>18. UpInv'
  <2>1. ~LiveUp' /\ tether_fd' # 0
    BY <1>2, <1>5, <1>7 DEF LiveUp
  <2>2. Up' = (<<>> \o <<>>) \o <<>>
    BY <2>1, <1>1, <1>5, <1>6 DEF Up
  <2>3. (<<>> \o <<>>) \o <<>> = <<>>
    <3>1. <<>> \in Seq(Token)
      OBVIOUS
    <3> QED
      BY <3>1, NoTail
  <2> QED
    BY <2>1, <2>2, <2>3, <1>1, <1>2, <1>3, EmptyFramed, UpKept
<1> QED
  BY <1>11, <1>12, <1>15, <1>16, <1>17, <1>18 DEF LinkInv, DownInv

LEMMA OperatorStep ==
    ASSUME LinkInv, Operator, UNCHANGED agentVars
    PROVE  LinkInv'
<1> DEFINE t == Tokens(issued + 1)
<1>1. /\ issued' = issued + 1 /\ co_pending' = co_pending \o t /\ telemetry' = 0
      /\ UNCHANGED <<conn, backlog, co_running, cpc, tether_fd, out, co_rx, last_state, dispatched, reported>>
  BY DEF Operator, SendCommand, wireVars
<1>2. UNCHANGED <<apc, serving, rx_pending, tx_pending, line, beats>>
  BY DEF agentVars
<1>3. Types /\ Shape /\ DownInv /\ UpInv
  BY DEF LinkInv
<1>4. issued \in Nat /\ issued + 1 \in Nat /\ co_pending \in Seq(Token)
  BY <1>3 DEF Types
<1>5. t \in Seq(Token) /\ Framed(t) /\ Even(t) /\ Frames(t) = {issued + 1}
  BY <1>4, TokensFramed
<1> HIDE DEF t
<1>6. \A f \in Frames(co_pending) : f \in Nat /\ f <= issued
  BY <1>3, <1>4, FramesNat DEF DownInv, Pending
<1>7. Framed(co_pending) /\ Even(co_pending) /\ Below(co_pending, t)
  BY <1>3, <1>4, <1>5, <1>6 DEF DownInv, Pending, Below
<1>8. /\ co_pending' \in Seq(Token) /\ Framed(co_pending') /\ Even(co_pending')
      /\ Frames(co_pending') = Frames(co_pending) \cup {issued + 1}
  BY <1>1, <1>4, <1>5, <1>7, Concat, FramedConcat, FramesConcat
<1>9. \A s \in Slot : Down(s)' = Down(s) /\ LiveDown(s)' = LiveDown(s)
  BY <1>1, <1>2 DEF Down, LiveDown
<1>10. \A s \in Slot : \A f \in Frames(Down(s)) : f \in Nat /\ f <= issued
  <2>1. \A s \in Slot : Frames(Down(s)) \subseteq Nat
    BY <1>3, DownParts, FramesNat
  <2> QED
    BY <2>1, <1>3 DEF DownInv, Streams
<1>11. \A f \in Handled : f \in Nat /\ f <= issued
  <2>1. Frames(line) \subseteq Nat
    BY <1>3, FramesNat DEF Types
  <2>2. \A i \in 1..Len(dispatched) : dispatched[i] \in Nat
    <3>1. dispatched \in Seq(Nat)
      BY <1>3 DEF Types
    <3> QED
      BY <3>1, ElementOfSeq
  <2>3. Handled \subseteq Nat
    BY <2>1, <2>2 DEF Handled
  <2> QED
    BY <2>3, <1>3 DEF DownInv, Delivered
<1>12. Types'
  BY <1>1, <1>2, <1>3, <1>4, <1>8 DEF Types
<1>13. Shape'
  BY <1>1, <1>2, <1>3 DEF Shape, Queued
<1>14. Streams'
  <2>1. \A s \in Slot : Framed(Down(s)') /\ (LiveDown(s)' => Even(Down(s)'))
    BY <1>3, <1>9 DEF DownInv, Streams
  <2>2. \A s, u \in Slot : Before(s, u)' => Below(Down(s)', Down(u)')
    <3>1. \A s, u \in Slot : Before(s, u)' = Before(s, u)
      BY <1>1, <1>2 DEF Before, Queued
    <3> QED
      BY <3>1, <1>3, <1>9 DEF DownInv, Streams
  <2>3. \A s \in Slot : Below(Down(s)', co_pending') /\ \A f \in Frames(Down(s)') : f <= issued'
    BY <1>1, <1>3, <1>4, <1>8, <1>9, <1>10 DEF DownInv, Streams, Below
  <2> QED
    BY <2>1, <2>2, <2>3 DEF Streams
<1>15. Pending'
  BY <1>1, <1>4, <1>6, <1>8 DEF Pending
<1>16. Delivered'
  <2>1. Handled' = Handled
    BY <1>1, <1>2 DEF Handled
  <2>2. \A f \in Handled' : /\ f <= issued' /\ \A g \in Frames(co_pending') : f < g
                            /\ \A s \in Slot : \A g \in Frames(Down(s)') : f < g
    BY <2>1, <1>1, <1>3, <1>4, <1>8, <1>9, <1>11 DEF DownInv, Delivered
  <2> QED
    BY <2>2, <1>1, <1>2, <1>3 DEF DownInv, Delivered
<1>17. UpInv'
  <2>1. LiveUp' = LiveUp /\ Up' = Up
    BY <1>1, <1>2 DEF LiveUp, Up
  <2> QED
    BY <2>1, <1>1, <1>2, <1>3, UpKept DEF UpInv
<1> QED
  BY <1>12, <1>13, <1>14, <1>15, <1>16, <1>17 DEF LinkInv, DownInv

-----------------------------------------------------------------------------
(* Steps of the network.                                                   *)

LEMMA CutStep ==
    ASSUME LinkInv, NEW z \in Slot, Cut(z), UNCHANGED <<agentVars, coordinatorVars, issued, dispatched, reported>>
    PROVE  LinkInv'
<1>1. /\ UNCHANGED <<apc, serving, rx_pending, tx_pending, line, beats, issued, dispatched, reported>>
      /\ UNCHANGED <<co_running, cpc, tether_fd, co_pending, out, co_rx, last_state, telemetry>>
  BY DEF agentVars, coordinatorVars
<1>2. Types /\ Shape /\ DownInv /\ UpInv
  BY DEF LinkInv
<1>3. /\ conn' \in [Slot -> Conn]
      /\ \A t \in Slot : /\ conn'[t].ground = conn[t].ground /\ conn'[t].agent = conn[t].agent
                         /\ t # z => conn'[t] = conn[t]
      /\ conn'[z].cut
      /\ \A e \in End : \E n \in 0..Len(conn[z].sent[e]) :
            conn'[z].sent[e] = SubSeq(conn[z].sent[e], 1, n)
      /\ backlog' = backlog
  BY <1>2, OnCut DEF Types
<1>4. PICK i \in 0..Len(conn[z].sent["ground"]) :
        conn'[z].sent["ground"] = SubSeq(conn[z].sent["ground"], 1, i)
  BY <1>3 DEF End
<1>5. PICK j \in 0..Len(conn[z].sent["agent"]) :
        conn'[z].sent["agent"] = SubSeq(conn[z].sent["agent"], 1, j)
  BY <1>3 DEF End
<1>6. Types'
  BY <1>1, <1>2, <1>3 DEF Types
<1>7. Shape'
  <2>1. conn[z].sent["ground"] = <<>> => conn'[z].sent["ground"] = <<>>
    BY <1>4
  <2>2. \A s \in Slot : conn'[s].agent = "queued" => conn'[s].sent["ground"] = <<>>
    BY <2>1, <1>2, <1>3 DEF Shape
  <2> QED
    BY <2>2, <1>1, <1>2, <1>3 DEF Shape, Queued
<1>8. DownInv'
  <2>1. \A s \in Slot : s # z => Down(s)' = Down(s) /\ LiveDown(s)' = LiveDown(s)
    BY <1>1, <1>3 DEF Down, LiveDown
  <2>2. ~LiveDown(z)' /\ Framed(Down(z)') /\ Frames(Down(z)') \subseteq Frames(Down(z))
    <3>1. ~LiveDown(z)'
      BY <1>3 DEF LiveDown
    <3>2. CASE conn[z].agent \in {"queued", "open"}
      <4> DEFINE p == IF z = serving THEN rx_pending ELSE <<>>
                 m == conn[z].sent["agent"]
                 q == IF LiveDown(z) THEN out ELSE <<>>
      <4>1. p \in Seq(Token) /\ m \in Seq(Token) /\ q \in Seq(Token)
        BY <1>2, DownParts
      <4>2. Down(z) = (p \o m) \o q /\ Framed(Down(z))
        BY <3>2, <1>2 DEF Down, DownInv, Streams
      <4>3. Down(z)' = (p \o SubSeq(m, 1, j)) \o <<>>
        BY <3>1, <3>2, <1>1, <1>3, <1>5 DEF Down
      <4>4. j \in 0..Len(m)
        BY <1>5
      <4> HIDE DEF p, m, q
      <4> QED
        BY <3>1, <4>1, <4>2, <4>3, <4>4, CutShort
    <3>3. CASE conn[z].agent \notin {"queued", "open"}
      BY <3>1, <3>3, <1>3, EmptyFramed DEF Down
    <3> QED
      BY <3>2, <3>3
  <2>3. \A s, t \in Slot : Before(s, t)' => Before(s, t)
    BY <1>1, <1>3 DEF Before, Queued
  <2>4. \A s \in Slot : /\ Framed(Down(s)') /\ Frames(Down(s)') \subseteq Frames(Down(s))
                        /\ LiveDown(s)' => Even(Down(s)')
    BY <2>1, <2>2, <1>2 DEF DownInv, Streams
  <2> QED
    BY <2>3, <2>4, <1>1, <1>2, DownKept
<1>9. UpInv'
  <2>1. CASE tether_fd # z
    <3>1. LiveUp' = LiveUp /\ Up' = Up
      BY <2>1, <1>1, <1>2, <1>3, InUse DEF LiveUp, Up
    <3> QED
      BY <3>1, <1>1, <1>2, UpKept DEF UpInv
  <2>2. CASE tether_fd = z
    <3> DEFINE m == conn[z].sent["ground"]
               q == IF LiveUp THEN tx_pending ELSE <<>>
    <3>1. m \in Seq(Token) /\ q \in Seq(Token) /\ co_rx \in Seq(Token) /\ z # 0
      BY <2>2, <1>2, UpParts, InUse DEF Types
    <3>2. ~LiveUp'
      BY <2>2, <1>1, <1>3 DEF LiveUp
    <3>3. Up = (co_rx \o m) \o q /\ Framed(Up)
      BY <2>2, <3>1, <1>2 DEF Up, UpInv
    <3>4. Up' = (co_rx \o SubSeq(m, 1, i)) \o <<>>
      BY <2>2, <3>1, <3>2, <1>1, <1>4 DEF Up
    <3>5. i \in 0..Len(m)
      BY <1>4
    <3> HIDE DEF m, q
    <3>6. Framed(Up') /\ Frames(Up') \subseteq Frames(Up)
      BY <3>1, <3>3, <3>4, <3>5, CutShort
    <3> QED
      BY <3>2, <3>6, <1>1, <1>2, UpKept
  <2> QED
    BY <2>1, <2>2
<1> QED
  BY <1>6, <1>7, <1>8, <1>9 DEF LinkInv

LEMMA NoticeStep ==
    ASSUME LinkInv, NEW z \in Slot, NEW e \in End, Notice(z, e),
           UNCHANGED <<agentVars, coordinatorVars, issued, dispatched, reported>>
    PROVE  LinkInv'
<1>1. /\ UNCHANGED <<apc, serving, rx_pending, tx_pending, line, beats, issued, dispatched, reported>>
      /\ UNCHANGED <<co_running, cpc, tether_fd, co_pending, out, co_rx, last_state, telemetry>>
  BY DEF agentVars, coordinatorVars
<1>2. Types /\ Shape /\ DownInv /\ UpInv
  BY DEF LinkInv
<1>3. /\ conn' \in [Slot -> Conn]
      /\ \A t \in Slot : /\ conn'[t].ground = conn[t].ground /\ conn'[t].agent = conn[t].agent
                         /\ conn'[t].cut = conn[t].cut /\ conn'[t].sent = conn[t].sent
      /\ backlog' = backlog
  BY <1>2, OnNotice DEF Types
<1>4. Types'
  BY <1>1, <1>2, <1>3 DEF Types
<1>5. Shape'
  BY <1>1, <1>2, <1>3 DEF Shape, Queued
<1>6. DownInv'
  <2>1. \A s \in Slot : Down(s)' = Down(s) /\ LiveDown(s)' = LiveDown(s)
    BY <1>1, <1>3 DEF Down, LiveDown
  <2>2. \A s, t \in Slot : Before(s, t)' => Before(s, t)
    BY <1>1, <1>3 DEF Before, Queued
  <2>3. \A s \in Slot : /\ Framed(Down(s)') /\ Frames(Down(s)') \subseteq Frames(Down(s))
                        /\ LiveDown(s)' => Even(Down(s)')
    BY <2>1, <1>2 DEF DownInv, Streams
  <2> QED
    BY <2>2, <2>3, <1>1, <1>2, DownKept
<1>7. UpInv'
  <2>1. LiveUp' = LiveUp /\ Up' = Up
    BY <1>1, <1>2, <1>3, InUse DEF LiveUp, Up
  <2> QED
    BY <2>1, <1>1, <1>2, UpKept DEF UpInv
<1> QED
  BY <1>4, <1>5, <1>6, <1>7 DEF LinkInv

-----------------------------------------------------------------------------
(* The theorems.                                                           *)

LEMMA InitLinkInv == LinkInit => LinkInv
<1> SUFFICES ASSUME LinkInit PROVE LinkInv
  OBVIOUS
<1>1. /\ conn = [s \in Slot |-> NoConn] /\ backlog = <<>>
      /\ serving = 0 /\ apc = "off" /\ rx_pending = <<>> /\ tx_pending = <<>> /\ line = <<>> /\ beats = 0
      /\ co_running = FALSE /\ cpc = "off" /\ tether_fd = 0 /\ co_pending = <<>> /\ out = <<>>
      /\ co_rx = <<>> /\ last_state = 0 /\ telemetry = 0
      /\ issued = 0 /\ dispatched = <<>> /\ reported = <<>>
  BY DEF LinkInit, WireInit, AgentInit, CoordinatorInit
<1>2. conn \in [Slot -> Conn] /\ \A s \in Slot : conn[s] = NoConn
  BY <1>1, NoConnConn
<1>3. Types
  <2>1. <<>> \in Seq(Token) /\ <<>> \in Seq(Slot) /\ <<>> \in Seq(Nat)
    OBVIOUS
  <2>2. 0 \in 0..Slots
    BY WireConstants
  <2> QED
    BY <1>1, <1>2, <2>1, <2>2 DEF Types
<1>4. Shape
  BY <1>1, <1>2, NoConnConn, <1>3, InUse DEF Shape, Queued
<1>5. \A s \in Slot : Down(s) = <<>>
  BY <1>2, NoConnConn DEF Down
<1>6. \A s, t \in Slot : ~Before(s, t)
  BY <1>1 DEF Before, Queued
<1>7. Streams
  BY <1>1, <1>5, <1>6, EmptyFramed DEF Streams, Below
<1>8. Pending
  BY <1>1, EmptyFramed DEF Pending
<1>9. Delivered
  BY <1>1, EmptyFramed DEF Delivered, Handled, Increasing
<1>10. UpInv
  BY <1>1, EmptyFramed DEF UpInv, Up, LiveUp, Increasing
<1> QED
  BY <1>3, <1>4, <1>7, <1>8, <1>9, <1>10 DEF LinkInv, DownInv

LEMMA NextLinkInv == LinkInv /\ [Next]_linkVars => LinkInv'
<1> SUFFICES ASSUME LinkInv, [Next]_linkVars PROVE LinkInv'
  OBVIOUS
<1>1. CASE AgentStep
  <2>1. GroundIdle /\ Dispatch
    BY <1>1 DEF AgentStep, GroundIdle, Dispatch
  <2>2. CASE Accept
    BY <2>1, <2>2, AcceptStep
  <2>3. CASE ReceiveLine
    BY <2>1, <2>3, ReceiveLineStep
  <2>4. CASE ParseLine
    BY <2>1, <2>4, ParseLineStep
  <2>5. CASE ReceiveBytes
    BY <2>1, <2>5, ReceiveBytesStep
  <2>6. CASE FinishPass
    BY <2>1, <2>6, FinishPassStep
  <2>7. CASE CloseSession
    BY <2>1, <2>7, CloseSessionStep
  <2>8. CASE StartAgent \/ AcceptEnds \/ Pass \/ ReceiveNothing \/ AgentTick
    BY <2>1, <2>8, IdleAgent
  <2> QED
    BY <1>1, <2>2, <2>3, <2>4, <2>5, <2>6, <2>7, <2>8 DEF AgentStep, WorkerStep
<1>2. CASE Operator /\ UNCHANGED agentVars
  BY <1>2, OperatorStep
<1>3. CASE CoordinatorStep /\ UNCHANGED agentVars
  <2>1. AgentIdle /\ Report
    BY <1>3 DEF CoordinatorStep, AgentIdle, Report
  <2>2. CASE StayConnected
    BY <2>1, <2>2, StayConnectedStep
  <2>3. CASE DialSucceeds
    BY <2>1, <2>3, DialSucceedsStep
  <2>4. CASE SendSome
    BY <2>1, <2>4, SendSomeStep
  <2>5. CASE PollBytes
    BY <2>1, <2>5, PollBytesStep
  <2>6. CASE ParseState
    BY <2>1, <2>6, ParseStateStep
  <2>7. CASE StopCoordinator \/ SendFails \/ PollGone \/ LoopEnds
    BY <2>1, <2>7, Closings
  <2>8. CASE StartCoordinator \/ DialBegins \/ DialFails \/ PollNothing \/ PollBadFd \/ ParseEnds
    BY <2>1, <2>8, IdleCoordinator
  <2> QED
    BY <1>3, <2>2, <2>3, <2>4, <2>5, <2>6, <2>7, <2>8 DEF CoordinatorStep, TetherWorker
<1>4. CASE NetworkStep
  BY <1>4, CutStep, NoticeStep DEF NetworkStep
<1>5. CASE UNCHANGED linkVars
  <2>1. /\ UNCHANGED <<conn, backlog, serving, rx_pending, tx_pending, line, beats, tether_fd,
                       co_pending, out, co_rx, last_state, issued, dispatched, reported>>
        /\ UNCHANGED <<apc, co_running, cpc, telemetry>>
    BY <1>5 DEF linkVars, wireVars, agentVars, coordinatorVars, historyVars
  <2>2. Types'
    BY <2>1 DEF LinkInv, Types
  <2>3. Shape'
    BY <2>1 DEF LinkInv, Shape, Queued
  <2> QED
    BY <2>1, <2>2, <2>3, NothingMoves DEF LinkInv
<1> QED
  BY <1>1, <1>2, <1>3, <1>4, <1>5 DEF Next

\* The stream invariant holds throughout (coordinator.cpp:412-540;
\* tether_agent.cpp:409-533).
THEOREM LinkInvariant == Spec => []LinkInv
  BY InitLinkInv, NextLinkInv, PTL DEF Spec

\* The coordinator's variables have their types, and the descriptor it holds
\* is that of a connection open at its end (coordinator.cpp:412-540).
THEOREM CoordinatorTypes == Spec => []CoordinatorTypeOK
<1>1. LinkInv => CoordinatorTypeOK
  <2> SUFFICES ASSUME LinkInv PROVE CoordinatorTypeOK
    OBVIOUS
  <2>1. tether_fd # 0 => conn[tether_fd].ground = "open"
    BY InUse DEF LinkInv, Shape
  <2> QED
    BY <2>1 DEF LinkInv, Types, Shape, CoordinatorTypeOK
<1> QED
  BY <1>1, LinkInvariant, PTL

\* Over any number of connections, cuts and retries the dispatcher sees the
\* operator's commands in order, none twice and none that was not issued
\* (coordinator.cpp:427-453, 482-498; tether_agent.cpp:449-480).
THEOREM CommandsStayInOrder == Spec => []CommandsInOrder
<1>1. LinkInv => CommandsInOrder
  <2> SUFFICES ASSUME LinkInv PROVE CommandsInOrder
    OBVIOUS
  <2>1. dispatched \in Seq(Nat)
    BY DEF LinkInv, Types
  <2>2. DOMAIN dispatched = 1..Len(dispatched)
    BY <2>1
  <2> QED
    BY <2>2 DEF LinkInv, DownInv, Delivered, Handled, CommandsInOrder
<1> QED
  BY <1>1, LinkInvariant, PTL

\* The ground is told of heartbeats in the order they were produced, each at
\* most once, and its snapshot is the newest of them (coordinator.cpp:511-537;
\* tether_agent.cpp:482-511).
THEOREM TelemetryStaysInOrder == Spec => []TelemetryInOrder
<1>1. LinkInv => TelemetryInOrder
  BY DEF LinkInv, UpInv, TelemetryInOrder
<1> QED
  BY <1>1, LinkInvariant, PTL

\* Every line either end takes off its buffer is one frame, whatever was lost
\* with the connections before (coordinator.cpp:476; tether_agent.cpp:449-452).
THEOREM LinesStayWhole == Spec => []NoSplicedLine
<1>1. LinkInv => NoSplicedLine
  <2> SUFFICES ASSUME LinkInv PROVE NoSplicedLine
    OBVIOUS
  <2>1. line # <<>> => Whole(line)
    BY DEF LinkInv, DownInv, Delivered
  <2>2. co_rx \in Seq(Token) /\ Framed(co_rx)
    <3>1. Types /\ Framed(Up) /\ co_rx \in Seq(Token)
      BY DEF LinkInv, UpInv, Types
    <3>2. CASE tether_fd = 0
      BY <3>1, <3>2 DEF Up
    <3>3. CASE tether_fd # 0
      <4> DEFINE m == conn[tether_fd].sent["ground"]
                 q == IF LiveUp THEN tx_pending ELSE <<>>
      <4>1. m \in Seq(Token) /\ q \in Seq(Token)
        BY <3>1, <3>3, UpParts
      <4>2. Up = (co_rx \o m) \o q
        BY <3>3 DEF Up
      <4> HIDE DEF m, q
      <4> QED
        BY <3>1, <4>1, <4>2, TailDropped
    <3> QED
      BY <3>1, <3>2, <3>3
  <2> QED
    BY <2>1, <2>2, FirstLine DEF NoSplicedLine
<1> QED
  BY <1>1, LinkInvariant, PTL
=============================================================================

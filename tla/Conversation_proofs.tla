--------------------------- MODULE Conversation_proofs ---------------------------
(***************************************************************************)
(* Theorems about Conversation, for any number of rounds and tool calls,    *)
(* any threshold and in any environment.                                    *)
(***************************************************************************)
EXTENDS Conversation, SequenceTheorems, WellFoundedInduction, TLAPS

USE ConversationAssumption DEF ConversationAssumption

\* The request for the tool calls of a round stands last in the turn, what is before
\* it can be sent, and each of its calls has a state.
RoundIsOpen ==
  \E h \in Seq(Messages), n \in 1..MaxCalls :
    /\ new = Append(h, Msg("calls", n)) /\ Paired(h)
    /\ res \in [1..n -> {"running", "done"}]

\* What a turn has produced so far can be sent, or will be when its round is closed.
TurnIsPaired ==
  /\ pc \in {"gen", "last", "append"} => Paired(new)
  /\ pc = "tools" => RoundIsOpen

\* What belongs to a turn, to a round or to a window is there only with it.
Working == pc \in {"gen", "tools", "last", "append"}
NothingLingers ==
  /\ ~resident => pc = "idle" /\ window = <<>>
  /\ ~Working => new = <<>> /\ iter = 0
  /\ Working => new # <<>>
  /\ pc # "tools" => res = <<>>
  /\ pc \in {"gen", "tools"} => iter < MaxIterations
  /\ pc = "compress" \/ tokens # "none" => window # <<>>

\* A round adds its request, its results and a message with images; the last one the
\* request for an answer.
PerRound == MaxCalls + 2
TurnIsShort ==
  /\ pc = "gen" => Len(new) <= 1 + iter * PerRound
  /\ pc \in {"tools", "last"} => Len(new) <= 2 + iter * PerRound
  /\ pc = "append" => Len(new) <= 3 + iter * PerRound

IInv == HistoryIsPaired /\ TurnIsPaired /\ NothingLingers /\ TurnIsShort

\* Without reports the estimate is all there is; once past the compression, the window
\* leaves room for a turn.
Quiet == /\ "usage" \notin env /\ "summary usage" \notin env
         /\ "bad reads" \notin env /\ "bad writes" \notin env
WindowFits ==
  Quiet => /\ tokens = "none"
           /\ Len(window) <= WindowMax /\ Len(disk) <= WindowMax
           /\ Working \/ pc = "prompt" => Len(window) <= WindowMax - TurnMax

-------------------------------------------------------------------------------
(* Histories.                                                              *)

LEMMA CountsAreNat ==
  ASSUME NEW s \in Seq(Messages)
  PROVE  \A i \in 1..Len(s) : s[i] \in Messages /\ s[i].n \in Nat
<1>1. \A i \in 1..Len(s) : s[i] \in Messages
  BY ElementOfSeq
<1>2. \A m \in Messages : m.n \in Nat
  BY DEF Messages
<1> QED
  BY <1>1, <1>2

\* What the API accepts stays acceptable when something acceptable follows it.
LEMMA PairedConcat ==
  ASSUME NEW s \in Seq(Messages), NEW t \in Seq(Messages), Paired(s), Paired(t)
  PROVE  Paired(s \o t)
<1> DEFINE u == s \o t
<1>1. /\ u \in Seq(Messages) /\ Len(u) = Len(s) + Len(t)
      /\ \A i \in 1..Len(u) : u[i] = IF i <= Len(s) THEN s[i] ELSE t[i - Len(s)]
  BY ConcatProperties
<1>2. /\ Len(s) \in Nat /\ Len(t) \in Nat
      /\ DOMAIN s = 1..Len(s) /\ DOMAIN t = 1..Len(t) /\ DOMAIN u = 1..Len(u)
  BY <1>1, LenProperties
<1>3. /\ \A i \in 1..Len(s) : s[i].n \in Nat
      /\ \A i \in 1..Len(t) : t[i].n \in Nat
  BY CountsAreNat
<1> HIDE DEF u
<1>4. ASSUME NEW i \in 1..Len(u), u[i].role = "calls"
      PROVE  /\ i + u[i].n <= Len(u)
             /\ \A k \in 1..u[i].n : u[i + k] = Msg("tool", k)
  <2>1. CASE i <= Len(s)
    <3>1. u[i] = s[i] /\ i \in 1..Len(s)
      BY <1>1, <1>2, <2>1
    <3>2. i + s[i].n <= Len(s) /\ \A k \in 1..s[i].n : s[i + k] = Msg("tool", k)
      BY <1>2, <1>4, <3>1 DEF Paired
    <3>3. ASSUME NEW k \in 1..u[i].n PROVE u[i + k] = Msg("tool", k)
      <4>1. i + k \in 1..Len(u) /\ i + k <= Len(s)
        BY <1>1, <1>2, <1>3, <3>1, <3>2
      <4> QED
        BY <1>1, <3>1, <3>2, <4>1
    <3> QED
      BY <1>1, <1>2, <1>3, <3>1, <3>2, <3>3
  <2>2. CASE i > Len(s)
    <3>2. u[i] = t[i - Len(s)] /\ i - Len(s) \in 1..Len(t)
      BY <1>1, <1>2, <2>2
    <3>1. /\ i - Len(s) + t[i - Len(s)].n <= Len(t)
          /\ \A k \in 1..t[i - Len(s)].n : t[i - Len(s) + k] = Msg("tool", k)
      BY <1>2, <1>4, <3>2 DEF Paired
    <3>3. ASSUME NEW k \in 1..u[i].n PROVE u[i + k] = Msg("tool", k)
      <4>1. i + k \in 1..Len(u) /\ ~(i + k <= Len(s)) /\ i + k - Len(s) = i - Len(s) + k
        BY <1>1, <1>2, <1>3, <2>2, <3>1, <3>2
      <4>2. t[i - Len(s) + k] = Msg("tool", k)
        BY <3>1, <3>2
      <4> QED
        BY <1>1, <4>1, <4>2
    <3> QED
      BY <1>1, <1>2, <1>3, <3>1, <3>2, <3>3
  <2> QED
    BY <1>2, <2>1, <2>2
<1>5. ASSUME NEW i \in 1..Len(u), u[i].role = "tool"
      PROVE  /\ u[i].n < i
             /\ u[i - u[i].n].role = "calls" /\ u[i - u[i].n].n >= u[i].n
  <2>1. CASE i <= Len(s)
    <3>0. i \in DOMAIN s /\ s[i].role = "tool"
      BY <1>1, <1>2, <1>5, <2>1
    <3>1. s[i].n < i /\ s[i - s[i].n].role = "calls" /\ s[i - s[i].n].n >= s[i].n
      BY <3>0 DEF Paired
    <3> QED
      BY <1>1, <1>2, <1>3, <2>1, <3>1
  <2>2. CASE i > Len(s)
    <3> DEFINE j == i - Len(s)
    <3>1. u[i] = t[j] /\ j \in 1..Len(t)
      BY <1>1, <1>2, <2>2
    <3>2. t[j].n < j /\ t[j - t[j].n].role = "calls" /\ t[j - t[j].n].n >= t[j].n
      BY <1>2, <1>5, <3>1 DEF Paired
    <3>3. /\ i - u[i].n \in 1..Len(u) /\ ~(i - u[i].n <= Len(s))
          /\ i - u[i].n - Len(s) = j - t[j].n
      BY <1>1, <1>2, <1>3, <2>2, <3>1, <3>2
    <3>4. u[i - u[i].n] = t[j - t[j].n]
      BY <1>1, <3>3
    <3> QED
      BY <1>2, <1>3, <3>1, <3>2, <3>4
  <2> QED
    BY <1>2, <2>1, <2>2
<1> QED
  BY <1>2, <1>4, <1>5 DEF Paired, u

\* A history may be cut before any message that is not a tool result.
LEMMA PairedSuffix ==
  ASSUME NEW s \in Seq(Messages), Paired(s), NEW a \in 1..Len(s) + 1,
         a <= Len(s) => s[a].role # "tool"
  PROVE  /\ SubSeq(s, a, Len(s)) \in Seq(Messages)
         /\ Len(SubSeq(s, a, Len(s))) = Len(s) - a + 1
         /\ Paired(SubSeq(s, a, Len(s)))
<1> DEFINE u == SubSeq(s, a, Len(s))
<1>1. /\ Len(s) \in Nat /\ DOMAIN s = 1..Len(s)
      /\ \A i \in 1..Len(s) : s[i] \in Messages /\ s[i].n \in Nat
  BY LenProperties, CountsAreNat
<1>2. /\ u \in Seq(Messages) /\ Len(u) = Len(s) - a + 1
      /\ \A i \in 1..Len(u) : u[i] = s[a + i - 1]
  <2>1. \A i \in a..Len(s) : s[i] \in Messages
    BY <1>1
  <2>2. /\ u \in Seq(Messages)
        /\ Len(u) = IF a <= Len(s) THEN Len(s) - a + 1 ELSE 0
        /\ \A i \in 1..Len(s) - a + 1 : u[i] = s[a + i - 1]
    BY <1>1, <2>1, SubSeqProperties
  <2> QED
    BY <1>1, <2>2
<1>3. DOMAIN u = 1..Len(u)
  BY <1>2, LenProperties
<1> HIDE DEF u
<1>4. ASSUME NEW i \in 1..Len(u), u[i].role = "calls"
      PROVE  /\ i + u[i].n <= Len(u)
             /\ \A k \in 1..u[i].n : u[i + k] = Msg("tool", k)
  <2> DEFINE j == a + i - 1
  <2>0. j \in 1..Len(s)
    BY <1>1, <1>2
  <2>1. u[i] = s[j] /\ j \in 1..Len(s) /\ s[j].n \in Nat
    BY <1>1, <1>2, <2>0
  <2>2. j + s[j].n <= Len(s) /\ \A k \in 1..s[j].n : s[j + k] = Msg("tool", k)
    BY <1>1, <1>4, <2>1 DEF Paired
  <2>3. ASSUME NEW k \in 1..u[i].n PROVE u[i + k] = Msg("tool", k)
    <3>0. k \in 1..s[j].n
      BY <2>1
    <3>2. k \in Nat \ {0} /\ j + k <= Len(s)
      BY <1>1, <2>0, <2>1, <2>2, <3>0
    <3>1. i + k \in 1..Len(u) /\ a + (i + k) - 1 = j + k
      BY <1>1, <1>2, <3>2
    <3> QED
      BY <1>2, <2>1, <2>2, <3>1
  <2> QED
    BY <1>1, <1>2, <2>1, <2>2, <2>3
<1>5. ASSUME NEW i \in 1..Len(u), u[i].role = "tool"
      PROVE  /\ u[i].n < i
             /\ u[i - u[i].n].role = "calls" /\ u[i - u[i].n].n >= u[i].n
  <2> DEFINE j == a + i - 1
             c == j - s[j].n
  <2>0. j \in 1..Len(s)
    BY <1>1, <1>2
  <2>1. u[i] = s[j] /\ j \in 1..Len(s) /\ s[j].n \in Nat
    BY <1>1, <1>2, <2>0
  <2>2. s[j].n < j /\ s[c].role = "calls" /\ s[c].n >= s[j].n
    BY <1>1, <1>5, <2>1 DEF Paired
  <2>3. c \in 1..Len(s) /\ c <= j
    BY <1>1, <2>1, <2>2
  <2>4. c >= a
    \* Otherwise the first message kept would be a result of the same request.
    <3> SUFFICES ASSUME c < a PROVE FALSE
      BY <1>1, <2>3
    <3>1. a - c \in 1..s[c].n
      BY <1>1, <2>1, <2>2, <2>3
    <3>2. s[c + (a - c)] = Msg("tool", a - c)
      BY <1>1, <2>2, <2>3, <3>1 DEF Paired
    <3>3. a <= Len(s) /\ c + (a - c) = a
      BY <1>1, <2>1, <2>3
    <3> QED
      BY <3>2, <3>3 DEF Msg
  <2>5. i - u[i].n \in 1..Len(u) /\ a + (i - u[i].n) - 1 = c
    BY <1>1, <1>2, <2>1, <2>2, <2>3, <2>4
  <2>6. u[i - u[i].n] = s[c]
    BY <1>2, <2>5
  <2> QED
    BY <1>1, <1>2, <2>1, <2>2, <2>5, <2>6
<1>6. Paired(u)
  BY <1>3, <1>4, <1>5 DEF Paired
<1> QED
  BY <1>2, <1>6 DEF u

LEMMA LeastIsThere ==
  ASSUME NEW S \in SUBSET Nat, S # {}
  PROVE  \E m \in S : \A x \in S : m <= x
<1> DEFINE Less == {ss \in Nat \X Nat : ss[1] < ss[2]}
<1>1. IsWellFoundedOn(Less, Nat)
  BY NatLessThanWellFounded, Zenon DEF OpToRel
<1>2. PICK m \in S : \A x \in S : ~(<<x, m>> \in Less)
  <2> HIDE DEF Less
  <2> QED
    BY <1>1, WFMin
<1>3. \A x \in S : ~(x < m)
  BY <1>2
<1> QED
  BY <1>3

\* truncateOldestHalf leaves at most half of the window, cut where it may be cut.
LEMMA LaterHalfIsPaired ==
  ASSUME window \in Seq(Messages), window # <<>>, Paired(window)
  PROVE  /\ LaterHalf \in Seq(Messages) /\ Paired(LaterHalf)
         /\ Len(LaterHalf) <= 1 \/ 2 * Len(LaterHalf) <= Len(window)
<1> DEFINE L == Len(window)
           keep == IF L < 2 THEN 1 ELSE L \div 2
           first == L - keep + 1
           Free == {i \in first..L + 1 : i <= L => window[i].role # "tool"}
           Start(i) == /\ \A j \in first..i - 1 : window[j].role = "tool"
                       /\ i <= L => window[i].role # "tool"
<1>1. L \in Nat \ {0}
  BY EmptySeq, LenProperties
<1>2. keep \in Nat \ {0} /\ keep <= L /\ (keep = 1 \/ 2 * keep <= L)
  BY <1>1
<1>3. first \in 1..L
  BY <1>1, <1>2
<1> HIDE DEF L, keep
<1>4. PICK m \in Free : \A x \in Free : m <= x
  <2>1. L + 1 \in Free
    BY <1>1, <1>3
  <2>2. Free \in SUBSET Nat
    BY <1>1, <1>3
  <2> QED
    BY <2>1, <2>2, LeastIsThere
<1>5. m \in first..L + 1 /\ Start(m)
  <2>1. ASSUME NEW j \in first..m - 1 PROVE window[j].role = "tool"
    BY <1>1, <1>3, <1>4, <2>1
  <2> QED
    BY <1>4, <2>1
<1> DEFINE start == CHOOSE i \in first..L + 1 : Start(i)
<1>6. start \in first..L + 1 /\ Start(start)
  BY <1>5
<1>7. LaterHalf = SubSeq(window, start, L)
  BY DEF LaterHalf, L, keep
<1> HIDE DEF start
<1>8. /\ start \in 1..Len(window) + 1
      /\ start <= Len(window) => window[start].role # "tool"
      /\ L - start + 1 <= keep
  BY <1>1, <1>2, <1>3, <1>6 DEF L
<1>9. /\ SubSeq(window, start, L) \in Seq(Messages)
      /\ Len(SubSeq(window, start, L)) = L - start + 1
      /\ Paired(SubSeq(window, start, L))
  BY <1>8, PairedSuffix DEF L
<1> QED
  BY <1>1, <1>2, <1>3, <1>6, <1>7, <1>8, <1>9 DEF L

LEMMA MessagesAssociate ==
  \A s, t, u \in Seq(Messages) : (s \o t) \o u = s \o (t \o u)
BY ConcatAssociative

\* A message that neither requests tools nor is a result stands alone.
LEMMA PairedAlone ==
  ASSUME NEW m \in Messages, m.role \notin {"calls", "tool"}
  PROVE  /\ <<m>> \in Seq(Messages) /\ Len(<<m>>) = 1 /\ Paired(<<m>>)
         /\ <<>> \in Seq(Messages) /\ Len(<<>>) = 0 /\ Paired(<<>>)
<1>1. DOMAIN <<m>> = 1..1 /\ <<m>>[1] = m /\ DOMAIN <<>> = {}
  OBVIOUS
<1> QED
  BY <1>1 DEF Paired

LEMMA MsgIsMessage ==
  \A r \in Roles, n \in 0..MaxCalls :
    Msg(r, n) \in Messages /\ Msg(r, n).role = r /\ Msg(r, n).n = n
BY DEF Msg, Messages

\* A round that is closed can be sent: its results follow its request.
LEMMA RoundCloses ==
  ASSUME NEW h \in Seq(Messages), Paired(h), NEW n \in 1..MaxCalls,
         new = Append(h, Msg("calls", n)), DOMAIN res = 1..n,
         NEW img \in BOOLEAN, NEW last \in BOOLEAN
  PROVE  /\ new \o Results(img, last) \in Seq(Messages)
         /\ Paired(new \o Results(img, last))
         /\ Len(new \o Results(img, last)) \in Len(new)..Len(new) + n + 1 + (IF last THEN 1 ELSE 0)
<1> DEFINE c == Msg("calls", n)
           R == [k \in 1..n |-> Msg("tool", k)]
           A == IF img THEN <<Msg("image", 0)>> ELSE <<>>
           B == IF last THEN <<Msg("limit", 0)>> ELSE <<>>
           G == <<c>> \o R
<1>1. c \in Messages /\ c.role = "calls" /\ c.n = n
  BY MsgIsMessage DEF Roles
<1>2. R \in Seq(Messages) /\ Len(R) = n /\ \A k \in 1..n : R[k] = Msg("tool", k)
  <2>1. \A k \in 1..n : Msg("tool", k) \in Messages
    BY MsgIsMessage DEF Roles
  <2> QED
    BY <2>1
<1>3. /\ A \in Seq(Messages) /\ Paired(A) /\ Len(A) \in 0..1
      /\ B \in Seq(Messages) /\ Paired(B) /\ Len(B) \in 0..(IF last THEN 1 ELSE 0)
  <2>1. /\ Msg("image", 0) \in Messages /\ Msg("image", 0).role = "image"
        /\ Msg("limit", 0) \in Messages /\ Msg("limit", 0).role = "limit"
    BY MsgIsMessage DEF Roles
  <2>2. /\ <<Msg("image", 0)>> \in Seq(Messages) /\ Len(<<Msg("image", 0)>>) = 1
        /\ Paired(<<Msg("image", 0)>>)
        /\ <<>> \in Seq(Messages) /\ Len(<<>>) = 0 /\ Paired(<<>>)
    BY <2>1, PairedAlone
  <2>3. /\ <<Msg("limit", 0)>> \in Seq(Messages) /\ Len(<<Msg("limit", 0)>>) = 1
        /\ Paired(<<Msg("limit", 0)>>)
    BY <2>1, PairedAlone
  <2> QED
    BY <2>2, <2>3
<1>4. new = h \o <<c>> /\ <<c>> \in Seq(Messages) /\ Len(<<c>>) = 1 /\ <<c>>[1] = c
  BY <1>1, AppendIsConcat
<1>5. Results(img, last) = (R \o A) \o B
  BY DEF Results
<1> HIDE DEF c, R, A, B
<1>6. /\ G \in Seq(Messages) /\ Len(G) = n + 1 /\ G[1] = c
      /\ \A k \in 1..n : G[k + 1] = Msg("tool", k)
  <2>1. /\ G \in Seq(Messages) /\ Len(G) = 1 + n
        /\ \A i \in 1..1 + n : G[i] = IF i <= 1 THEN <<c>>[i] ELSE R[i - 1]
    BY <1>2, <1>4, ConcatProperties
  <2>2. \A k \in 1..n : k + 1 \in 1..1 + n /\ ~(k + 1 <= 1) /\ (k + 1) - 1 = k
    OBVIOUS
  <2> HIDE DEF G
  <2>3. \A k \in 1..n : G[k + 1] = R[k]
    BY <2>1, <2>2
  <2> QED
    BY <1>2, <1>4, <2>1, <2>3
<1>7. Paired(G)
  <2> HIDE DEF G
  <2>1. DOMAIN G = 1..n + 1
    BY <1>6, LenProperties
  <2>2. ASSUME NEW i \in 2..n + 1
        PROVE  G[i].role = "tool" /\ G[i].n = i - 1
    <3>1. i - 1 \in 1..n /\ (i - 1) + 1 = i
      OBVIOUS
    <3>2. G[i] = Msg("tool", i - 1)
      BY <1>6, <3>1
    <3> QED
      BY <3>1, <3>2, MsgIsMessage DEF Roles
  <2>3. ASSUME NEW i \in 1..n + 1, G[i].role = "calls" PROVE i = 1
    BY <2>2, <2>3
  <2>4. ASSUME NEW i \in 1..n + 1, G[i].role = "tool"
        PROVE  G[i].n = i - 1 /\ i \in 2..n + 1
    BY <1>1, <1>6, <2>2, <2>4
  <2>5. ASSUME NEW i \in 1..n + 1, G[i].role = "calls"
        PROVE  i + G[i].n <= Len(G) /\ \A k \in 1..G[i].n : G[i + k] = Msg("tool", k)
    <3>1. i = 1
      BY <2>3, <2>5
    <3>2. \A k \in 1..n : 1 + k = k + 1
      OBVIOUS
    <3> QED
      BY <1>1, <1>6, <3>1, <3>2
  <2>6. ASSUME NEW i \in 1..n + 1, G[i].role = "tool"
        PROVE  /\ G[i].n < i
               /\ G[i - G[i].n].role = "calls" /\ G[i - G[i].n].n >= G[i].n
    <3>1. G[i].n = i - 1 /\ i - (i - 1) = 1 /\ i - 1 <= n
      BY <2>4, <2>6
    <3> QED
      BY <1>1, <1>6, <3>1
  <2> QED
    BY <2>1, <2>5, <2>6 DEF Paired
<1>8. new \o R = h \o G /\ new \in Seq(Messages) /\ Len(new) = Len(h) + 1
  BY <1>2, <1>4, ConcatAssociative, ConcatProperties
<1>9. new \o R \in Seq(Messages) /\ Paired(new \o R) /\ Len(new \o R) = Len(new) + n
  <2> HIDE DEF G
  <2>1. Paired(h \o G)
    BY <1>6, <1>7, PairedConcat
  <2> QED
    BY <1>2, <1>8, <2>1, ConcatProperties
<1>10. new \o ((R \o A) \o B) = ((new \o R) \o A) \o B
  <2>1. R \o A \in Seq(Messages)
    BY <1>2, <1>3, ConcatProperties
  <2>2. new \o ((R \o A) \o B) = (new \o (R \o A)) \o B
    BY <1>3, <1>8, <2>1, MessagesAssociate
  <2>3. new \o (R \o A) = (new \o R) \o A
    BY <1>2, <1>3, <1>8, MessagesAssociate
  <2> QED
    BY <2>2, <2>3
<1>11. /\ (new \o R) \o A \in Seq(Messages) /\ Paired((new \o R) \o A)
       /\ Len((new \o R) \o A) = Len(new) + n + Len(A)
  BY <1>3, <1>9, PairedConcat, ConcatProperties
<1>12. /\ ((new \o R) \o A) \o B \in Seq(Messages) /\ Paired(((new \o R) \o A) \o B)
       /\ Len(((new \o R) \o A) \o B) = Len(new) + n + Len(A) + Len(B)
  BY <1>3, <1>11, PairedConcat, ConcatProperties
<1>13. Len(new) \in Nat
  BY <1>8, LenProperties
<1>14. new \o Results(img, last) = ((new \o R) \o A) \o B
  BY <1>5, <1>10
<1>15. /\ new \o Results(img, last) \in Seq(Messages)
       /\ Paired(new \o Results(img, last))
       /\ Len(new \o Results(img, last)) = Len(new) + n + Len(A) + Len(B)
  BY <1>12, <1>14
<1> DEFINE e == IF last THEN 1 ELSE 0
<1>16. /\ e \in Nat
       /\ Len(A) \in Nat /\ Len(A) <= 1 /\ Len(B) \in Nat /\ Len(B) <= e
  <2>1. e \in Nat
    OBVIOUS
  <2>2. \A m \in 0..1 : m \in Nat /\ m <= 1
    OBVIOUS
  <2> HIDE DEF e
  <2>3. \A m \in 0..e : m \in Nat /\ m <= e
    BY <2>1
  <2> QED
    BY <1>3, <2>1, <2>2, <2>3, Zenon DEF e
<1> HIDE DEF e
<1>17. Len(new) + n + Len(A) + Len(B) \in Len(new)..Len(new) + n + 1 + e
  <2>1. \A l, a, b \in Nat : a <= 1 /\ b <= e => l + n + a + b \in l..l + n + 1 + e
    BY <1>16
  <2> QED
    BY <1>13, <1>16, <2>1, Zenon
<1> QED
  BY <1>15, <1>17 DEF e

-------------------------------------------------------------------------------
(* Steps.                                                                  *)

\* The parts of IInv a step has to keep; that a request can be sent follows.
Kept == /\ TypeOK /\ Paired(window) /\ Paired(disk)
        /\ TurnIsPaired /\ NothingLingers /\ TurnIsShort

LEMMA KeptIsInv == Kept => IInv
<1> SUFFICES ASSUME Kept, pc \in {"gen", "last"} PROVE Paired(window \o new)
  BY DEF IInv, HistoryIsPaired, Kept
<1>1. window \in Seq(Messages) /\ new \in Seq(Messages) /\ Paired(window) /\ Paired(new)
  BY DEF Kept, TypeOK, TurnIsPaired
<1> QED
  BY <1>1, PairedConcat

\* Facts about sequences the steps share.
LEMMA Histories ==
  /\ <<>> \in Seq(Messages) /\ Len(<<>>) = 0 /\ DOMAIN <<>> = {} /\ Paired(<<>>)
  /\ \A r \in {"user", "ai", "summary"} :
       /\ Msg(r, 0) \in Messages /\ <<Msg(r, 0)>> \in Seq(Messages)
       /\ Len(<<Msg(r, 0)>>) = 1 /\ <<Msg(r, 0)>> # <<>> /\ Paired(<<Msg(r, 0)>>)
<1>1. <<>> \in Seq(Messages) /\ Len(<<>>) = 0 /\ DOMAIN <<>> = {} /\ Paired(<<>>)
  BY DEF Paired
<1>2. ASSUME NEW r \in {"user", "ai", "summary"}
      PROVE  /\ Msg(r, 0) \in Messages /\ <<Msg(r, 0)>> \in Seq(Messages)
             /\ Len(<<Msg(r, 0)>>) = 1 /\ <<Msg(r, 0)>> # <<>> /\ Paired(<<Msg(r, 0)>>)
  <2>1. Msg(r, 0) \in Messages /\ Msg(r, 0).role = r
    BY MsgIsMessage DEF Roles
  <2>2. /\ <<Msg(r, 0)>> \in Seq(Messages) /\ Len(<<Msg(r, 0)>>) = 1
        /\ Paired(<<Msg(r, 0)>>)
    BY <2>1, PairedAlone
  <2> QED
    BY <2>1, <2>2
<1> QED
  BY <1>1, <1>2

\* What happens between turns, and what begins one, leaves no turn behind.
LEMMA OutsideStep ==
  ASSUME Kept, UNCHANGED env,
         \/ LoadHistory \/ Evict \/ Crash \/ ClearHistory \/ StaleClear
         \/ Begin \/ Cancel
  PROVE  Kept'
<1> USE Histories DEF Kept, TypeOK, TurnIsPaired, NothingLingers, TurnIsShort, Working
<1>1. CASE LoadHistory
  BY <1>1 DEF LoadHistory, loop
<1>2. CASE Evict
  BY <1>2 DEF Evict, loop
<1>3. CASE Crash
  <2>1. TypeOK'
    <3>1. /\ window' = <<>> /\ new' = <<>> /\ res' = <<>> /\ iter' = 0 /\ pc' = "idle"
          /\ UNCHANGED <<env, disk, turns>>
          /\ tokens' = "none" /\ resident' = FALSE /\ canceled' = FALSE
          /\ ctxErr' = FALSE /\ owed' = FALSE
      BY <1>3 DEF Crash
    <3>2. DOMAIN res' = {} /\ 0 \in 0..MaxIterations
      BY <3>1
    <3> QED
      BY <3>1, <3>2
  <2>2. TurnIsPaired' /\ NothingLingers' /\ TurnIsShort'
    BY <1>3 DEF Crash
  <2> QED
    BY <1>3, <2>1, <2>2 DEF Crash
<1>4. CASE ClearHistory
  BY <1>4 DEF ClearHistory, Stored, loop
<1>7. CASE StaleClear
  <2>1. RoundIsOpen => RoundIsOpen'
    BY <1>7 DEF StaleClear, loop, RoundIsOpen
  <2> QED
    BY <1>7, <2>1 DEF StaleClear, Stored, loop
<1>5. CASE Begin
  <2>1. turns' \in Nat
    BY <1>5 DEF Begin
  <2>2. pc' \in {"compress", "prompt"} /\ (pc' = "compress" => window # <<>>)
    <3>1. window = <<>> => Len(window) = 0 /\ tokens = "none" /\ ~(0 > Threshold)
      OBVIOUS
    <3> QED
      BY <1>5, <3>1 DEF Begin, NeedsCompression
  <2> QED
    BY <1>5, <2>1, <2>2 DEF Begin, loop
<1>6. CASE Cancel
  <2>1. RoundIsOpen => RoundIsOpen'
    BY <1>6 DEF Cancel, loop, RoundIsOpen
  <2> QED
    BY <1>6, <2>1 DEF Cancel, loop
<1> QED
  BY <1>1, <1>2, <1>3, <1>4, <1>5, <1>6, <1>7

\* The compression and what comes before the first request.
LEMMA PromptStep ==
  ASSUME Kept, UNCHANGED env,
         Compress \/ CompressFails \/ PromptBlocked \/ BuildMessages
  PROVE  Kept'
<1> USE Histories DEF Kept, TypeOK, TurnIsPaired, NothingLingers, TurnIsShort, Working
<1>1. CASE Compress
  BY <1>1 DEF Compress, Stored, loop
<1>2. CASE CompressFails
  <2>1. LaterHalf \in Seq(Messages) /\ Paired(LaterHalf)
    BY <1>2, LaterHalfIsPaired DEF CompressFails
  <2> QED
    BY <1>2, <2>1 DEF CompressFails, Stored, loop
<1>3. CASE PromptBlocked
  BY <1>3 DEF PromptBlocked, loop
<1>4. CASE BuildMessages
  BY <1>4 DEF BuildMessages, PerRound
<1> QED
  BY <1>1, <1>2, <1>3, <1>4

\* Chat returns an error: the turn is forgotten.
LEMMA FailStep ==
  ASSUME Kept, UNCHANGED env, Fail
  PROVE  Kept'
<1> USE Histories DEF Kept, TypeOK, TurnIsPaired, NothingLingers, TurnIsShort, Working
<1>1. /\ new' = <<>> /\ res' = <<>> /\ iter' = 0 /\ pc' = "idle"
      /\ UNCHANGED <<env, window, disk, turns, tokens, resident, canceled>>
      /\ ctxErr' = FALSE /\ owed' = FALSE
  BY DEF Fail
<1>2. DOMAIN res' = {} /\ 0 \in 0..MaxIterations
  BY <1>1
<1>3. TypeOK'
  BY <1>1, <1>2
<1> QED
  BY <1>1, <1>3

\* A call that ends, in whatever way, leaves the round open.
LEMMA ToolStep ==
  ASSUME Kept, UNCHANGED env, NEW k \in 1..MaxCalls, k \in DOMAIN res, Tool(k)
  PROVE  Kept'
<1> USE DEF Kept
<1>1. /\ pc = "tools" /\ res' = [res EXCEPT ![k] = "done"]
      /\ UNCHANGED <<env, window, tokens, disk, resident, pc, new, iter, canceled, owed, turns>>
      /\ ctxErr' \in BOOLEAN
  BY DEF Tool, ToolReturns, ToolFails, ToolPanics, TypeOK
<1>2. TypeOK'
  BY <1>1 DEF TypeOK
<1>3. RoundIsOpen'
  <2>1. PICK h \in Seq(Messages), n \in 1..MaxCalls :
          /\ new = Append(h, Msg("calls", n)) /\ Paired(h)
          /\ res \in [1..n -> {"running", "done"}]
    BY <1>1 DEF TurnIsPaired, RoundIsOpen
  <2>2. res' \in [1..n -> {"running", "done"}]
    BY <1>1, <2>1
  <2> QED
    BY <1>1, <2>1, <2>2 DEF RoundIsOpen
<1> QED
  BY <1>1, <1>2, <1>3 DEF TurnIsPaired, NothingLingers, TurnIsShort, Working

LEMMA AnswerStep ==
  ASSUME Kept, UNCHANGED env, Answer
  PROVE  Kept'
<1> USE DEF Kept
<1> DEFINE m == Msg("ai", 0)
<1>1. /\ new \in Seq(Messages) /\ Paired(new)
      /\ m \in Messages /\ <<m>> \in Seq(Messages) /\ Paired(<<m>>)
  BY Histories DEF Answer, TypeOK, TurnIsPaired
<1>2. new' = Append(new, m) /\ Append(new, m) = new \o <<m>>
  BY <1>1, AppendIsConcat DEF Answer
<1>3. Paired(new') /\ new' \in Seq(Messages) /\ new' # <<>> /\ Len(new') = Len(new) + 1
  <2>1. Paired(new \o <<m>>)
    BY <1>1, PairedConcat
  <2>2. /\ Append(new, m) \in Seq(Messages) /\ Append(new, m) # <<>>
        /\ Len(Append(new, m)) = Len(new) + 1
    BY <1>1, AppendProperties
  <2> QED
    BY <1>2, <2>1, <2>2
<1>4. iter * PerRound \in Nat /\ Len(new) \in Nat
  BY <1>1, LenProperties DEF TypeOK, PerRound
<1> HIDE DEF m
<1>5. TurnIsShort'
  BY <1>3, <1>4 DEF Answer, TurnIsShort
<1> QED
  BY <1>3, <1>5 DEF Answer, TypeOK, TurnIsPaired, NothingLingers, Working

LEMMA RequestStep ==
  ASSUME Kept, UNCHANGED env, NEW n \in 1..MaxCalls, RequestTools(n)
  PROVE  Kept'
<1> USE DEF Kept
<1> DEFINE m == Msg("calls", n)
<1>1. new \in Seq(Messages) /\ Paired(new) /\ m \in Messages
  BY MsgIsMessage DEF RequestTools, TypeOK, TurnIsPaired, Roles
<1>2. /\ new' = Append(new, m) /\ new' \in Seq(Messages) /\ new' # <<>>
      /\ Len(new') = Len(new) + 1
  BY <1>1, AppendProperties DEF RequestTools
<1>3. res' \in [1..n -> {"running", "done"}] /\ 1..n \subseteq 1..MaxCalls
  BY DEF RequestTools
<1>4. RoundIsOpen'
  BY <1>1, <1>2, <1>3 DEF RoundIsOpen
<1>5. iter * PerRound \in Nat /\ Len(new) \in Nat
  BY <1>1, LenProperties DEF TypeOK, PerRound
<1> HIDE DEF m
<1>6. TurnIsShort'
  BY <1>2, <1>5 DEF RequestTools, TurnIsShort
<1>7. TypeOK'
  BY <1>2, <1>3 DEF RequestTools, TypeOK
<1> QED
  BY <1>2, <1>4, <1>6, <1>7 DEF RequestTools, TurnIsPaired, NothingLingers, Working

LEMMA RoundsAddUp ==
  ASSUME NEW i \in Nat
  PROVE  /\ i * PerRound \in Nat /\ (i + 1) * PerRound = i * PerRound + PerRound
         /\ PerRound = MaxCalls + 2
         /\ i <= MaxIterations => i * PerRound <= MaxIterations * PerRound
<1>1. PerRound \in Nat
  BY DEF PerRound
<1> QED
  BY <1>1 DEF PerRound

\* The round is closed and counted.
LEMMA JoinStep ==
  ASSUME Kept, UNCHANGED env, ToolsJoined
  PROVE  Kept'
<1> USE DEF Kept
<1>1. PICK h \in Seq(Messages), n \in 1..MaxCalls :
        /\ new = Append(h, Msg("calls", n)) /\ Paired(h)
        /\ res \in [1..n -> {"running", "done"}]
  BY DEF ToolsJoined, ToolsEnded, TurnIsPaired, RoundIsOpen
<1> DEFINE last == iter' = MaxIterations
<1>2. PICK img \in BOOLEAN : new' = new \o Results(img, last)
  BY DEF ToolsJoined
<1>3. /\ new' \in Seq(Messages) /\ Paired(new')
      /\ Len(new') \in Len(new)..Len(new) + n + 1 + (IF last THEN 1 ELSE 0)
  <2>1. DOMAIN res = 1..n /\ last \in BOOLEAN
    BY <1>1
  <2> HIDE DEF last
  <2> QED
    BY <1>1, <1>2, <2>1, RoundCloses
<1>4. /\ pc = "tools" /\ iter' = iter + 1 /\ res' = <<>>
      /\ pc' = IF last THEN "last" ELSE "gen"
      /\ UNCHANGED <<env, window, tokens, disk, resident, ctxErr, canceled, owed, turns>>
  BY DEF ToolsJoined, ToolsEnded
<1>5. iter \in Nat /\ iter < MaxIterations /\ iter' \in 0..MaxIterations
  BY <1>4 DEF TypeOK, NothingLingers
<1>6. Len(new) \in Nat \ {0} /\ Len(new) <= 2 + iter * PerRound
  <2>1. new \in Seq(Messages) /\ new # <<>>
    BY <1>4 DEF TypeOK, NothingLingers, Working
  <2> QED
    BY <1>4, <2>1, EmptySeq DEF TurnIsShort
<1>7. new' # <<>>
  <2>1. Len(new') # 0
    BY <1>3, <1>6
  <2> QED
    BY <2>1, Histories
<1>8. TurnIsShort'
  <2> DEFINE before == iter * PerRound
             after == iter' * PerRound
             e == IF last THEN 1 ELSE 0
  <2>1. before \in Nat /\ after = before + MaxCalls + 2
    <3>1. (iter + 1) * PerRound = before + PerRound /\ PerRound = MaxCalls + 2
      BY <1>5, RoundsAddUp
    <3>2. before \in Nat
      BY <1>5, RoundsAddUp
    <3> QED
      BY <1>4, <3>1, <3>2
  <2>2. e \in Nat
    OBVIOUS
  <2>3. Len(new') \in Nat
    BY <1>3, LenProperties
  <2> HIDE DEF before, after, e
  <2>4. \A l, x \in Nat : l <= 2 + before /\ x <= l + n + 1 + e => x <= 1 + after + e
    BY <2>1, <2>2
  <2>5. Len(new') <= Len(new) + n + 1 + e
    BY <1>3, <1>6, <2>2, <2>3 DEF e
  <2>6. Len(new') <= 1 + after + e
    BY <1>6, <2>3, <2>4, <2>5 DEF before
  <2> QED
    BY <1>4, <2>1, <2>2, <2>3, <2>6 DEF TurnIsShort, after, e
<1>9. TypeOK'
  BY <1>3, <1>4, <1>5, Histories DEF TypeOK
<1> QED
  BY <1>3, <1>4, <1>5, <1>7, <1>8, <1>9 DEF TurnIsPaired, NothingLingers, Working

LEMMA AppendStep ==
  ASSUME Kept, UNCHANGED env, AppendTurn
  PROVE  Kept'
<1> USE DEF Kept
<1>1. /\ window \in Seq(Messages) /\ disk \in Seq(Messages) /\ new \in Seq(Messages)
      /\ Paired(window) /\ Paired(disk) /\ Paired(new) /\ new # <<>>
  BY DEF AppendTurn, TypeOK, TurnIsPaired, NothingLingers, Working
<1>2. /\ window \o new \in Seq(Messages) /\ Paired(window \o new)
      /\ disk \o new \in Seq(Messages) /\ Paired(disk \o new)
      /\ window \o new # <<>>
  BY <1>1, PairedConcat, ConcatProperties, ConcatEqualIffEmpty
<1>3. /\ pc = "append" /\ pc' = "idle" /\ window' = window \o new
      /\ disk' \in {disk \o new, disk} /\ tokens' \in {"none", "small", "large"}
      /\ new' = <<>> /\ iter' = 0 /\ owed' = FALSE
      /\ UNCHANGED <<env, resident, res, ctxErr, canceled, turns>>
  BY DEF AppendTurn, Stored, Reported, TypeOK
<1>4. TypeOK' /\ Paired(window') /\ Paired(disk')
  <2>1. disk' \in Seq(Messages) /\ Paired(disk')
    BY <1>1, <1>2, <1>3
  <2>2. new' \in Seq(Messages) /\ 0 \in 0..MaxIterations
    BY <1>3, Histories
  <2> QED
    BY <1>2, <1>3, <2>1, <2>2 DEF TypeOK
<1> QED
  BY <1>2, <1>3, <1>4 DEF TurnIsPaired, NothingLingers, TurnIsShort, Working

LEMMA InvStep == IInv /\ [Next]_vars => IInv'
<1>1. ASSUME IInv PROVE Kept
  BY <1>1 DEF IInv, HistoryIsPaired, Kept
<1>2. ASSUME Kept, [Next]_vars PROVE Kept'
  <2> USE <1>2
  <2>1. ASSUME UNCHANGED env,
               \/ LoadHistory \/ Evict \/ Crash \/ ClearHistory \/ StaleClear
               \/ Begin \/ Cancel
        PROVE  Kept'
    BY <2>1, OutsideStep
  <2>2. ASSUME UNCHANGED env, Turn PROVE Kept'
    <3> USE <2>2
    <3>1. CASE Compress \/ CompressFails \/ PromptBlocked \/ BuildMessages
      BY <3>1, PromptStep
    <3>2. CASE GenerateFails \/ ToolsCanceled
      BY <3>2, FailStep DEF GenerateFails, ToolsCanceled
    <3>3. CASE Answer
      BY <3>3, AnswerStep
    <3>4. CASE \E n \in 1..MaxCalls : RequestTools(n)
      BY <3>4, RequestStep
    <3>5. CASE ToolsJoined
      BY <3>5, JoinStep
    <3>6. CASE AppendTurn
      BY <3>6, AppendStep
    <3> QED
      BY <3>1, <3>2, <3>3, <3>4, <3>5, <3>6 DEF Turn
  <2>3. ASSUME UNCHANGED env, NEW k \in 1..MaxCalls, k \in DOMAIN res, Tool(k)
        PROVE  Kept'
    BY <2>3, ToolStep
  <2>4. CASE UNCHANGED vars
    BY <2>4 DEF vars, Kept, TypeOK, TurnIsPaired, RoundIsOpen, NothingLingers, TurnIsShort,
                Working
  <2> QED
    BY <2>1, <2>2, <2>3, <2>4 DEF Next
<1>3. Kept' => IInv'
  BY KeptIsInv, PTL
<1> QED
  BY <1>1, <1>2, <1>3

-------------------------------------------------------------------------------
(* Theorems.                                                               *)

LEMMA InvHolds == Spec => []IInv
<1>1. ASSUME Init PROVE Kept
  <2>1. TypeOK
    <3>1. DOMAIN res = {} /\ 0 \in 0..MaxIterations
      BY <1>1 DEF Init
    <3> QED
      BY <1>1, <3>1, Histories DEF Init, TypeOK
  <2> QED
    BY <1>1, <2>1, Histories DEF Init, Kept, TurnIsPaired, NothingLingers, TurnIsShort,
                                 Working
<1>2. Init => IInv
  BY <1>1, KeptIsInv
<1> QED
  BY <1>2, InvStep, PTL DEF Spec

\* toolexecutor.go, memorywindow.go: in any environment neither the window, nor the
\* rows, nor a request to the model ever holds a request for tools without its results
\* or a result without its request, whatever is cut, cancelled, lost or reloaded.
THEOREM HistoryStaysPaired == Spec => []HistoryIsPaired
<1>1. IInv => HistoryIsPaired
  BY DEF IInv
<1> QED
  BY <1>1, InvHolds, PTL

LEMMA EndsLasts ==
  ASSUME NEW s \in Seq(Messages), NEW t \in Seq(Messages), NEW u \in Seq(Messages)
  PROVE  /\ Ends(s, s) /\ Ends(<<>>, s)
         /\ Ends(s, t) => Ends(s \o u, t \o u)
<1>1. Ends(s, s) /\ Ends(<<>>, s)
  BY LenProperties DEF Ends
<1>2. ASSUME Ends(s, t) PROVE Ends(s \o u, t \o u)
  <2> DEFINE x == s \o u
             y == t \o u
  <2>1. /\ Len(x) = Len(s) + Len(u) /\ Len(y) = Len(t) + Len(u)
        /\ \A i \in 1..Len(s) + Len(u) : x[i] = IF i <= Len(s) THEN s[i] ELSE u[i - Len(s)]
        /\ \A i \in 1..Len(t) + Len(u) : y[i] = IF i <= Len(t) THEN t[i] ELSE u[i - Len(t)]
    BY ConcatProperties
  <2>2. /\ Len(s) \in Nat /\ Len(t) \in Nat /\ Len(u) \in Nat /\ Len(s) <= Len(t)
        /\ \A i \in 1..Len(s) : s[i] = t[Len(t) - Len(s) + i]
    BY <1>2, LenProperties DEF Ends
  <2> HIDE DEF x, y
  <2>3. ASSUME NEW i \in 1..Len(x) PROVE x[i] = y[Len(y) - Len(x) + i]
    <3>1. Len(y) - Len(x) + i = Len(t) - Len(s) + i /\ Len(t) - Len(s) + i \in 1..Len(y)
      BY <2>1, <2>2
    <3>2. CASE i <= Len(s)
      <4>1. Len(t) - Len(s) + i <= Len(t) /\ i \in 1..Len(s)
        BY <2>1, <2>2, <3>2
      <4>2. y[Len(t) - Len(s) + i] = t[Len(t) - Len(s) + i] /\ x[i] = s[i]
        BY <2>1, <2>2, <3>1, <4>1
      <4> QED
        BY <2>2, <3>1, <4>1, <4>2
    <3>3. CASE i > Len(s)
      <4>1. (Len(t) - Len(s) + i) - Len(t) = i - Len(s) /\ ~(Len(t) - Len(s) + i <= Len(t))
        BY <2>2, <3>3
      <4>2. y[Len(t) - Len(s) + i] = u[i - Len(s)] /\ x[i] = u[i - Len(s)]
        BY <2>1, <2>2, <3>1, <3>3, <4>1
      <4> QED
        BY <3>1, <4>2
    <3> QED
      BY <2>1, <2>2, <3>2, <3>3
  <2> QED
    BY <2>1, <2>2, <2>3 DEF Ends, x, y
<1> QED
  BY <1>1, <1>2

LEMMA DiskStep == IInv /\ DiskIsWindow /\ [Next]_vars => DiskIsWindow'
<1> DEFINE Works  == "bad writes" \notin env /\ "bad reads" \notin env
           Agrees == Ends(disk, window) /\ ("stale clears" \notin env => disk = window)
<1> SUFFICES ASSUME IInv, DiskIsWindow, [Next]_vars, Works, env' = env, resident'
             PROVE  Agrees'
  BY DEF DiskIsWindow, Next, vars
<1>0. /\ window \in Seq(Messages) /\ disk \in Seq(Messages) /\ new \in Seq(Messages)
      /\ window' \in Seq(Messages) /\ disk' \in Seq(Messages)
  BY InvStep DEF IInv, HistoryIsPaired, TypeOK
<1>1. ASSUME disk' = window' PROVE Agrees'
  BY <1>0, <1>1, EndsLasts
<1>2. ASSUME resident, UNCHANGED <<window, disk>> PROVE Agrees'
  BY <1>2 DEF DiskIsWindow, Ends
<1>3. CASE LoadHistory \/ Evict \/ Crash \/ ClearHistory \/ StaleClear \/ Begin \/ Cancel
  <2>1. CASE LoadHistory
    BY <1>1, <2>1 DEF LoadHistory
  <2>2. CASE Evict \/ Crash
    BY <2>2 DEF Evict, Crash
  <2>3. CASE ClearHistory
    BY <1>1, <2>3 DEF ClearHistory, Stored
  <2>4. CASE Begin \/ Cancel
    BY <1>2, <2>4 DEF Begin, Cancel
  <2>5. CASE StaleClear
    <3>1. disk' = <<>> /\ "stale clears" \in env
      BY <2>5 DEF StaleClear, Stored
    <3>2. Ends(disk', window')
      BY <1>0, <3>1, EndsLasts
    <3> QED
      BY <3>1, <3>2 DEF Ends
  <2> QED
    BY <1>3, <2>1, <2>2, <2>3, <2>4, <2>5
<1>4. CASE AppendTurn
  <2>1. /\ window' = window \o new /\ disk' = disk \o new /\ resident
    BY <1>4 DEF AppendTurn, Stored
  <2>2. Ends(disk', window') /\ (disk = window => disk' = window')
    BY <1>0, <2>1, EndsLasts DEF DiskIsWindow
  <2> QED
    BY <2>1, <2>2 DEF DiskIsWindow, Ends
<1>5. CASE Compress \/ CompressFails
  BY <1>1, <1>5 DEF Compress, CompressFails, Stored
<1>6. CASE \/ PromptBlocked \/ BuildMessages \/ GenerateFails \/ Answer
           \/ (\E n \in 1..MaxCalls : RequestTools(n)) \/ ToolsCanceled \/ ToolsJoined
  BY <1>2, <1>6 DEF PromptBlocked, BuildMessages, GenerateFails, Answer, RequestTools,
                    ToolsCanceled, ToolsJoined, ToolsEnded, Fail
<1>7. CASE \E k \in 1..MaxCalls : k \in DOMAIN res /\ Tool(k)
  BY <1>2, <1>7 DEF Tool, ToolReturns, ToolFails, ToolPanics
<1>8. CASE UNCHANGED vars
  BY <1>2, <1>8 DEF vars
<1> QED
  BY <1>3, <1>4, <1>5, <1>6, <1>7, <1>8 DEF Next, Turn

LEMMA DiskHolds == Spec => []DiskIsWindow
<1>1. Init => DiskIsWindow
  BY DEF Init, DiskIsWindow
<1> QED
  BY <1>1, DiskStep, InvHolds, PTL DEF Spec

\* historystore_sql.go: with a store that works the rows are the window, so what an
\* eviction or a crash takes from memory comes back as it was; where clearings may come
\* late for the ChatBot they took (nomention.go:96-111), they are the end of it.
THEOREM DiskFollowsWindow == Spec => []DiskIsWindow
BY DiskHolds

LEMMA Bounds ==
  /\ TurnMax \in Nat /\ TurnMax >= 3 /\ WindowMax - TurnMax \in Nat
  /\ WindowMax - TurnMax >= TurnMax /\ WindowMax - TurnMax >= Threshold
  /\ WindowMax = (WindowMax - TurnMax) + TurnMax
  /\ TurnMax = 3 + MaxIterations * PerRound
<1>1. MaxIterations * (MaxCalls + 2) \in Nat
  OBVIOUS
<1> QED
  BY <1>1 DEF TurnMax, WindowMax, PerRound

LEMMA TurnFits == IInv /\ pc = "append" => Len(new) \in Nat /\ Len(new) <= TurnMax
<1> SUFFICES ASSUME IInv, pc = "append" PROVE Len(new) \in Nat /\ Len(new) <= TurnMax
  OBVIOUS
<1>1. Len(new) \in Nat /\ Len(new) <= 3 + iter * PerRound /\ iter \in 0..MaxIterations
  BY LenProperties DEF IInv, HistoryIsPaired, TypeOK, TurnIsShort
<1>2. iter \in Nat /\ iter <= MaxIterations
  BY <1>1
<1>3. iter * PerRound \in Nat /\ iter * PerRound <= MaxIterations * PerRound
  BY <1>2, RoundsAddUp
<1>4. MaxIterations * PerRound \in Nat
  BY RoundsAddUp
<1> DEFINE x == iter * PerRound
           y == MaxIterations * PerRound
<1> HIDE DEF x, y
<1>5. x \in Nat /\ y \in Nat /\ x <= y /\ Len(new) <= 3 + x /\ TurnMax = 3 + y
  BY <1>1, <1>3, <1>4, Bounds DEF x, y
<1> QED
  BY <1>1, <1>5

LEMMA FitsStep == IInv /\ DiskIsWindow /\ WindowFits /\ [Next]_vars => WindowFits'
<1> DEFINE Room == WindowMax - TurnMax
<1> SUFFICES ASSUME IInv, DiskIsWindow, WindowFits, [Next]_vars, Quiet, env' = env
             PROVE  /\ tokens' = "none"
                    /\ Len(window') <= WindowMax /\ Len(disk') <= WindowMax
                    /\ Working' \/ pc' = "prompt" => Len(window') <= WindowMax - TurnMax
  BY DEF WindowFits, Quiet, Next, vars
<1>0. /\ Room \in Nat /\ TurnMax \in Nat /\ TurnMax >= 3 /\ WindowMax = Room + TurnMax
      /\ Room >= TurnMax /\ Room >= Threshold
  BY Bounds
<1> HIDE DEF Room
<1>1. /\ tokens = "none"
      /\ Len(window) <= WindowMax /\ Len(disk) <= WindowMax
      /\ Working \/ pc = "prompt" => Len(window) <= Room
      /\ Len(window) \in Nat /\ Len(disk) \in Nat
  BY LenProperties DEF WindowFits, IInv, HistoryIsPaired, TypeOK, Room
<1> DEFINE Fits == /\ tokens' = "none"
                   /\ Len(window') <= WindowMax /\ Len(disk') <= WindowMax
                   /\ Working' \/ pc' = "prompt" => Len(window') <= Room
<1>2. Len(<<>>) = 0 /\ 0 <= WindowMax /\ 1 <= WindowMax /\ 1 <= Room /\ WindowMax \in Nat
  BY <1>0, Histories
<1> SUFFICES Fits
  BY DEF Room
<1>3. CASE LoadHistory \/ Evict \/ Crash \/ ClearHistory \/ StaleClear \/ Cancel
  BY <1>1, <1>2, <1>3 DEF LoadHistory, Evict, Crash, ClearHistory, StaleClear, Cancel,
                          Stored, Quiet, Working, IInv, NothingLingers
<1>4. CASE Begin
  BY <1>0, <1>1, <1>4 DEF Begin, NeedsCompression, Working
<1>5. CASE Compress
  <2>1. Len(<<Msg("summary", 0)>>) = 1
    BY Histories
  <2> QED
    BY <1>1, <1>2, <1>5, <2>1 DEF Compress, Stored
<1>6. CASE CompressFails
  <2>1. /\ LaterHalf \in Seq(Messages)
        /\ Len(LaterHalf) <= 1 \/ 2 * Len(LaterHalf) <= Len(window)
    BY <1>6, LaterHalfIsPaired DEF CompressFails, IInv, HistoryIsPaired, TypeOK,
                                   NothingLingers
  <2>2. Len(LaterHalf) \in Nat
    BY <2>1, LenProperties
  <2>3. Len(LaterHalf) <= Room
    BY <1>0, <1>1, <2>1, <2>2
  <2>4. Len(LaterHalf) <= WindowMax
    BY <1>0, <2>2, <2>3
  <2> QED
    BY <1>1, <1>6, <2>3, <2>4 DEF CompressFails, Stored
<1>7. CASE \/ PromptBlocked \/ BuildMessages \/ GenerateFails \/ Answer
           \/ (\E n \in 1..MaxCalls : RequestTools(n)) \/ ToolsCanceled \/ ToolsJoined
  BY <1>1, <1>7 DEF PromptBlocked, BuildMessages, GenerateFails, Answer, RequestTools,
                    ToolsCanceled, ToolsJoined, ToolsEnded, Fail, Working
<1>8. CASE AppendTurn
  <2>1. Len(new) \in Nat /\ Len(new) <= TurnMax /\ Len(window) <= Room /\ resident
    BY <1>1, <1>8, TurnFits DEF AppendTurn, Working, IInv, NothingLingers
  <2>2. /\ window \in Seq(Messages) /\ disk \in Seq(Messages) /\ new \in Seq(Messages)
        /\ Len(disk) <= Len(window)
    BY <2>1 DEF IInv, HistoryIsPaired, TypeOK, DiskIsWindow, Ends, Quiet
  <2>3. /\ Len(window \o new) = Len(window) + Len(new)
        /\ Len(disk \o new) = Len(disk) + Len(new)
    BY <2>2, ConcatProperties
  <2>4. Len(window \o new) <= WindowMax /\ Len(disk \o new) <= WindowMax
    BY <1>0, <1>1, <2>1, <2>2, <2>3
  <2>5. tokens' = "none"
    BY <1>1, <1>8 DEF AppendTurn, Reported, Quiet
  <2> QED
    BY <1>1, <1>8, <2>2, <2>4, <2>5 DEF AppendTurn, Stored, Working
<1>9. CASE \E k \in 1..MaxCalls : k \in DOMAIN res /\ Tool(k)
  BY <1>1, <1>9 DEF Tool, ToolReturns, ToolFails, ToolPanics, Working
<1>10. CASE UNCHANGED vars
  BY <1>1, <1>10 DEF vars, Working
<1> QED
  BY <1>3, <1>4, <1>5, <1>6, <1>7, <1>8, <1>9, <1>10 DEF Next, Turn

\* memorywindow.go: as long as nothing reports usage and the store works, and whatever
\* compressions fail, the window never holds more than two turns, or than the threshold
\* and one turn.
THEOREM WindowStaysBounded == Spec => []WindowIsBounded
<1>1. Init => WindowFits
  BY Bounds, Histories DEF Init, WindowFits, Working
<1>2. WindowFits => WindowIsBounded
  BY DEF WindowFits, Quiet, WindowIsBounded, EstimateBounds
<1> QED
  BY <1>1, <1>2, FitsStep, InvHolds, DiskHolds, PTL DEF Spec

================================================================================

------------------------- MODULE ClientSessionProofs -------------------------
(***************************************************************************)
(* Theorems about ClientSession, for queues of every length: whatever      *)
(* comes while message boxes are open, the client's windows are left with  *)
(* a way on, the chat window's label is true, and no chat message is lost  *)
(* for want of a window.                                                   *)
(***************************************************************************)
EXTENDS ClientSession, SequenceTheorems, WellFoundedInduction, TLAPS

----------------------------------------------------------------------------
(* Sequences, of calls and of messages. *)

In(x, s) == \E i \in 1 .. Len(s) : s[i] = x

\* At most one element of s is in X.
Lone(X, s) == \A i, j \in 1 .. Len(s) : s[i] \in X /\ s[j] \in X => i = j

\* Every chat message has an acceptance before it.
After(s) == \A i \in 1 .. Len(s) : s[i] = "chat" => \E j \in 1 .. i - 1 : s[j] = "accept"

Answers == {"accept", "refuse"}
NoAnswer(s) == ~In("accept", s) /\ ~In("refuse", s)

----------------------------------------------------------------------------
(* What may be on the stack. *)

top(s) == IF s = <<>> THEN "bottom" ELSE Head(s)

\* What y may be when it stands under x. What a box in processMessage leads to stands on onReadyRead.
Follows(x, y) ==
  /\ x \in {"loginSuccessful", "showChatWindow", "loginFailed", "enable"} => y = "read"
  /\ x = "newChatWindow" => y = "showChatWindow"
  /\ x = "logout" => y = "disconnectFromHost"
  /\ x = "disconnectFromHost" => y \in {"enable", "windowClosed"}
  /\ x = "loginOnConnected" => y = "chatOnConnected"
  /\ x \in {"chatOnConnected", "windowClosed"} => y = "bottom"
  /\ y \notin {"newChatWindow", "loginOnConnected"}

Proper(s) ==
  /\ s \in Seq(Dialogs \cup Steps)
  /\ \A i \in 1 .. Len(s) : Follows(s[i], IF i = Len(s) THEN "bottom" ELSE s[i + 1])
  /\ Lone({"read"}, s)

On(x) == In(x, stack)

----------------------------------------------------------------------------
(* The invariant. *)

\* TypeOK, of every variable but the stack.
Ranges ==
  /\ recvBuffer # <<>> => On("read")
  /\ socket \in {"unconnected", "connecting", "connected", "closing"}
  /\ timer \in BOOLEAN /\ button \in BOOLEAN /\ loginShown \in BOOLEAN
  /\ qtBuffer \in Seq(Messages) /\ recvBuffer \in Seq(Messages)
  /\ up \in Seq(Messages) /\ down \in Seq(Messages)
  /\ torn \in {"none", "this", "old"}
  /\ chatWindow \in {"none", "hidden", "shown"} /\ label \in {"Connected", "Disconnected"}
  /\ server \in {"none", "open", "online", "gone"}

\* How far the login of this connection has come: about to be sent, on its way, answered, accepted and
\* read, refused and read, and the chat window open; or the connection is being closed.
Asking   == On("loginOnConnected")
Asked    == In("login", up)
Answered == ~(NoAnswer(recvBuffer) /\ NoAnswer(qtBuffer) /\ NoAnswer(down))
Accepted == On("loginSuccessful") \/ On("showChatWindow")
Refused  == On("loginFailed") \/ On("enable")
Open     == chatWindow = "shown"
Leaving  == socket = "closing" \/ On("logout") \/ On("disconnectFromHost")

\* There is one login on a connection, and it is in one place.
Stages ==
  /\ Asking => ~Asked
  /\ Answered => ~Asking /\ ~Asked
  /\ Accepted => ~Asking /\ ~Asked /\ ~Answered
  /\ Refused => ~Asking /\ ~Asked /\ ~Answered
  /\ Open => ~Asking /\ ~Asked /\ ~Answered /\ ~Accepted /\ ~Refused
  /\ Leaving => ~Asking /\ ~Asked /\ ~Answered /\ ~Accepted
  /\ Lone({"login"}, up)
  /\ Lone(Answers, recvBuffer) /\ Lone(Answers, qtBuffer) /\ Lone(Answers, down)
  /\ NoAnswer(recvBuffer) \/ NoAnswer(qtBuffer)
  /\ NoAnswer(recvBuffer) \/ NoAnswer(down)
  /\ NoAnswer(qtBuffer) \/ NoAnswer(down)

\* What the state of the socket says of the rest.
Phase ==
  /\ socket = "connecting" => stack = <<>> /\ loginShown /\ qtBuffer = <<>>
  /\ socket \in {"unconnected", "connecting"} => up = <<>> /\ down = <<>> /\ server = "none"
  /\ On("connectionLost") \/ On("chatOnDisconnected") => socket = "unconnected"
  /\ torn = "old" => socket \in {"unconnected", "connecting"}
  /\ Asking => socket = "connected"

\* The button Connect is disabled only while something is to come that enables it, and enabled on a
\* connection only while that is being dropped.
Button ==
  /\ loginShown <=> chatWindow # "shown"
  /\ On("newChatWindow") => chatWindow = "none"
  /\ On("showChatWindow") => chatWindow # "none" \/ On("newChatWindow")
  /\ On("windowClosed") => Open
  /\ loginShown /\ button /\ socket \in {"connecting", "connected"} => On("drop")
  /\ On("connectError") /\ socket = "connected" => On("drop")
  /\ loginShown /\ ~button /\ socket = "unconnected" =>
       On("connectError") \/ On("connectionLost") \/ On("enable") \/ On("windowClosed")
  /\ socket = "connected" /\ (On("enable") \/ On("windowClosed")) => On("disconnectFromHost")

\* The chat window is not open, and no acceptance is read or to be read that would open it.
NoHope == ~Open /\ ~Accepted /\ ~In("accept", recvBuffer) /\ ~In("accept", qtBuffer)

\* The label is true, or about to be set, or nobody will see it before it is.
Label ==
  /\ On("chatOnConnected") => NoHope
  /\ On("chatOnConnected") /\ socket # "unconnected" =>
       socket = "connected" /\ top(stack) \in {"loginOnConnected", "chatOnConnected"}
  /\ label = "Connected" => socket \in {"connected", "closing"} \/ On("chatOnDisconnected") \/ NoHope
  /\ socket = "connected" /\ chatWindow # "none" => label = "Connected" \/ On("chatOnConnected")
  /\ Open /\ socket = "closing" => On("windowClosed")
  /\ socket = "connected" => \/ server \in {"online", "gone"}
                             \/ (NoHope /\ ~In("accept", down))

\* As long as there is no chat window, no chat message overtakes the acceptance, which makes one.
Chats ==
  \/ chatWindow # "none" \/ Accepted
  \/ /\ After(recvBuffer)
     /\ After(qtBuffer) \/ In("accept", recvBuffer)
     /\ After(down) \/ In("accept", recvBuffer) \/ In("accept", qtBuffer)
     /\ server = "online" => In("accept", recvBuffer) \/ In("accept", qtBuffer) \/ In("accept", down)

SessionInv == Proper(stack) /\ Ranges /\ Stages /\ Phase /\ Button /\ Label /\ Chats

----------------------------------------------------------------------------
(* Calling and returning. *)

\* Something is called on top of s.
LEMMA Push ==
  ASSUME NEW s, Proper(s), NEW x \in Dialogs \cup Steps, Follows(x, top(s)), x = "read" => ~In("read", s)
  PROVE  LET t == <<x>> \o s
         IN  Proper(t) /\ t # <<>> /\ top(t) = x /\ \A y : In(y, t) <=> y = x \/ In(y, s)
<1> DEFINE I == Dialogs \cup Steps
           t == <<x>> \o s
<1>1. s \in Seq(I) /\ Len(s) \in Nat /\ <<x>> \in Seq(I) /\ Len(<<x>>) = 1 /\ <<x>>[1] = x
  BY LenProperties DEF Proper
<1>2. /\ t \in Seq(I) /\ Len(t) = Len(s) + 1
      /\ \A i \in 1 .. Len(s) + 1 : t[i] = IF i <= 1 THEN <<x>>[i] ELSE s[i - 1]
  BY <1>1, ConcatProperties
<1>3. t[1] = x /\ \A i \in 1 .. Len(s) : t[i + 1] = s[i]
  BY <1>1, <1>2
<1>4. \A i \in 1 .. Len(t) : i = 1 \/ (i - 1 \in 1 .. Len(s) /\ t[i] = s[i - 1])
  BY <1>1, <1>2
<1> HIDE DEF t
<1>5. t # <<>> /\ top(t) = x
  BY <1>1, <1>2, <1>3, EmptySeq, HeadTailProperties DEF top
<1>6. \A y : In(y, t) <=> y = x \/ In(y, s)
  <2> TAKE y
  <2>1. ASSUME NEW i \in 1 .. Len(t), t[i] = y PROVE y = x \/ In(y, s)
    BY <1>3, <1>4, <2>1 DEF In
  <2>2. ASSUME y = x PROVE In(y, t)
    BY <1>1, <1>2, <1>3, <2>2 DEF In
  <2>3. ASSUME NEW i \in 1 .. Len(s), s[i] = y PROVE In(y, t)
    <3>1. i + 1 \in 1 .. Len(t)
      BY <1>1, <1>2
    <3> QED BY <1>3, <2>3, <3>1 DEF In
  <2> QED BY <2>1, <2>2, <2>3 DEF In
<1>7. ASSUME NEW i \in 1 .. Len(t) PROVE Follows(t[i], IF i = Len(t) THEN "bottom" ELSE t[i + 1])
  <2>1. CASE i = 1
    <3>1. (IF i = Len(t) THEN "bottom" ELSE t[i + 1]) = top(s)
      <4>1. CASE s = <<>>
        BY <1>1, <1>2, <2>1, <4>1, EmptySeq DEF top
      <4>2. CASE s # <<>>
        <5>1. Len(s) >= 1 /\ Head(s) = s[1]
          BY <1>1, <4>2, EmptySeq, HeadTailProperties
        <5>2. i # Len(t) /\ t[i + 1] = s[1]
          BY <1>1, <1>2, <1>3, <2>1, <5>1
        <5> QED BY <4>2, <5>1, <5>2 DEF top
      <4> QED BY <4>1, <4>2
    <3> QED BY <1>3, <2>1, <3>1
  <2>2. CASE i # 1
    <3>1. PICK j \in 1 .. Len(s) : j = i - 1 /\ t[i] = s[j]
      BY <1>4, <2>2
    <3>2. (i = Len(t) <=> j = Len(s)) /\ (j # Len(s) => j + 1 \in 1 .. Len(s) /\ i + 1 = (j + 1) + 1)
      BY <1>1, <1>2, <3>1
    <3>3. (IF i = Len(t) THEN "bottom" ELSE t[i + 1]) = IF j = Len(s) THEN "bottom" ELSE s[j + 1]
      BY <1>3, <3>2
    <3> QED BY <3>1, <3>3 DEF Proper
  <2> QED BY <2>1, <2>2
<1>8. Lone({"read"}, t)
  <2> SUFFICES ASSUME NEW i \in 1 .. Len(t), NEW j \in 1 .. Len(t), t[i] = "read", t[j] = "read" PROVE i = j
    BY DEF Lone
  <2>1. CASE i # 1 /\ j # 1
    <3>1. i - 1 \in 1 .. Len(s) /\ j - 1 \in 1 .. Len(s) /\ s[i - 1] = "read" /\ s[j - 1] = "read"
      BY <1>4, <2>1
    <3>2. i - 1 = j - 1
      BY <3>1 DEF Proper, Lone
    <3> QED BY <3>2
  <2>2. CASE x = "read"
    <3>1. ~In("read", s)
      BY <2>2
    <3> QED BY <1>4, <3>1 DEF In
  <2>3. CASE i = 1 /\ j # 1
    BY <1>3, <2>2, <2>3
  <2>4. CASE i # 1 /\ j = 1
    BY <1>3, <2>2, <2>4
  <2> QED BY <2>1, <2>3, <2>4
<1> QED BY <1>2, <1>5, <1>6, <1>7, <1>8 DEF t, Proper

\* The innermost call returns.
LEMMA Pop ==
  ASSUME NEW s, Proper(s), s # <<>>
  PROVE  /\ Proper(Tail(s)) /\ Head(s) \in Dialogs \cup Steps /\ Follows(Head(s), top(Tail(s)))
         /\ top(s) = Head(s)
         /\ \A y : In(y, s) <=> y = Head(s) \/ In(y, Tail(s))
         /\ Head(s) = "read" => ~In("read", Tail(s))
<1> DEFINE I == Dialogs \cup Steps
           t == Tail(s)
<1>1. /\ s \in Seq(I) /\ Len(s) \in Nat /\ Len(s) >= 1 /\ Head(s) = s[1] /\ t \in Seq(I) /\ Len(t) = Len(s) - 1
      /\ \A i \in 1 .. Len(t) : t[i] = s[i + 1]
  BY EmptySeq, LenProperties, HeadTailProperties DEF Proper
<1>2. s[1] \in I
  BY <1>1, ElementOfSeq
<1> HIDE DEF t
<1>3. \A i \in 1 .. Len(s) : i = 1 \/ (i - 1 \in 1 .. Len(t) /\ s[i] = t[i - 1])
  BY <1>1
<1>4. \A y : In(y, s) <=> y = Head(s) \/ In(y, t)
  <2> TAKE y
  <2>1. ASSUME NEW i \in 1 .. Len(s), s[i] = y PROVE y = Head(s) \/ In(y, t)
    BY <1>1, <1>3, <2>1 DEF In
  <2>2. ASSUME y = Head(s) PROVE In(y, s)
    BY <1>1, <2>2 DEF In
  <2>3. ASSUME NEW i \in 1 .. Len(t), t[i] = y PROVE In(y, s)
    <3>1. i + 1 \in 1 .. Len(s)
      BY <1>1
    <3> QED BY <1>1, <2>3, <3>1 DEF In
  <2> QED BY <2>1, <2>2, <2>3 DEF In
<1>5. ASSUME NEW j \in 1 .. Len(t) PROVE Follows(t[j], IF j = Len(t) THEN "bottom" ELSE t[j + 1])
  <2>1. PICK i \in 1 .. Len(s) : i = j + 1
    BY <1>1
  <2>2. Follows(s[i], IF i = Len(s) THEN "bottom" ELSE s[i + 1])
    BY DEF Proper
  <2>3. (i = Len(s) <=> j = Len(t)) /\ (j # Len(t) => j + 1 \in 1 .. Len(t) /\ i + 1 = (j + 1) + 1)
    BY <1>1, <2>1
  <2>4. (IF i = Len(s) THEN "bottom" ELSE s[i + 1]) = IF j = Len(t) THEN "bottom" ELSE t[j + 1]
    BY <1>1, <2>3
  <2> QED BY <1>1, <2>1, <2>2, <2>4
<1>6. Lone({"read"}, t)
  <2> SUFFICES ASSUME NEW i \in 1 .. Len(t), NEW j \in 1 .. Len(t), t[i] = "read", t[j] = "read" PROVE i = j
    BY DEF Lone
  <2>1. i + 1 \in 1 .. Len(s) /\ j + 1 \in 1 .. Len(s) /\ s[i + 1] = "read" /\ s[j + 1] = "read"
    BY <1>1
  <2>2. i + 1 = j + 1
    BY <2>1 DEF Proper, Lone
  <2> QED BY <2>2
<1>7. Follows(Head(s), top(t))
  <2>1. Follows(s[1], IF 1 = Len(s) THEN "bottom" ELSE s[2])
    BY <1>1 DEF Proper
  <2>2. CASE t = <<>>
    BY <1>1, <2>1, <2>2, EmptySeq DEF top
  <2>3. CASE t # <<>>
    BY <1>1, <2>1, <2>3, EmptySeq, HeadTailProperties DEF top
  <2> QED BY <2>2, <2>3
<1>8. ASSUME Head(s) = "read", NEW i \in 1 .. Len(t), t[i] = "read" PROVE FALSE
  <2>1. i + 1 \in 1 .. Len(s) /\ 1 \in 1 .. Len(s) /\ s[i + 1] = "read" /\ s[1] = "read"
    BY <1>1, <1>8
  <2>2. i + 1 = 1
    BY <2>1 DEF Proper, Lone
  <2> QED BY <1>8, <2>2
<1>9. top(s) = Head(s)
  BY DEF top
<1> QED BY <1>1, <1>2, <1>4, <1>5, <1>6, <1>7, <1>8, <1>9 DEF t, Proper, In

\* What is called from a box inside onReadyRead.
Onto == {"loginSuccessful", "showChatWindow", "loginFailed", "enable"}

\* It stands on onReadyRead, which is not innermost then.
LEMMA Below ==
  ASSUME NEW s, Proper(s), NEW y \in Onto, In(y, s)
  PROVE  s # <<>> /\ In("read", Tail(s)) /\ Head(s) # "read"
<1>1. s \in Seq(Dialogs \cup Steps) /\ Len(s) \in Nat
  BY LenProperties DEF Proper
<1>2. PICK i \in 1 .. Len(s) : s[i] = y
  BY DEF In
<1>3. i # Len(s) /\ s[i + 1] = "read"
  <2>1. Follows(y, IF i = Len(s) THEN "bottom" ELSE s[i + 1])
    BY <1>2 DEF Proper
  <2> QED BY <2>1 DEF Follows, Onto
<1>4. s # <<>>
  BY <1>1, <1>2, EmptySeq
<1>5. i \in 1 .. Len(Tail(s)) /\ Tail(s)[i] = s[i + 1]
  BY <1>1, <1>3, <1>4, HeadTailProperties
<1>6. In("read", Tail(s))
  BY <1>3, <1>5 DEF In
<1> QED BY <1>4, <1>6, Pop

\* There is one such thing at a time.
LEMMA Alone ==
  ASSUME NEW s, Proper(s), s # <<>>
  PROVE  /\ Head(s) \in Onto => \A y \in Onto : ~In(y, Tail(s))
         /\ Head(s) = "newChatWindow" => \A y \in Onto : In(y, Tail(s)) => y = "showChatWindow"
         /\ Head(s) = "read" => \A y \in Onto : ~In(y, s)
<1>1. Proper(Tail(s)) /\ Follows(Head(s), top(Tail(s)))
  BY Pop
<1>2. ASSUME Head(s) \in Onto, NEW y \in Onto, In(y, Tail(s)) PROVE FALSE
  <2>1. Tail(s) # <<>> /\ Head(Tail(s)) # "read"
    BY <1>1, <1>2, Below
  <2> QED BY <1>1, <1>2, <2>1 DEF Follows, top, Onto
<1>3. ASSUME Head(s) = "newChatWindow", NEW y \in Onto, In(y, Tail(s)), y # "showChatWindow" PROVE FALSE
  <2>1. Tail(s) # <<>> /\ Head(Tail(s)) = "showChatWindow"
    BY <1>1, <1>3, Below DEF Follows, top
  <2>2. /\ Proper(Tail(Tail(s))) /\ Follows(Head(Tail(s)), top(Tail(Tail(s))))
        /\ In(y, Tail(s)) <=> y = Head(Tail(s)) \/ In(y, Tail(Tail(s)))
    BY <1>1, <2>1, Pop
  <2>3. In(y, Tail(Tail(s)))
    BY <1>3, <2>1, <2>2
  <2>4. Tail(Tail(s)) # <<>> /\ Head(Tail(Tail(s))) # "read"
    BY <1>3, <2>2, <2>3, Below
  <2> QED BY <2>1, <2>2, <2>4 DEF Follows, top
<1>4. ASSUME Head(s) = "read", NEW y \in Onto, In(y, s) PROVE FALSE
  BY <1>4, Below
<1> QED BY <1>2, <1>3, <1>4

\* Two or three things are called at once.
LEMMA Pairs ==
  ASSUME NEW s \in Seq(Dialogs \cup Steps), NEW x \in Dialogs \cup Steps, NEW y \in Dialogs \cup Steps
  PROVE  <<x, y>> \o s = <<x>> \o (<<y>> \o s) /\ <<x>> \o <<y>> = <<x, y>> /\ <<>> \o <<y>> = <<y>>
<1> DEFINE I == Dialogs \cup Steps
<1> HIDE DEF I
<1>0. s \in Seq(I) /\ x \in I /\ y \in I
  BY DEF I
<1>1. /\ <<x>> \in Seq(I) /\ <<y>> \in Seq(I) /\ <<x, y>> \in Seq(I) /\ <<>> \in Seq(I)
      /\ Len(<<x>>) = 1 /\ Len(<<y>>) = 1 /\ Len(<<x, y>>) = 2 /\ <<x>>[1] = x /\ <<y>>[1] = y
      /\ <<x, y>>[1] = x /\ <<x, y>>[2] = y
  BY <1>0
<1>2. <<x>> \o <<y>> = <<x, y>>
  <2>1. /\ <<x>> \o <<y>> \in Seq(I) /\ Len(<<x>> \o <<y>>) = 2
        /\ \A i \in 1 .. 2 : (<<x>> \o <<y>>)[i] = IF i <= 1 THEN <<x>>[i] ELSE <<y>>[i - 1]
    BY <1>0, <1>1, ConcatProperties
  <2>2. (<<x>> \o <<y>>)[1] = x /\ (<<x>> \o <<y>>)[2] = y
    BY <1>0, <1>1, <2>1
  <2>3. \A i \in 1 .. Len(<<x, y>>) : <<x, y>>[i] = (<<x>> \o <<y>>)[i]
    BY <1>0, <1>1, <2>2
  <2> QED BY <1>0, <1>1, <2>1, <2>3, SeqEqual
<1>3. (<<x>> \o <<y>>) \o s = <<x>> \o (<<y>> \o s)
  BY <1>0, <1>1, ConcatAssociative
<1>4. <<>> \o <<y>> = <<y>>
  BY <1>0, <1>1, ConcatEmptySeq
<1> QED BY <1>2, <1>3, <1>4

----------------------------------------------------------------------------
(* Messages that come and go. *)

\* There is nothing in an empty queue.
LEMMA NoMessages ==
  <<>> \in Seq(Messages) /\ After(<<>>) /\ \A y, X : ~In(y, <<>>) /\ Lone(X, <<>>)
<1>1. <<>> \in Seq(Messages) /\ Len(<<>>) = 0
  BY EmptySeq
<1> QED BY <1>1 DEF After, In, Lone

\* Messages behind messages.
LEMMA JoinMessages ==
  ASSUME NEW s \in Seq(Messages), NEW t \in Seq(Messages)
  PROVE  /\ s \o t \in Seq(Messages)
         /\ \A y : In(y, s \o t) <=> In(y, s) \/ In(y, t)
         /\ After(s) /\ (After(t) \/ In("accept", s)) => After(s \o t)
         /\ \A X : /\ Lone(X, s) /\ Lone(X, t)
                   /\ (\A y \in X : ~In(y, s)) \/ (\A y \in X : ~In(y, t))
                   => Lone(X, s \o t)
<1> DEFINE u == s \o t
<1>1. /\ Len(s) \in Nat /\ Len(t) \in Nat /\ u \in Seq(Messages) /\ Len(u) = Len(s) + Len(t)
      /\ \A i \in 1 .. Len(s) + Len(t) : u[i] = IF i <= Len(s) THEN s[i] ELSE t[i - Len(s)]
  BY LenProperties, ConcatProperties
<1> HIDE DEF u
<1>2. /\ \A i \in 1 .. Len(s) : i \in 1 .. Len(u) /\ u[i] = s[i]
      /\ \A i \in 1 .. Len(t) : Len(s) + i \in 1 .. Len(u) /\ u[Len(s) + i] = t[i]
  <2>1. \A i \in 1 .. Len(t) : (Len(s) + i) - Len(s) = i /\ ~(Len(s) + i <= Len(s)) /\ Len(s) + i \in 1 .. Len(s) + Len(t)
    BY <1>1
  <2> QED BY <1>1, <2>1
<1>3. \A i \in 1 .. Len(u) : \/ i \in 1 .. Len(s) /\ u[i] = s[i]
                             \/ i - Len(s) \in 1 .. Len(t) /\ u[i] = t[i - Len(s)]
  BY <1>1
<1>4. \A y : In(y, u) <=> In(y, s) \/ In(y, t)
  BY <1>2, <1>3 DEF In
<1>5. ASSUME After(s), After(t) \/ In("accept", s) PROVE After(u)
  <2> SUFFICES ASSUME NEW i \in 1 .. Len(u), u[i] = "chat" PROVE \E j \in 1 .. i - 1 : u[j] = "accept"
    BY DEF After
  <2>1. CASE i \in 1 .. Len(s) /\ u[i] = s[i]
    <3>1. PICK j \in 1 .. i - 1 : s[j] = "accept"
      BY <1>5, <2>1 DEF After
    <3>2. j \in 1 .. Len(s)
      BY <1>1, <2>1
    <3> QED BY <1>2, <3>1, <3>2
  <2>2. CASE i - Len(s) \in 1 .. Len(t) /\ u[i] = t[i - Len(s)]
    <3>1. CASE In("accept", s)
      <4>1. PICK j \in 1 .. Len(s) : s[j] = "accept"
        BY <3>1 DEF In
      <4>2. j \in 1 .. i - 1 /\ u[j] = "accept"
        BY <1>1, <1>2, <2>2, <4>1
      <4> QED BY <4>2
    <3>2. CASE After(t)
      <4>1. PICK j \in 1 .. (i - Len(s)) - 1 : t[j] = "accept"
        BY <2>2, <3>2 DEF After
      <4>2. j \in 1 .. Len(t) /\ Len(s) + j \in 1 .. i - 1
        BY <1>1, <2>2
      <4> QED BY <1>2, <4>1, <4>2
    <3> QED BY <1>5, <3>1, <3>2
  <2> QED BY <1>3, <2>1, <2>2
<1>6. ASSUME NEW X, Lone(X, s), Lone(X, t), (\A y \in X : ~In(y, s)) \/ (\A y \in X : ~In(y, t))
      PROVE  Lone(X, u)
  <2> SUFFICES ASSUME NEW i \in 1 .. Len(u), NEW j \in 1 .. Len(u), u[i] \in X, u[j] \in X PROVE i = j
    BY DEF Lone
  <2>1. CASE \A y \in X : ~In(y, t)
    <3>1. \A k \in 1 .. Len(t) : t[k] \notin X
      BY <2>1 DEF In
    <3>2. i \in 1 .. Len(s) /\ u[i] = s[i] /\ j \in 1 .. Len(s) /\ u[j] = s[j]
      BY <1>3, <3>1
    <3> QED BY <1>6, <3>2 DEF Lone
  <2>2. CASE \A y \in X : ~In(y, s)
    <3>1. \A k \in 1 .. Len(s) : s[k] \notin X
      BY <2>2 DEF In
    <3>2. /\ i - Len(s) \in 1 .. Len(t) /\ u[i] = t[i - Len(s)]
          /\ j - Len(s) \in 1 .. Len(t) /\ u[j] = t[j - Len(s)]
      BY <1>3, <3>1
    <3>3. i - Len(s) = j - Len(s)
      BY <1>6, <3>2 DEF Lone
    <3> QED BY <1>1, <3>3
  <2> QED BY <1>6, <2>1, <2>2
<1> QED BY <1>1, <1>4, <1>5, <1>6 DEF u

\* One message more.
LEMMA OneMore ==
  ASSUME NEW s \in Seq(Messages), NEW m \in Messages
  PROVE  /\ Append(s, m) \in Seq(Messages)
         /\ \A y : In(y, Append(s, m)) <=> In(y, s) \/ y = m
         /\ After(s) /\ (m # "chat" \/ In("accept", s)) => After(Append(s, m))
         /\ \A X : Lone(X, s) /\ (m \in X => \A y \in X : ~In(y, s)) => Lone(X, Append(s, m))
<1>1. <<m>> \in Seq(Messages) /\ Len(<<m>>) = 1 /\ <<m>>[1] = m /\ Append(s, m) = s \o <<m>>
  BY AppendIsConcat
<1>2. \A y : In(y, <<m>>) <=> y = m
  BY <1>1 DEF In
<1>3. \A X : Lone(X, <<m>>) /\ (m \notin X => \A y \in X : ~In(y, <<m>>))
  BY <1>1, <1>2 DEF Lone
<1>4. m # "chat" => After(<<m>>)
  BY <1>1 DEF After
<1> QED BY <1>1, <1>2, <1>3, <1>4, JoinMessages

\* The first message is taken.
LEMMA OneLess ==
  ASSUME NEW s \in Seq(Messages), s # <<>>
  PROVE  /\ Tail(s) \in Seq(Messages) /\ Head(s) \in Messages
         /\ \A y : In(y, s) <=> y = Head(s) \/ In(y, Tail(s))
         /\ After(s) => Head(s) # "chat" /\ (Head(s) # "accept" => After(Tail(s)))
         /\ \A X : Lone(X, s) => Lone(X, Tail(s)) /\ (Head(s) \in X => \A y \in X : ~In(y, Tail(s)))
<1> DEFINE t == Tail(s)
<1>1. /\ Len(s) \in Nat /\ Len(s) >= 1 /\ Head(s) = s[1] /\ t \in Seq(Messages) /\ Len(t) = Len(s) - 1
      /\ \A i \in 1 .. Len(t) : t[i] = s[i + 1]
      /\ Head(s) \in Messages
  BY EmptySeq, LenProperties, HeadTailProperties
<1> HIDE DEF t
<1>2. \A i \in 1 .. Len(s) : i = 1 \/ (i - 1 \in 1 .. Len(t) /\ s[i] = t[i - 1])
  BY <1>1
<1>3. \A i \in 1 .. Len(t) : i + 1 \in 1 .. Len(s)
  BY <1>1
<1>4. \A y : In(y, s) <=> y = Head(s) \/ In(y, t)
  <2> TAKE y
  <2>1. 1 \in 1 .. Len(s)
    BY <1>1
  <2> QED BY <1>1, <1>2, <1>3, <2>1 DEF In
<1>5. ASSUME After(s) PROVE Head(s) # "chat" /\ (Head(s) # "accept" => After(t))
  <2>1. Head(s) # "chat"
    BY <1>1, <1>5 DEF After
  <2>2. ASSUME Head(s) # "accept", NEW i \in 1 .. Len(t), t[i] = "chat" PROVE \E j \in 1 .. i - 1 : t[j] = "accept"
    <3>1. PICK j \in 1 .. (i + 1) - 1 : s[j] = "accept"
      BY <1>1, <1>3, <1>5, <2>2 DEF After
    <3>2. j # 1 /\ j - 1 \in 1 .. i - 1 /\ j \in 1 .. Len(s)
      BY <1>1, <2>2, <3>1
    <3> QED BY <1>2, <3>1, <3>2
  <2> QED BY <2>1, <2>2 DEF After
<1>6. ASSUME NEW X, Lone(X, s) PROVE Lone(X, t)
  <2> SUFFICES ASSUME NEW i \in 1 .. Len(t), NEW j \in 1 .. Len(t), t[i] \in X, t[j] \in X PROVE i = j
    BY DEF Lone
  <2>1. i + 1 = j + 1
    BY <1>1, <1>3, <1>6 DEF Lone
  <2> QED BY <2>1
<1>7. ASSUME NEW X, Lone(X, s), Head(s) \in X, NEW y \in X, In(y, t) PROVE FALSE
  <2>1. PICK i \in 1 .. Len(t) : t[i] = y
    BY <1>7 DEF In
  <2>2. i + 1 \in 1 .. Len(s) /\ 1 \in 1 .. Len(s) /\ s[i + 1] \in X /\ s[1] \in X
    BY <1>1, <1>3, <1>7, <2>1
  <2>3. i + 1 = 1
    BY <1>7, <2>2 DEF Lone
  <2> QED BY <2>3
<1> QED BY <1>1, <1>4, <1>5, <1>6, <1>7 DEF t

\* Messages are cut off in front.
LEMMA CutMessages ==
  ASSUME NEW s \in Seq(Messages), NEW n \in 0 .. Len(s)
  PROVE  LET p == SubSeq(s, 1, n)
             q == SubSeq(s, n + 1, Len(s))
         IN  /\ p \in Seq(Messages) /\ q \in Seq(Messages) /\ Len(p) = n
             /\ \A y : In(y, s) <=> In(y, p) \/ In(y, q)
             /\ After(s) => After(p) /\ (After(q) \/ In("accept", p))
             /\ \A X : Lone(X, s) => /\ Lone(X, p) /\ Lone(X, q)
                                     /\ (\A y \in X : ~In(y, p)) \/ (\A y \in X : ~In(y, q))
<1> DEFINE p == SubSeq(s, 1, n)
           q == SubSeq(s, n + 1, Len(s))
<1>1. Len(s) \in Nat /\ \A i \in 1 .. Len(s) : s[i] \in Messages
  BY LenProperties, ElementOfSeq
<1>2. p \in Seq(Messages) /\ Len(p) = n /\ \A i \in 1 .. n : p[i] = s[i]
  <2>1. \A i \in 1 .. n : s[i] \in Messages
    BY <1>1
  <2> QED BY <1>1, <2>1, SubSeqProperties
<1>3. q \in Seq(Messages) /\ Len(q) = Len(s) - n /\ \A i \in 1 .. Len(s) - n : q[i] = s[n + i]
  <2>1. \A i \in n + 1 .. Len(s) : s[i] \in Messages
    BY <1>1
  <2>2. /\ q \in Seq(Messages) /\ Len(q) = IF n + 1 <= Len(s) THEN Len(s) - (n + 1) + 1 ELSE 0
        /\ \A i \in 1 .. Len(s) - (n + 1) + 1 : q[i] = s[n + 1 + i - 1]
    BY <1>1, <2>1, SubSeqProperties
  <2> QED BY <1>1, <2>2
<1> HIDE DEF p, q
<1>4. /\ \A i \in 1 .. Len(p) : i \in 1 .. Len(s) /\ p[i] = s[i]
      /\ \A i \in 1 .. Len(q) : n + i \in 1 .. Len(s) /\ q[i] = s[n + i]
      /\ \A i \in 1 .. Len(s) : i \in 1 .. Len(p) \/ (i - n \in 1 .. Len(q) /\ q[i - n] = s[i])
  <2>1. \A i \in 1 .. Len(p) : i \in 1 .. Len(s) /\ p[i] = s[i]
    BY <1>1, <1>2
  <2>2. \A i \in 1 .. Len(q) : n + i \in 1 .. Len(s) /\ q[i] = s[n + i]
    BY <1>1, <1>3
  <2>3. ASSUME NEW i \in 1 .. Len(s), i \notin 1 .. Len(p) PROVE i - n \in 1 .. Len(q) /\ q[i - n] = s[i]
    <3>1. i - n \in 1 .. Len(s) - n /\ n + (i - n) = i
      BY <1>1, <1>2, <2>3
    <3> QED BY <1>3, <3>1
  <2> QED BY <2>1, <2>2, <2>3
<1>5. \A y : In(y, s) <=> In(y, p) \/ In(y, q)
  BY <1>4 DEF In
<1>6. ASSUME After(s) PROVE After(p) /\ (After(q) \/ In("accept", p))
  <2>1. ASSUME NEW i \in 1 .. Len(p), p[i] = "chat" PROVE \E j \in 1 .. i - 1 : p[j] = "accept"
    <3>1. PICK j \in 1 .. i - 1 : s[j] = "accept"
      BY <1>4, <1>6, <2>1 DEF After
    <3>2. j \in 1 .. Len(p)
      BY <1>1, <1>2
    <3> QED BY <1>4, <3>1, <3>2
  <2>2. ASSUME NEW i \in 1 .. Len(q), q[i] = "chat", ~In("accept", p) PROVE \E j \in 1 .. i - 1 : q[j] = "accept"
    <3>1. PICK j \in 1 .. n + i - 1 : s[j] = "accept"
      BY <1>4, <1>6, <2>2 DEF After
    <3>2. j \in 1 .. Len(s)
      BY <1>1, <1>4
    <3>3. j - n \in 1 .. Len(q) /\ q[j - n] = "accept"
      BY <1>4, <2>2, <3>1, <3>2 DEF In
    <3>4. j - n \in 1 .. i - 1
      BY <1>1, <1>3, <3>3
    <3> QED BY <3>3, <3>4
  <2> QED BY <2>1, <2>2 DEF After
<1>7. ASSUME NEW X, Lone(X, s)
      PROVE  Lone(X, p) /\ Lone(X, q) /\ ((\A y \in X : ~In(y, p)) \/ (\A y \in X : ~In(y, q)))
  <2>1. Lone(X, p)
    BY <1>4, <1>7 DEF Lone
  <2>2. ASSUME NEW i \in 1 .. Len(q), NEW j \in 1 .. Len(q), q[i] \in X, q[j] \in X PROVE i = j
    <3>1. n + i = n + j
      BY <1>4, <1>7, <2>2 DEF Lone
    <3> QED BY <1>1, <3>1
  <2>3. ASSUME NEW i \in 1 .. Len(p), NEW j \in 1 .. Len(q), p[i] \in X, q[j] \in X PROVE FALSE
    <3>1. i = n + j
      BY <1>4, <1>7, <2>3 DEF Lone
    <3> QED BY <1>1, <1>2, <3>1
  <2> QED BY <2>1, <2>2, <2>3 DEF Lone, In
<1> QED BY <1>2, <1>3, <1>5, <1>6, <1>7 DEF p, q

\* A heartbeat's answer is left out.
LEMMA LeaveOut ==
  ASSUME NEW s \in Seq(Messages)
  PROVE  LET t == RemoveFirst(s, "heartbeat")
         IN  /\ t \in Seq(Messages)
             /\ \A y : y # "heartbeat" => (In(y, t) <=> In(y, s))
             /\ After(s) => After(t)
             /\ \A X : Lone(X, s) => Lone(X, t)
<1> DEFINE t == RemoveFirst(s, "heartbeat")
<1>1. CASE ~\E i \in 1 .. Len(s) : s[i] = "heartbeat"
  BY <1>1 DEF RemoveFirst
<1>2. CASE \E i \in 1 .. Len(s) : s[i] = "heartbeat"
  <2>1. Len(s) \in Nat /\ \A i \in 1 .. Len(s) : s[i] \in Messages
    BY LenProperties, ElementOfSeq
  <2>2. PICK m \in 1 .. Len(s) : s[m] = "heartbeat" /\ t = RemoveAt(s, m)
    <3> DEFINE I == {i \in 1 .. Len(s) : s[i] = "heartbeat"}
               least == CHOOSE x \in I : \A y \in I : x =< y
    <3>1. I # {} /\ I \in SUBSET Nat
      BY <1>2, <2>1
    <3>2. least \in I
      <4>1. \E x \in I : \A y \in I : x =< y
        <5> HIDE DEF I
        <5>1. PICK x \in I : \A y \in I : <<y, x>> \notin OpToRel(<, Nat)
          BY <3>1, NatLessThanWellFounded, WFMin
        <5>2. \A y \in I : ~(y < x)
          BY <3>1, <5>1, Zenon DEF OpToRel
        <5> QED BY <3>1, <5>2
      <4> HIDE DEF I
      <4> QED BY <4>1
    <3>3. t = RemoveAt(s, least)
      BY <1>2, <3>1 DEF RemoveFirst, SelectInSeq, Min
    <3> HIDE DEF least
    <3> QED BY <3>2, <3>3
  <2>3. m - 1 \in 0 .. Len(s) /\ m \in 0 .. Len(s) /\ (m - 1) + 1 = m
    BY <2>1
  <2> DEFINE p == SubSeq(s, 1, m - 1)
             r == SubSeq(s, m, Len(s))
             q == SubSeq(s, m + 1, Len(s))
  <2>4. t = p \o q
    BY <2>2 DEF RemoveAt
  <2>5. /\ p \in Seq(Messages) /\ Len(p) = m - 1 /\ r \in Seq(Messages)
        /\ \A y : In(y, s) <=> In(y, p) \/ In(y, r)
        /\ After(s) => After(p) /\ (After(r) \/ In("accept", p))
        /\ \A X : Lone(X, s) => /\ Lone(X, p) /\ Lone(X, r)
                                /\ (\A y \in X : ~In(y, p)) \/ (\A y \in X : ~In(y, r))
    BY <2>3, CutMessages
  <2>6. r # <<>> /\ Head(r) = "heartbeat" /\ Tail(r) = q
    <3>1. m \in 1 .. Len(s) /\ Len(s) \in m .. Len(s)
      BY <2>1
    <3>2. Head(r) = s[m] /\ Tail(r) = q
      BY <3>1, HeadTailOfSubSeq
    <3>3. Len(r) # 0
      BY <2>1, <3>1, SubSeqProperties
    <3> QED BY <2>2, <3>2, <3>3, EmptySeq
  <2>7. /\ q \in Seq(Messages)
        /\ \A y : In(y, r) <=> y = "heartbeat" \/ In(y, q)
        /\ After(r) => After(q)
        /\ \A X : Lone(X, r) => Lone(X, q)
    <3> HIDE DEF p, q, r
    <3>1. /\ Tail(r) \in Seq(Messages)
          /\ \A y : In(y, r) <=> y = Head(r) \/ In(y, Tail(r))
          /\ After(r) => (Head(r) # "accept" => After(Tail(r)))
          /\ \A X : Lone(X, r) => Lone(X, Tail(r))
      BY <2>5, <2>6, OneLess
    <3> QED BY <2>6, <3>1
  <2> HIDE DEF p, q, r, t
  <2>8. /\ t \in Seq(Messages)
        /\ \A y : In(y, t) <=> In(y, p) \/ In(y, q)
        /\ After(p) /\ (After(q) \/ In("accept", p)) => After(t)
        /\ \A X : /\ Lone(X, p) /\ Lone(X, q)
                  /\ (\A y \in X : ~In(y, p)) \/ (\A y \in X : ~In(y, q))
                  => Lone(X, t)
    BY <2>4, <2>5, <2>7, JoinMessages
  <2>9. \A y : y # "heartbeat" => (In(y, t) <=> In(y, s))
    BY <2>5, <2>7, <2>8
  <2>10. After(s) => After(t)
    BY <2>5, <2>7, <2>8
  <2>11. ASSUME NEW X, Lone(X, s) PROVE Lone(X, t)
    <3>1. Lone(X, p) /\ Lone(X, r) /\ ((\A y \in X : ~In(y, p)) \/ (\A y \in X : ~In(y, r)))
      BY <2>5, <2>11
    <3>2. Lone(X, q)
      BY <2>7, <3>1
    <3>3. (\A y \in X : ~In(y, p)) \/ (\A y \in X : ~In(y, q))
      BY <2>7, <3>1
    <3> QED BY <2>8, <3>1, <3>2, <3>3
  <2> QED BY <2>8, <2>9, <2>10, <2>11 DEF t
<1> QED BY <1>1, <1>2

----------------------------------------------------------------------------
(* Several calls at once, and none. *)

\* Nothing is begun.
LEMMA Bottom == Proper(<<>>) /\ top(<<>>) = "bottom" /\ \A y : ~In(y, <<>>)
<1>1. <<>> \in Seq(Dialogs \cup Steps) /\ Len(<<>>) = 0
  BY EmptySeq
<1> QED BY <1>1 DEF Proper, Lone, In, top

\* A call that goes on with another, on top of s.
LEMMA PushTwo ==
  ASSUME NEW s, Proper(s), NEW x \in (Dialogs \cup Steps) \ {"read"}, NEW y \in (Dialogs \cup Steps) \ {"read"},
         Follows(x, y), Follows(y, top(s))
  PROVE  LET t == <<x, y>> \o s
         IN  /\ Proper(t) /\ t # <<>> /\ top(t) = x /\ \A z : In(z, t) <=> z = x \/ z = y \/ In(z, s)
<1> DEFINE I == Dialogs \cup Steps
           r == <<y>> \o s
<1>1. Proper(r) /\ r # <<>> /\ top(r) = y /\ \A z : In(z, r) <=> z = y \/ In(z, s)
  BY Push
<1>2. s \in Seq(I) /\ x \in I /\ y \in I
  BY DEF Proper
<1>3. <<x, y>> \o s = <<x>> \o r /\ <<x>> \o <<y>> = <<x, y>>
  <2>1. <<x, y>> \o s = <<x>> \o (<<y>> \o s) /\ <<x>> \o <<y>> = <<x, y>>
    BY <1>2, Pairs
  <2> QED BY <2>1
<1> HIDE DEF r
<1> DEFINE t == <<x>> \o r
<1>4. Proper(t) /\ t # <<>> /\ top(t) = x /\ \A z : In(z, t) <=> z = x \/ In(z, r)
  BY <1>1, Push
<1> HIDE DEF t
<1>5. \A z : In(z, t) <=> z = x \/ z = y \/ In(z, s)
  BY <1>1, <1>4
<1>6. <<x, y>> \o s = t
  BY <1>3 DEF t
<1> QED BY <1>4, <1>5, <1>6

\* A box that leads to leaving, on top of s.
LEMMA PushThree ==
  ASSUME NEW s, Proper(s), NEW y \in {"enable", "windowClosed"}, Follows(y, top(s))
  PROVE  LET t == <<"logout", "disconnectFromHost", y>> \o s
         IN  /\ Proper(t) /\ t # <<>> /\ top(t) = "logout"
             /\ \A z : In(z, t) <=> z = "logout" \/ z = "disconnectFromHost" \/ z = y \/ In(z, s)
<1> DEFINE I == Dialogs \cup Steps
           r == <<y>> \o s
<1>1. s \in Seq(I) /\ y \in I
  BY DEF Proper, Steps
<1>2. Proper(r) /\ r # <<>> /\ top(r) = y /\ \A z : In(z, r) <=> z = y \/ In(z, s)
  BY <1>1, Push
<1>3. <<"logout", "disconnectFromHost", y>> \o s = <<"logout", "disconnectFromHost">> \o r
  <2>1. /\ <<"logout", "disconnectFromHost">> \in Seq(I) /\ <<y>> \in Seq(I)
        /\ <<"logout", "disconnectFromHost", y>> \in Seq(I)
    BY <1>1 DEF Steps
  <2>2. <<"logout", "disconnectFromHost">> \o <<y>> = <<"logout", "disconnectFromHost", y>>
    <3>1. Append(<<"logout", "disconnectFromHost">>, y) = <<"logout", "disconnectFromHost", y>>
      <4> DEFINE a == Append(<<"logout", "disconnectFromHost">>, y)
                 b == <<"logout", "disconnectFromHost", y>>
      <4>1. /\ a \in Seq(I) /\ Len(a) = 3
            /\ a[1] = "logout" /\ a[2] = "disconnectFromHost" /\ a[3] = y
        BY <1>1, <2>1, AppendProperties
      <4>2. Len(b) = 3 /\ b[1] = "logout" /\ b[2] = "disconnectFromHost" /\ b[3] = y
        OBVIOUS
      <4> HIDE DEF a, b
      <4>3. \A i \in 1 .. Len(a) : a[i] = b[i]
        BY <4>1, <4>2
      <4>4. b \in Seq(I)
        BY <2>1 DEF b
      <4>5. a = b
        BY <4>1, <4>2, <4>3, <4>4, SeqEqual
      <4> QED BY <4>5 DEF a, b
    <3>2. Append(<<"logout", "disconnectFromHost">>, y) = <<"logout", "disconnectFromHost">> \o <<y>>
      BY <1>1, <2>1, AppendIsConcat
    <3> QED BY <3>1, <3>2
  <2> QED BY <1>1, <2>1, <2>2, ConcatAssociative
<1> HIDE DEF r
<1> DEFINE t == <<"logout", "disconnectFromHost">> \o r
<1>4. Follows("logout", "disconnectFromHost") /\ Follows("disconnectFromHost", y)
  BY DEF Follows
<1>5. /\ Proper(t) /\ t # <<>> /\ top(t) = "logout"
      /\ \A z : In(z, t) <=> z = "logout" \/ z = "disconnectFromHost" \/ In(z, r)
  BY <1>2, <1>4, PushTwo DEF Steps
<1> HIDE DEF t
<1>6. \A z : In(z, t) <=> z = "logout" \/ z = "disconnectFromHost" \/ z = y \/ In(z, s)
  BY <1>2, <1>5
<1>7. <<"logout", "disconnectFromHost", y>> \o s = t
  BY <1>3 DEF t
<1> QED BY <1>5, <1>6, <1>7

\* What is called and calls the next thing at once is innermost.
LEMMA OnTop ==
  ASSUME NEW s, Proper(s), NEW y \in {"newChatWindow", "loginOnConnected"}, In(y, s)
  PROVE  s # <<>> /\ Head(s) = y /\ ~In(y, Tail(s))
<1>1. s \in Seq(Dialogs \cup Steps) /\ Len(s) \in Nat
  BY LenProperties DEF Proper
<1>2. ASSUME NEW i \in 1 .. Len(s), s[i] = y PROVE i = 1
  <2>1. CASE i # 1
    <3>1. i - 1 \in 1 .. Len(s) /\ i - 1 # Len(s) /\ (i - 1) + 1 = i
      BY <1>1, <2>1
    <3>2. Follows(s[i - 1], s[i])
      BY <3>1 DEF Proper
    <3> QED BY <1>2, <3>2 DEF Follows
  <2> QED BY <2>1
<1>3. s # <<>> /\ Head(s) = s[1] /\ Len(Tail(s)) = Len(s) - 1 /\ \A i \in 1 .. Len(Tail(s)) : Tail(s)[i] = s[i + 1]
  <2>1. s # <<>>
    BY <1>1, EmptySeq DEF In
  <2> QED BY <1>1, <2>1, HeadTailProperties
<1>4. Head(s) = y
  BY <1>2, <1>3 DEF In
<1>5. ASSUME NEW i \in 1 .. Len(Tail(s)), Tail(s)[i] = y PROVE FALSE
  <2>1. i + 1 \in 1 .. Len(s) /\ s[i + 1] = y
    BY <1>1, <1>3, <1>5
  <2>2. i + 1 = 1
    BY <1>2, <2>1
  <2> QED BY <2>2
<1> QED BY <1>3, <1>4, <1>5 DEF In

\* onReadyRead is at work, in the model's words and in these.
LEMMA Reads == Proper(stack) => (reading <=> On("read"))
<1>1. ASSUME Proper(stack) PROVE DOMAIN stack = 1 .. Len(stack)
  BY <1>1, LenProperties DEF Proper
<1> QED BY <1>1 DEF reading, On, In

----------------------------------------------------------------------------
(* A lost connection. *)

USE DEF On, Asking, Asked, Answers, NoAnswer, Answered, Accepted, Refused, Open, Leaving, NoHope, Onto

\* Where the thread goes on when a slot has returned, or nothing is called.
GoesOn(next) ==
  \/ next = stack /\ InEventLoop
  \/ next = rest /\ stack # <<>> /\ Head(stack) \notin {"read", "loginSuccessful", "showChatWindow"}

\* What is left then.
LEMMA Rest ==
  ASSUME Proper(stack), NEW next, GoesOn(next)
  PROVE  /\ Proper(next) /\ top(next) \notin {"newChatWindow", "loginOnConnected"}
         /\ ~In("newChatWindow", next) /\ ~In("loginOnConnected", next)
         /\ \A y : In(y, next) => On(y)
         /\ \A y \in {"read", "loginSuccessful", "showChatWindow"} : On(y) => In(y, next)
<1>1. CASE next = stack /\ InEventLoop
  <2>1. top(stack) \notin {"newChatWindow", "loginOnConnected"}
    BY <1>1 DEF InEventLoop, Dialogs, top
  <2>2. ~In("newChatWindow", next) /\ ~In("loginOnConnected", next)
    BY <1>1, <2>1, OnTop DEF top
  <2> QED BY <1>1, <2>1, <2>2
<1>2. CASE next = rest /\ stack # <<>> /\ Head(stack) \notin {"read", "loginSuccessful", "showChatWindow"}
  <2>1. /\ Proper(rest) /\ Follows(Head(stack), top(rest))
        /\ \A y : On(y) <=> y = Head(stack) \/ In(y, rest)
    BY <1>2, Pop DEF rest
  <2>2. ASSUME NEW y \in {"newChatWindow", "loginOnConnected"}, In(y, rest) PROVE FALSE
    <3>1. On(y)
      BY <2>1, <2>2
    <3> QED BY <2>2, <3>1, OnTop DEF rest
  <2> QED BY <1>2, <2>1, <2>2 DEF Follows
<1> QED BY <1>1, <1>2 DEF GoesOn

\* The connection is lost in whatever slot, with a chat window that was there before or is being made.
LEMMA Losing ==
  ASSUME SessionInv, NEW next, GoesOn(next), Disconnected(next), UNCHANGED loginShown,
         chatWindow' = (IF On("newChatWindow") THEN "hidden" ELSE chatWindow),
         label' \in {"Connected", "Disconnected"}
  PROVE  SessionInv'
<1>1. /\ Proper(next) /\ top(next) \notin {"newChatWindow", "loginOnConnected"}
      /\ ~In("newChatWindow", next) /\ ~In("loginOnConnected", next)
      /\ \A y : In(y, next) => On(y)
      /\ \A y \in {"read", "loginSuccessful", "showChatWindow"} : On(y) => In(y, next)
  BY Rest DEF SessionInv
<1>2. /\ Proper(stack')
      /\ \A y : On(y)' <=> (In(y, next) \/ y = "chatOnDisconnected" \/ (loginShown /\ y = "connectionLost"))
  <2>1. /\ Follows("chatOnDisconnected", top(next)) /\ Follows("connectionLost", "chatOnDisconnected")
        /\ "chatOnDisconnected" \in (Dialogs \cup Steps) \ {"read"}
        /\ "connectionLost" \in (Dialogs \cup Steps) \ {"read"}
    BY <1>1 DEF Follows, Dialogs, Steps
  <2>2. CASE loginShown
    <3>1. stack' = (<<"connectionLost">> \o <<"chatOnDisconnected">>) \o next
      BY <2>2 DEF Disconnected
    <3> DEFINE t == <<"connectionLost", "chatOnDisconnected">> \o next
    <3>2. /\ Proper(t)
          /\ \A z : In(z, t) <=> z = "connectionLost" \/ z = "chatOnDisconnected" \/ In(z, next)
      BY <1>1, <2>1, PushTwo
    <3>3. stack' = t
      <4>1. next \in Seq(Dialogs \cup Steps)
        BY <1>1 DEF Proper
      <4>2. <<"connectionLost">> \o <<"chatOnDisconnected">> = <<"connectionLost", "chatOnDisconnected">>
        BY <2>1, <4>1, Pairs
      <4> QED BY <3>1, <4>2
    <3> HIDE DEF t
    <3> QED BY <2>2, <3>2, <3>3
  <2>3. CASE ~loginShown
    <3>1. stack' = (<<>> \o <<"chatOnDisconnected">>) \o next
      BY <2>3 DEF Disconnected
    <3>2. stack' = <<"chatOnDisconnected">> \o next
      BY <3>1, ConcatEmptySeq DEF Steps
    <3> DEFINE t == <<"chatOnDisconnected">> \o next
    <3>3. Proper(t) /\ \A z : In(z, t) <=> z = "chatOnDisconnected" \/ In(z, next)
      BY <1>1, <2>1, Push DEF Dialogs, Steps
    <3> HIDE DEF t
    <3>4. stack' = t
      BY <3>2 DEF t
    <3> QED BY <2>3, <3>3, <3>4
  <2> QED BY <2>2, <2>3
<1>3. /\ socket' = "unconnected" /\ timer' = FALSE /\ button' = (button \/ ~loginShown)
      /\ torn' = (IF torn = "this" THEN "old" ELSE torn)
      /\ up' = <<>> /\ down' = <<>> /\ server' = "none" /\ qtBuffer' = qtBuffer /\ recvBuffer' = recvBuffer
  BY DEF Disconnected
<1>4. /\ up' \in Seq(Messages) /\ down' \in Seq(Messages) /\ After(down')
      /\ \A y, X : ~In(y, up') /\ ~In(y, down') /\ Lone(X, up') /\ Lone(X, down')
  BY <1>3, NoMessages
<1> USE <1>1, <1>2, <1>3, <1>4 DEF SessionInv
<1>5. Ranges'
  <2>1. recvBuffer' # <<>> => On("read")'
    BY DEF Ranges
  <2>2. button' \in BOOLEAN /\ loginShown' \in BOOLEAN /\ timer' \in BOOLEAN
    BY DEF Ranges
  <2> QED BY <2>1, <2>2 DEF Ranges
<1>6. Stages'
  BY DEF Stages
<1>7. Phase'
  BY DEF Phase
<1>8. Button'
  <2>1. On("newChatWindow") => chatWindow = "none"
    BY DEF Button
  <2> QED BY <2>1 DEF Button, Ranges
<1>9. Label'
  BY DEF Label
<1>10. Chats'
  BY DEF Chats
<1> QED BY <1>5, <1>6, <1>7, <1>8, <1>9, <1>10

----------------------------------------------------------------------------
(* What sendData does, and the slots that send. *)

\* Nothing stands under what may only be at the bottom.
LEMMA NothingUnder ==
  ASSUME NEW s, Proper(s), top(s) = "bottom"
  PROVE  s = <<>>
<1>1. s # <<>> => Head(s) \in Dialogs \cup Steps /\ top(s) = Head(s)
  BY Pop
<1> QED BY <1>1 DEF Dialogs, Steps

\* What x leaves when it returns.
LEMMA Returning ==
  ASSUME Proper(stack), NEW x, At(x)
  PROVE  /\ Proper(rest) /\ Follows(x, top(rest)) /\ top(stack) = x /\ stack # <<>>
         /\ On(x) /\ \A y : On(y) <=> y = x \/ In(y, rest)
         /\ \A y \in {"newChatWindow", "loginOnConnected"} : ~In(y, rest) /\ (x # y => ~On(y))
         /\ x \notin {"read", "loginSuccessful", "showChatWindow"} => GoesOn(rest)
<1>1. stack # <<>> /\ Head(stack) = x
  BY DEF At
<1>2. /\ Proper(Tail(stack)) /\ Follows(Head(stack), top(Tail(stack))) /\ top(stack) = Head(stack)
      /\ \A y : In(y, stack) <=> y = Head(stack) \/ In(y, Tail(stack))
  BY <1>1, Pop
<1>3. x \notin {"read", "loginSuccessful", "showChatWindow"} => GoesOn(rest)
  BY <1>1 DEF GoesOn
<1>4. ASSUME NEW y \in {"newChatWindow", "loginOnConnected"} PROVE ~In(y, rest) /\ (x # y => ~On(y))
  BY <1>1, <1>2, OnTop DEF rest
<1> QED BY <1>1, <1>2, <1>3, <1>4 DEF rest

\* In an event loop no slot is at work that calls the next at once.
LEMMA Waiting ==
  ASSUME Proper(stack), InEventLoop
  PROVE  /\ GoesOn(stack) /\ top(stack) \in Dialogs \cup {"bottom"}
         /\ ~On("newChatWindow") /\ ~On("loginOnConnected")
<1>1. top(stack) \in Dialogs \cup {"bottom"}
  BY DEF InEventLoop, top
<1>2. GoesOn(stack)
  BY DEF GoesOn
<1> QED BY <1>1, <1>2, Rest

\* The message goes into the socket, or nowhere without a connection; or the connection is lost.
LEMMA Sending ==
  ASSUME SessionInv, NEW message \in Messages, NEW next, GoesOn(next), Send(message, next), UNCHANGED loginShown,
         chatWindow' = (IF On("newChatWindow") THEN "hidden" ELSE chatWindow),
         label' \in {"Connected", "Disconnected"}
  PROVE  \/ SessionInv'
         \/ /\ stack' = next /\ UNCHANGED <<socket, timer, buffers, button, down, server>>
            /\ up' \in Seq(Messages) /\ (socket # "connected" => up' = up)
            /\ message # "login" => (In("login", up') <=> In("login", up)) /\ Lone({"login"}, up')
            /\ ~In("login", up) => Lone({"login"}, up')
<1>1. CASE socket # "connected" /\ stack' = next /\ UNCHANGED <<socket, timer, buffers, button, network>>
  BY <1>1 DEF SessionInv, Ranges, Stages, network
<1>2. CASE /\ socket = "connected" /\ up' = Append(up, message) /\ stack' = next
           /\ UNCHANGED <<socket, timer, buffers, button, down, server>>
  <2>1. up \in Seq(Messages) /\ Lone({"login"}, up)
    BY DEF SessionInv, Ranges, Stages
  <2>2. /\ Append(up, message) \in Seq(Messages)
        /\ \A y : In(y, Append(up, message)) <=> In(y, up) \/ y = message
        /\ \A X : Lone(X, up) /\ (message \in X => \A y \in X : ~In(y, up)) => Lone(X, Append(up, message))
    BY <2>1, OneMore
  <2>3. ASSUME message # "login" \/ ~In("login", up) PROVE Lone({"login"}, Append(up, message))
    BY <2>1, <2>2, <2>3
  <2> QED BY <1>2, <2>2, <2>3
<1>3. CASE socket = "connected" /\ server = "gone" /\ Disconnected(next)
  BY <1>3, Losing
<1> QED BY <1>1, <1>2, <1>3 DEF Send

\* LoginWindow::onConnected moves the login from the slot to the socket.
LEMMA StepLoginOnConnected == SessionInv /\ LoginOnConnected => SessionInv'
<1> SUFFICES ASSUME SessionInv, LoginOnConnected PROVE SessionInv'
  OBVIOUS
<1> USE DEF SessionInv
<1>1. /\ Proper(rest) /\ top(rest) = "chatOnConnected" /\ GoesOn(rest) /\ ~In("loginOnConnected", rest)
      /\ Asking /\ ~On("newChatWindow") /\ \A y : On(y) <=> y = "loginOnConnected" \/ In(y, rest)
  <2>1. At("loginOnConnected")
    BY DEF LoginOnConnected
  <2> QED BY <2>1, Returning, OnTop DEF Follows, rest
<1>2. UNCHANGED <<loginShown, chatWindow, label>> /\ Send("login", rest)
  BY DEF LoginOnConnected
<1>3. \/ SessionInv'
      \/ /\ stack' = rest /\ UNCHANGED <<socket, timer, buffers, button, down, server>>
         /\ up' \in Seq(Messages) /\ (socket # "connected" => up' = up)
         /\ ~In("login", up) => Lone({"login"}, up')
  BY <1>1, <1>2, Sending DEF Messages, Ranges
<1>4. CASE /\ stack' = rest /\ UNCHANGED <<socket, timer, buffers, button, down, server>>
           /\ up' \in Seq(Messages) /\ (socket # "connected" => up' = up)
           /\ ~In("login", up) => Lone({"login"}, up')
  <2> USE <1>1, <1>2, <1>4 DEF buffers
  <2>1. Ranges'
    BY DEF Ranges
  <2>2. Stages'
    BY DEF Stages, Phase
  <2>3. Phase'
    BY DEF Phase
  <2>4. Button'
    BY DEF Button
  <2>5. Label'
    BY DEF Label
  <2>6. Chats'
    BY DEF Chats
  <2> QED BY <2>1, <2>2, <2>3, <2>4, <2>5, <2>6
<1> QED BY <1>3, <1>4

\* ChatWindow::onConnected sets the label while nothing can open the window.
LEMMA StepChatOnConnected == SessionInv /\ ChatOnConnected => SessionInv'
<1> SUFFICES ASSUME SessionInv, ChatOnConnected PROVE SessionInv'
  OBVIOUS
<1> USE DEF SessionInv
<1>1. /\ rest = <<>> /\ Proper(rest) /\ GoesOn(rest) /\ On("chatOnConnected") /\ ~On("newChatWindow")
      /\ \A y : (On(y) <=> y = "chatOnConnected" \/ In(y, rest)) /\ ~In(y, rest)
  <2>1. At("chatOnConnected")
    BY DEF ChatOnConnected
  <2>2. Proper(rest) /\ top(rest) = "bottom"
    BY <2>1, Returning DEF Follows
  <2>3. rest = <<>>
    BY <2>2, NothingUnder
  <2> QED BY <2>1, <2>2, <2>3, Returning, Bottom
<1>2. \/ /\ chatWindow = "none" /\ stack' = rest /\ label' = label
         /\ UNCHANGED <<socket, timer, buffers, button, label, network>>
      \/ chatWindow # "none" /\ label' = "Connected" /\ Send("list", rest)
  BY DEF ChatOnConnected
<1>3. UNCHANGED <<loginShown, chatWindow>>
  BY DEF ChatOnConnected
<1>4. \/ SessionInv'
      \/ /\ stack' = rest /\ UNCHANGED <<socket, timer, buffers, button, down, server>>
         /\ up' \in Seq(Messages) /\ (socket # "connected" => up' = up)
         /\ (In("login", up') <=> In("login", up)) /\ Lone({"login"}, up')
         /\ label' = IF chatWindow = "none" THEN label ELSE "Connected"
  <2>1. CASE chatWindow = "none"
    BY <1>2, <2>1 DEF network, Ranges, Stages
  <2>2. CASE chatWindow # "none"
    BY <1>1, <1>2, <1>3, <2>2, Sending DEF Messages
  <2> QED BY <2>1, <2>2
<1>5. CASE /\ stack' = rest /\ UNCHANGED <<socket, timer, buffers, button, down, server>>
           /\ up' \in Seq(Messages) /\ (socket # "connected" => up' = up)
           /\ (In("login", up') <=> In("login", up)) /\ Lone({"login"}, up')
           /\ label' = IF chatWindow = "none" THEN label ELSE "Connected"
  <2> USE <1>1, <1>3, <1>5 DEF buffers
  <2>1. Ranges'
    BY DEF Ranges
  <2>2. Stages'
    BY DEF Stages
  <2>3. Phase'
    BY DEF Phase
  <2>4. Button'
    BY DEF Button
  <2>5. Label'
    BY DEF Label
  <2>6. Chats'
    BY DEF Chats
  <2> QED BY <2>1, <2>2, <2>3, <2>4, <2>5, <2>6
<1> QED BY <1>4, <1>5

\* The constructor takes the label from the socket, and its request may lose the connection.
LEMMA StepNewChatWindow == SessionInv /\ NewChatWindow => SessionInv'
<1> SUFFICES ASSUME SessionInv, NewChatWindow PROVE SessionInv'
  OBVIOUS
<1> USE DEF SessionInv
<1>1. /\ Proper(rest) /\ top(rest) = "showChatWindow" /\ GoesOn(rest) /\ ~In("newChatWindow", rest)
      /\ In("showChatWindow", rest) /\ top(stack) = "newChatWindow" /\ stack # <<>>
      /\ On("newChatWindow") /\ \A y : On(y) <=> y = "newChatWindow" \/ In(y, rest)
  <2>1. At("newChatWindow")
    BY DEF NewChatWindow
  <2>2. Proper(rest) /\ top(rest) = "showChatWindow"
    BY <2>1, Returning DEF Follows
  <2>3. In("showChatWindow", rest)
    BY <2>2, Pop DEF top
  <2> QED BY <2>1, <2>2, <2>3, Returning, OnTop DEF rest
<1>2. /\ chatWindow' = "hidden" /\ label' = (IF socket = "connected" THEN "Connected" ELSE "Disconnected")
      /\ Send("list", rest) /\ loginShown' = loginShown
  BY DEF NewChatWindow
<1>3. chatWindow = "none"
  BY <1>1 DEF Button
<1>4. \/ SessionInv'
      \/ /\ stack' = rest /\ UNCHANGED <<socket, timer, buffers, button, down, server>>
         /\ up' \in Seq(Messages) /\ (socket # "connected" => up' = up)
         /\ (In("login", up') <=> In("login", up)) /\ Lone({"login"}, up')
  BY <1>1, <1>2, <1>3, Sending DEF Messages
<1>5. CASE /\ stack' = rest /\ UNCHANGED <<socket, timer, buffers, button, down, server>>
           /\ up' \in Seq(Messages) /\ (socket # "connected" => up' = up)
           /\ (In("login", up') <=> In("login", up)) /\ Lone({"login"}, up')
  <2> USE <1>1, <1>2, <1>3, <1>5 DEF buffers
  <2>1. Ranges'
    BY DEF Ranges
  <2>2. Stages'
    BY DEF Stages
  <2>3. Phase'
    BY DEF Phase
  <2>4. Button'
    BY DEF Button
  <2>5. Label'
    BY DEF Label
  <2>6. Chats'
    BY DEF Chats
  <2> QED BY <2>1, <2>2, <2>3, <2>4, <2>5, <2>6
<1> QED BY <1>4, <1>5

\* The logout is sent while disconnectFromServer goes on.
LEMMA StepLogout == SessionInv /\ Logout => SessionInv'
<1> SUFFICES ASSUME SessionInv, Logout PROVE SessionInv'
  OBVIOUS
<1> USE DEF SessionInv
<1>1. /\ Proper(rest) /\ In("disconnectFromHost", rest) /\ GoesOn(rest) /\ top(stack) = "logout" /\ stack # <<>>
      /\ ~On("newChatWindow")
      /\ On("logout") /\ \A y : On(y) <=> y = "logout" \/ In(y, rest)
  <2>1. At("logout")
    BY DEF Logout
  <2>2. Proper(rest) /\ top(rest) = "disconnectFromHost"
    BY <2>1, Returning DEF Follows
  <2>3. In("disconnectFromHost", rest)
    BY <2>2, Pop DEF top
  <2> QED BY <2>1, <2>2, <2>3, Returning
<1>2. Send("logout", rest) /\ UNCHANGED <<loginShown, chatWindow, label>>
  BY DEF Logout
<1>3. \/ SessionInv'
      \/ /\ stack' = rest /\ UNCHANGED <<socket, timer, buffers, button, down, server>>
         /\ up' \in Seq(Messages) /\ (socket # "connected" => up' = up)
         /\ (In("login", up') <=> In("login", up)) /\ Lone({"login"}, up')
  BY <1>1, <1>2, Sending DEF Messages, Ranges
<1>4. CASE /\ stack' = rest /\ UNCHANGED <<socket, timer, buffers, button, down, server>>
           /\ up' \in Seq(Messages) /\ (socket # "connected" => up' = up)
           /\ (In("login", up') <=> In("login", up)) /\ Lone({"login"}, up')
  <2> USE <1>1, <1>2, <1>4 DEF buffers
  <2>1. Ranges'
    BY DEF Ranges
  <2>2. Stages'
    BY DEF Stages
  <2>3. Phase'
    BY DEF Phase
  <2>4. Button'
    BY DEF Button
  <2>5. Label'
    BY DEF Label
  <2>6. Chats'
    BY DEF Chats
  <2> QED BY <2>1, <2>2, <2>3, <2>4, <2>5, <2>6
<1> QED BY <1>3, <1>4

----------------------------------------------------------------------------
(* Connecting, and losing the connection. *)

\* A client that has just started.
LEMMA StartsSo == Init => SessionInv
<1> SUFFICES ASSUME Init PROVE SessionInv
  OBVIOUS
<1>1. Proper(stack) /\ \A y : ~On(y)
  BY Bottom DEF Init
<1>2. /\ <<>> \in Seq(Messages) /\ After(<<>>) /\ \A y, X : ~In(y, <<>>) /\ Lone(X, <<>>)
  BY NoMessages
<1> USE <1>1, <1>2 DEF Init
<1>3. Ranges
  BY DEF Ranges
<1>4. Stages
  BY DEF Stages
<1>5. Phase
  BY DEF Phase
<1>6. Button
  BY DEF Button
<1>7. Label
  BY DEF Label
<1>8. Chats
  BY DEF Chats
<1> QED BY <1>3, <1>4, <1>5, <1>6, <1>7, <1>8 DEF SessionInv

\* A box on an empty stack.
LEMMA OneBox ==
  ASSUME NEW x \in {"warning", "connectError"}
  PROVE  Proper(<<x>>) /\ top(<<x>>) = x /\ <<x>> # <<>> /\ \A y : In(y, <<x>>) <=> y = x
<1>1. Proper(<<>>) /\ top(<<>>) = "bottom" /\ \A y : ~In(y, <<>>)
  BY Bottom
<1>2. x \in Dialogs \cup Steps /\ x # "read" /\ <<x>> \in Seq(Dialogs) /\ <<x>> \o <<>> = <<x>>
  BY ConcatEmptySeq DEF Dialogs
<1>3. Follows(x, top(<<>>))
  BY <1>1 DEF Follows
<1> DEFINE t == <<x>> \o <<>>
<1>4. Proper(t) /\ t # <<>> /\ top(t) = x /\ \A y : In(y, t) <=> y = x \/ In(y, <<>>)
  BY <1>1, <1>2, <1>3, Push
<1>5. t = <<x>>
  BY <1>2
<1> QED BY <1>1, <1>4, <1>5

\* A click on Connect is taken in an unconnected or closing state.
LEMMA StepConnectClicked == SessionInv /\ ConnectClicked => SessionInv'
<1> SUFFICES ASSUME SessionInv, ConnectClicked PROVE SessionInv'
  OBVIOUS
<1> USE DEF SessionInv
<1>1. /\ stack = <<>> /\ loginShown /\ button /\ \A y : ~On(y)
      /\ UNCHANGED <<timer, recvBuffer, torn, loginShown, chatWindow, label, network>>
  BY Bottom DEF ConnectClicked, Clickable
<1>2. <<>> \in Seq(Messages) /\ After(<<>>) /\ \A y, X : ~In(y, <<>>) /\ Lone(X, <<>>)
  BY NoMessages
<1>3. socket \in {"unconnected", "closing"}
  BY <1>1 DEF Button, Ranges
<1>4. \/ stack' = <<"warning">> /\ UNCHANGED <<socket, qtBuffer, button>>
      \/ /\ button' = FALSE /\ socket = "unconnected" /\ socket' = "connecting" /\ qtBuffer' = <<>>
         /\ stack' = stack
      \/ button' = FALSE /\ stack' = <<"connectError">> /\ UNCHANGED <<socket, qtBuffer>> /\ socket # "unconnected"
  BY DEF ConnectClicked
<1>5. CASE stack' = <<"warning">> /\ UNCHANGED <<socket, qtBuffer, button>>
  <2>0. Proper(stack') /\ \A y : On(y)' <=> y = "warning"
    BY <1>5, OneBox
  <2> USE <1>1, <1>3, <1>5, <2>0 DEF network
  <2>1. Ranges'
    BY DEF Ranges
  <2>2. Stages'
    BY DEF Stages
  <2>3. Phase'
    BY DEF Phase
  <2>4. Button'
    BY DEF Button
  <2>5. Label'
    BY DEF Label
  <2>6. Chats'
    BY DEF Chats
  <2> QED BY <2>1, <2>2, <2>3, <2>4, <2>5, <2>6
<1>6. CASE /\ button' = FALSE /\ socket = "unconnected" /\ socket' = "connecting" /\ qtBuffer' = <<>>
           /\ stack' = stack
  <2> USE <1>1, <1>2, <1>6 DEF network
  <2>1. Ranges'
    BY DEF Ranges
  <2>2. Stages'
    BY DEF Stages
  <2>3. Phase'
    BY DEF Phase
  <2>4. Button'
    BY DEF Button
  <2>5. Label'
    BY DEF Label
  <2>6. Chats'
    BY DEF Chats, Phase
  <2> QED BY <2>1, <2>2, <2>3, <2>4, <2>5, <2>6
<1>7. CASE button' = FALSE /\ stack' = <<"connectError">> /\ UNCHANGED <<socket, qtBuffer>> /\ socket # "unconnected"
  <2>0. Proper(stack') /\ \A y : On(y)' <=> y = "connectError"
    BY <1>7, OneBox
  <2> USE <1>1, <1>3, <1>7, <2>0 DEF network
  <2>1. Ranges'
    BY DEF Ranges
  <2>2. Stages'
    BY DEF Stages
  <2>3. Phase'
    BY DEF Phase
  <2>4. Button'
    BY DEF Button
  <2>5. Label'
    BY DEF Label
  <2>6. Chats'
    BY DEF Chats
  <2> QED BY <2>1, <2>2, <2>3, <2>4, <2>5, <2>6
<1> QED BY <1>4, <1>5, <1>6, <1>7

\* onConnectError is there to enable the button.
LEMMA StepConnectFails == SessionInv /\ ConnectFails => SessionInv'
<1> SUFFICES ASSUME SessionInv, ConnectFails PROVE SessionInv'
  OBVIOUS
<1> USE DEF SessionInv
<1>1. /\ socket = "connecting" /\ socket' = "unconnected" /\ stack' = <<"connectError">> \o stack
      /\ UNCHANGED <<timer, buffers, windows, network>>
  BY DEF ConnectFails
<1>2. stack = <<>> /\ \A y : ~On(y)
  BY <1>1, Bottom DEF Phase
<1>3. Proper(stack') /\ \A y : On(y)' <=> y = "connectError"
  <2>1. Follows("connectError", top(stack)) /\ "connectError" \in Dialogs \cup Steps
    BY <1>2, Bottom DEF Follows, Dialogs
  <2> QED BY <1>1, <1>2, <2>1, Push
<1> USE <1>1, <1>2, <1>3 DEF buffers, windows, network
<1>4. Ranges'
  BY DEF Ranges
<1>5. Stages'
  BY DEF Stages
<1>6. Phase'
  BY DEF Phase
<1>7. Button'
  BY DEF Button
<1>8. Label'
  BY DEF Label
<1>9. Chats'
  BY DEF Chats
<1> QED BY <1>4, <1>5, <1>6, <1>7, <1>8, <1>9

\* The slots of connected() are called on an empty stack: no box is open while connecting.
LEMMA StepConnected == SessionInv /\ Connected => SessionInv'
<1> SUFFICES ASSUME SessionInv, Connected PROVE SessionInv'
  OBVIOUS
<1> USE DEF SessionInv
<1>1. /\ socket = "connecting" /\ socket' = "connected" /\ server' = "open"
      /\ recvBuffer' = <<>> /\ torn' = "none" /\ timer' = TRUE
      /\ stack' = <<"loginOnConnected", "chatOnConnected">> \o stack
      /\ UNCHANGED <<qtBuffer, windows, up, down>>
  BY DEF Connected
<1>2. stack = <<>> /\ \A y : ~On(y)
  BY <1>1, Bottom DEF Phase
<1>3. /\ Proper(stack') /\ top(stack') = "loginOnConnected"
      /\ \A y : On(y)' <=> y = "loginOnConnected" \/ y = "chatOnConnected"
  <2>1. /\ Follows("loginOnConnected", "chatOnConnected") /\ Follows("chatOnConnected", top(stack))
        /\ "loginOnConnected" \in (Dialogs \cup Steps) \ {"read"}
        /\ "chatOnConnected" \in (Dialogs \cup Steps) \ {"read"}
    BY <1>2, Bottom DEF Follows, Steps
  <2> QED BY <1>1, <1>2, <2>1, PushTwo
<1>4. <<>> \in Seq(Messages) /\ After(<<>>) /\ \A y, X : ~In(y, <<>>) /\ Lone(X, <<>>)
  BY NoMessages
<1>5. up = <<>> /\ down = <<>> /\ qtBuffer = <<>> /\ loginShown
  BY <1>1 DEF Phase
<1>6. ~Open
  BY <1>5 DEF Button
<1> USE <1>1, <1>2, <1>3, <1>4, <1>5, <1>6 DEF windows
<1>7. Ranges'
  BY DEF Ranges
<1>8. Stages'
  BY DEF Stages
<1>9. Phase'
  BY DEF Phase
<1>10. Button'
  BY DEF Button
<1>11. Label'
  BY DEF Label
<1>12. Chats'
  BY DEF Chats
<1> QED BY <1>7, <1>8, <1>9, <1>10, <1>11, <1>12

\* A connection ends in an event loop.
LEMMA StepRemoteCloses == SessionInv /\ RemoteCloses => SessionInv'
<1> SUFFICES ASSUME SessionInv, RemoteCloses PROVE SessionInv'
  OBVIOUS
<1> USE DEF SessionInv
<1>1. GoesOn(stack) /\ ~On("newChatWindow")
  BY Waiting DEF RemoteCloses
<1>2. Disconnected(stack) /\ UNCHANGED <<loginShown, chatWindow, label>>
  BY DEF RemoteCloses
<1> QED BY <1>1, <1>2, Losing DEF Ranges

\* A connection that failed is dropped after onConnectError's box.
LEMMA StepNetworkFails == SessionInv /\ NetworkFails => SessionInv'
<1> SUFFICES ASSUME SessionInv, NetworkFails PROVE SessionInv'
  OBVIOUS
<1> USE DEF SessionInv
<1>1. /\ socket = "connected" /\ stack' = <<"connectError", "drop">> \o stack
      /\ UNCHANGED <<socket, timer, buffers, windows, network>>
  BY DEF NetworkFails
<1>2. top(stack) \in Dialogs \cup {"bottom"} /\ ~On("newChatWindow") /\ ~On("loginOnConnected")
  BY Waiting DEF NetworkFails
<1>3. Proper(stack') /\ \A y : On(y)' <=> y = "connectError" \/ y = "drop" \/ On(y)
  <2>1. /\ Follows("connectError", "drop") /\ Follows("drop", top(stack))
        /\ "connectError" \in (Dialogs \cup Steps) \ {"read"} /\ "drop" \in (Dialogs \cup Steps) \ {"read"}
    BY <1>2 DEF Follows, Dialogs, Steps
  <2> QED BY <1>1, <1>2, <2>1, PushTwo
<1>4. ~On("chatOnConnected")
  BY <1>1, <1>2 DEF Label, Dialogs
<1> USE <1>1, <1>2, <1>3, <1>4 DEF buffers, windows, network
<1>5. Ranges'
  BY DEF Ranges
<1>6. Stages'
  BY DEF Stages
<1>7. Phase'
  BY DEF Phase
<1>8. Button'
  BY DEF Button
<1>9. Label'
  BY DEF Label
<1>10. Chats'
  BY DEF Chats
<1> QED BY <1>5, <1>6, <1>7, <1>8, <1>9, <1>10

\* QTcpSocket disconnects after it has reported the error, unless that was done behind the box.
LEMMA StepDrop == SessionInv /\ Drop => SessionInv'
<1> SUFFICES ASSUME SessionInv, Drop PROVE SessionInv'
  OBVIOUS
<1> USE DEF SessionInv
<1>1. At("drop") /\ UNCHANGED <<loginShown, chatWindow, label>>
  BY DEF Drop
<1>2. /\ Proper(rest) /\ GoesOn(rest) /\ top(stack) = "drop" /\ ~On("newChatWindow") /\ stack # <<>>
      /\ \A y : On(y) <=> y = "drop" \/ In(y, rest)
  BY <1>1, Returning
<1>3. CASE socket # "unconnected"
  <2>1. Disconnected(rest)
    BY <1>3 DEF Drop
  <2> QED BY <1>1, <1>2, <2>1, Losing DEF Ranges
<1>4. CASE socket = "unconnected"
  <2>0. stack' = rest /\ UNCHANGED <<socket, timer, buffers, button, network>>
    BY <1>4 DEF Drop
  <2> USE <1>1, <1>2, <1>4, <2>0 DEF buffers, network
  <2>1. Ranges'
    BY DEF Ranges
  <2>2. Stages'
    BY DEF Stages
  <2>3. Phase'
    BY DEF Phase
  <2>4. Button'
    BY DEF Button
  <2>5. Label'
    BY DEF Label
  <2>6. Chats'
    BY DEF Chats
  <2> QED BY <2>1, <2>2, <2>3, <2>4, <2>5, <2>6
<1> QED BY <1>3, <1>4

\* ChatWindow::onDisconnected sets the label of a lost connection.
LEMMA StepChatOnDisconnected == SessionInv /\ ChatOnDisconnected => SessionInv'
<1> SUFFICES ASSUME SessionInv, ChatOnDisconnected PROVE SessionInv'
  OBVIOUS
<1> USE DEF SessionInv
<1>1. /\ At("chatOnDisconnected") /\ label' = "Disconnected" /\ stack' = rest
      /\ UNCHANGED <<socket, timer, buffers, button, loginShown, chatWindow, network>>
  BY DEF ChatOnDisconnected
<1>2. /\ Proper(rest) /\ top(stack) = "chatOnDisconnected" /\ On("chatOnDisconnected") /\ stack # <<>>
      /\ \A y : On(y) <=> y = "chatOnDisconnected" \/ In(y, rest)
  BY <1>1, Returning
<1>3. socket = "unconnected"
  BY <1>2 DEF Phase
<1> USE <1>1, <1>2, <1>3 DEF buffers, network
<1>4. Ranges'
  BY DEF Ranges
<1>5. Stages'
  BY DEF Stages
<1>6. Phase'
  BY DEF Phase
<1>7. Button'
  BY DEF Button
<1>8. Label'
  BY DEF Label
<1>9. Chats'
  BY DEF Chats
<1> QED BY <1>4, <1>5, <1>6, <1>7, <1>8, <1>9

----------------------------------------------------------------------------
(* The user answers, and the callers go on. *)

\* What disconnectFromServer returns to is on the stack as long as it is.
LEMMA LeavingFor ==
  ASSUME NEW s, Proper(s), In("disconnectFromHost", s)
  PROVE  In("enable", s) \/ In("windowClosed", s)
<1>1. s \in Seq(Dialogs \cup Steps) /\ Len(s) \in Nat
  BY LenProperties DEF Proper
<1>2. PICK i \in 1 .. Len(s) : s[i] = "disconnectFromHost"
  BY DEF In
<1>3. Follows("disconnectFromHost", IF i = Len(s) THEN "bottom" ELSE s[i + 1])
  BY <1>2 DEF Proper
<1>4. i # Len(s) /\ s[i + 1] \in {"enable", "windowClosed"}
  BY <1>3 DEF Follows
<1>5. i + 1 \in 1 .. Len(s)
  BY <1>1, <1>4
<1> QED BY <1>4, <1>5 DEF In

\* Nothing depends on a warning.
LEMMA StepCloseWarning == SessionInv /\ CloseWarning => SessionInv'
<1> SUFFICES ASSUME SessionInv, CloseWarning PROVE SessionInv'
  OBVIOUS
<1> USE DEF SessionInv
<1>1. At("warning") /\ stack' = rest /\ UNCHANGED <<socket, timer, buffers, windows, network>>
  BY DEF CloseWarning
<1>2. /\ Proper(rest) /\ Follows("warning", top(rest)) /\ top(stack) = "warning" /\ stack # <<>> /\ On("warning")
      /\ ~On("newChatWindow") /\ ~On("loginOnConnected") /\ \A y : On(y) <=> y = "warning" \/ In(y, rest)
  BY <1>1, Returning
<1> USE <1>1, <1>2 DEF buffers, windows, network
<1>3. Ranges'
  BY DEF Ranges
<1>4. Stages'
  BY DEF Stages
<1>5. Phase'
  BY DEF Phase
<1>6. Button'
  BY DEF Button
<1>7. Label'
  BY DEF Label
<1>8. Chats'
  BY DEF Chats
<1> QED BY <1>3, <1>4, <1>5, <1>6, <1>7, <1>8

\* onReadyRead returns with nothing left to read.
LEMMA StepReadReturns == SessionInv /\ ReadReturns => SessionInv'
<1> SUFFICES ASSUME SessionInv, ReadReturns PROVE SessionInv'
  OBVIOUS
<1> USE DEF SessionInv
<1>1. At("read") /\ recvBuffer = <<>> /\ stack' = rest /\ UNCHANGED <<socket, timer, buffers, windows, network>>
  BY DEF ReadReturns
<1>2. /\ Proper(rest) /\ Follows("read", top(rest)) /\ top(stack) = "read" /\ stack # <<>> /\ On("read")
      /\ ~On("newChatWindow") /\ ~On("loginOnConnected") /\ \A y : On(y) <=> y = "read" \/ In(y, rest)
  BY <1>1, Returning
<1> USE <1>1, <1>2 DEF buffers, windows, network
<1>3. Ranges'
  BY DEF Ranges
<1>4. Stages'
  BY DEF Stages
<1>5. Phase'
  BY DEF Phase
<1>6. Button'
  BY DEF Button
<1>7. Label'
  BY DEF Label
<1>8. Chats'
  BY DEF Chats
<1> QED BY <1>3, <1>4, <1>5, <1>6, <1>7, <1>8

\* After an error's box the button is enabled, and the connection lost or about to be.
LEMMA StepCloseError == SessionInv /\ CloseError => SessionInv'
<1> SUFFICES ASSUME SessionInv, CloseError PROVE SessionInv'
  OBVIOUS
<1> USE DEF SessionInv
<1>1. /\ stack' = rest /\ button' = TRUE
      /\ UNCHANGED <<socket, timer, buffers, loginShown, chatWindow, label, network>>
  BY DEF CloseError
<1>2. PICK x \in {"connectError", "connectionLost"} : At(x)
  BY DEF CloseError
<1>3. /\ Proper(rest) /\ top(stack) = x /\ stack # <<>> /\ On(x)
      /\ ~On("newChatWindow") /\ ~On("loginOnConnected") /\ \A y : On(y) <=> y = x \/ In(y, rest)
  BY <1>2, Returning
<1>4. socket # "connecting" /\ (socket = "connected" => On("drop"))
  BY <1>3 DEF Phase, Button
<1> USE <1>1, <1>3, <1>4 DEF buffers, network
<1>5. Ranges'
  BY DEF Ranges
<1>6. Stages'
  BY DEF Stages
<1>7. Phase'
  BY DEF Phase
<1>8. Button'
  BY DEF Button
<1>9. Label'
  BY DEF Label
<1>10. Chats'
  BY DEF Chats
<1> QED BY <1>5, <1>6, <1>7, <1>8, <1>9, <1>10

\* A refused login is left behind by disconnectFromServer.
LEMMA StepCloseLoginFailed == SessionInv /\ CloseLoginFailed => SessionInv'
<1> SUFFICES ASSUME SessionInv, CloseLoginFailed PROVE SessionInv'
  OBVIOUS
<1> USE DEF SessionInv
<1>1. At("loginFailed") /\ timer' = FALSE /\ UNCHANGED <<socket, buffers, windows, network>>
      /\ stack' = <<"logout", "disconnectFromHost", "enable">> \o rest
  BY DEF CloseLoginFailed
<1>2. /\ Proper(rest) /\ Follows("loginFailed", top(rest)) /\ top(stack) = "loginFailed" /\ stack # <<>> /\ On("loginFailed")
      /\ ~On("newChatWindow") /\ ~On("loginOnConnected") /\ \A y : On(y) <=> y = "loginFailed" \/ In(y, rest)
  BY <1>1, Returning
<1>3. \A y \in Onto : ~In(y, rest)
  BY <1>1, <1>2, Alone DEF At, rest
<1>4. /\ Proper(stack') /\ stack' # <<>> /\ top(stack') = "logout"
      /\ \A y : On(y)' <=> y = "logout" \/ y = "disconnectFromHost" \/ y = "enable" \/ In(y, rest)
  <2>1. Follows("enable", top(rest))
    BY <1>2 DEF Follows
  <2> QED BY <1>1, <1>2, <2>1, PushThree
<1> USE <1>1, <1>2, <1>3, <1>4 DEF buffers, windows, network
<1>5. Ranges'
  BY DEF Ranges
<1>6. Stages'
  BY DEF Stages
<1>7. Phase'
  BY DEF Phase
<1>8. Button'
  BY DEF Button
<1>9. Label'
  BY DEF Label
<1>10. Chats'
  BY DEF Chats
<1> QED BY <1>5, <1>6, <1>7, <1>8, <1>9, <1>10

\* disconnectFromHost ends a connection, at once or later.
LEMMA StepDisconnectFromHost == SessionInv /\ DisconnectFromHost => SessionInv'
<1> SUFFICES ASSUME SessionInv, DisconnectFromHost PROVE SessionInv'
  OBVIOUS
<1> USE DEF SessionInv
<1>1. At("disconnectFromHost") /\ UNCHANGED <<loginShown, chatWindow, label>>
  BY DEF DisconnectFromHost
<1>2. /\ Proper(rest) /\ Follows("disconnectFromHost", top(rest)) /\ top(stack) = "disconnectFromHost" /\ stack # <<>> /\ On("disconnectFromHost")
      /\ ~On("newChatWindow") /\ ~On("loginOnConnected") /\ \A y : On(y) <=> y = "disconnectFromHost" \/ In(y, rest)
  BY <1>1, Returning
<1>3. In("enable", rest) \/ In("windowClosed", rest)
  <2>1. On("enable") \/ On("windowClosed")
    BY <1>2, LeavingFor
  <2> QED BY <1>2, <2>1
<1>4. CASE socket = "unconnected" /\ stack' = rest /\ UNCHANGED <<socket, timer, buffers, button, network>>
  <2> USE <1>1, <1>2, <1>3, <1>4 DEF buffers, network
  <2>1. Ranges'
    BY DEF Ranges
  <2>2. Stages'
    BY DEF Stages
  <2>3. Phase'
    BY DEF Phase
  <2>4. Button'
    BY DEF Button
  <2>5. Label'
    BY DEF Label
  <2>6. Chats'
    BY DEF Chats
  <2> QED BY <2>1, <2>2, <2>3, <2>4, <2>5, <2>6
<1>5. CASE Disconnected(rest)
  BY <1>1, <1>2, <1>5, Returning, Losing DEF Ranges
<1>6. CASE /\ socket # "unconnected" /\ socket' = "closing" /\ stack' = rest
           /\ UNCHANGED <<timer, buffers, button, network>>
  <2> USE <1>1, <1>2, <1>3, <1>6 DEF buffers, network
  <2>1. Ranges'
    BY DEF Ranges
  <2>2. Stages'
    BY DEF Stages
  <2>3. Phase'
    BY DEF Phase
  <2>4. Button'
    BY DEF Button
  <2>5. Label'
    BY DEF Label, Stages
  <2>6. Chats'
    BY DEF Chats
  <2> QED BY <2>1, <2>2, <2>3, <2>4, <2>5, <2>6
<1> QED BY <1>4, <1>5, <1>6 DEF DisconnectFromHost

\* The button of a refused login is enabled once the connection is gone or going.
LEMMA StepEnable == SessionInv /\ Enable => SessionInv'
<1> SUFFICES ASSUME SessionInv, Enable PROVE SessionInv'
  OBVIOUS
<1> USE DEF SessionInv
<1>1. At("enable") /\ stack' = rest /\ button' = TRUE
      /\ UNCHANGED <<socket, timer, buffers, loginShown, chatWindow, label, network>>
  BY DEF Enable
<1>2. /\ Proper(rest) /\ Follows("enable", top(rest)) /\ top(stack) = "enable" /\ stack # <<>> /\ On("enable")
      /\ ~On("newChatWindow") /\ ~On("loginOnConnected") /\ \A y : On(y) <=> y = "enable" \/ In(y, rest)
  BY <1>1, Returning
<1>3. \A y \in Onto : ~In(y, rest)
  BY <1>1, <1>2, Alone DEF At, rest
<1>4. ~Open /\ ~On("windowClosed")
  BY <1>2 DEF Stages, Button
<1>5. ~In("disconnectFromHost", rest)
  <2>1. ~In("enable", rest) /\ ~In("windowClosed", rest)
    BY <1>2, <1>3, <1>4
  <2> QED BY <1>2, <2>1, LeavingFor
<1>6. socket \notin {"connecting", "connected"}
  BY <1>2, <1>5 DEF Phase, Button
<1> USE <1>1, <1>2, <1>3, <1>4, <1>6 DEF buffers, network
<1>7. Ranges'
  BY DEF Ranges
<1>8. Stages'
  BY DEF Stages
<1>9. Phase'
  BY DEF Phase
<1>10. Button'
  BY DEF Button
<1>11. Label'
  BY DEF Label
<1>12. Chats'
  BY DEF Chats
<1> QED BY <1>7, <1>8, <1>9, <1>10, <1>11, <1>12

\* An accepted login makes and shows the chat window.
LEMMA StepCloseLoginSuccessful == SessionInv /\ CloseLoginSuccessful => SessionInv'
<1> SUFFICES ASSUME SessionInv, CloseLoginSuccessful PROVE SessionInv'
  OBVIOUS
<1> USE DEF SessionInv
<1>1. At("loginSuccessful") /\ UNCHANGED <<socket, timer, buffers, windows, network>>
      /\ stack' = (IF chatWindow = "none" THEN <<"newChatWindow">> ELSE <<>>) \o <<"showChatWindow">> \o rest
  BY DEF CloseLoginSuccessful
<1>2. /\ Proper(rest) /\ Follows("loginSuccessful", top(rest)) /\ top(stack) = "loginSuccessful" /\ stack # <<>> /\ On("loginSuccessful")
      /\ ~On("newChatWindow") /\ ~On("loginOnConnected") /\ \A y : On(y) <=> y = "loginSuccessful" \/ In(y, rest)
  BY <1>1, Returning
<1>3. \A y \in Onto : ~In(y, rest)
  BY <1>1, <1>2, Alone DEF At, rest
<1>4. /\ Proper(stack') /\ stack' # <<>>
      /\ \A y : On(y)' <=> (y = "showChatWindow" \/ In(y, rest) \/ (chatWindow = "none" /\ y = "newChatWindow"))
  <2>1. /\ Follows("newChatWindow", "showChatWindow") /\ Follows("showChatWindow", top(rest))
        /\ "newChatWindow" \in (Dialogs \cup Steps) \ {"read"}
        /\ "showChatWindow" \in (Dialogs \cup Steps) \ {"read"}
    BY <1>2 DEF Follows, Steps
  <2>2. CASE chatWindow = "none"
    <3> DEFINE t == <<"newChatWindow", "showChatWindow">> \o rest
    <3>1. Proper(t) /\ t # <<>> /\ \A z : In(z, t) <=> z = "newChatWindow" \/ z = "showChatWindow" \/ In(z, rest)
      BY <1>2, <2>1, PushTwo
    <3>2. stack' = t
      <4>1. rest \in Seq(Dialogs \cup Steps)
        BY <1>2 DEF Proper
      <4>2. <<"newChatWindow">> \o <<"showChatWindow">> = <<"newChatWindow", "showChatWindow">>
        BY <2>1, <4>1, Pairs
      <4>3. stack' = (<<"newChatWindow">> \o <<"showChatWindow">>) \o rest
        BY <1>1, <2>2
      <4> QED BY <4>2, <4>3
    <3> HIDE DEF t
    <3> QED BY <2>2, <3>1, <3>2
  <2>3. CASE chatWindow # "none"
    <3> DEFINE t == <<"showChatWindow">> \o rest
    <3>1. Proper(t) /\ t # <<>> /\ \A z : In(z, t) <=> z = "showChatWindow" \/ In(z, rest)
      BY <1>2, <2>1, Push
    <3>2. stack' = (<<>> \o <<"showChatWindow">>) \o rest
      BY <1>1, <2>3
    <3>3. stack' = t
      BY <3>2, ConcatEmptySeq DEF Steps
    <3> HIDE DEF t
    <3> QED BY <2>3, <3>1, <3>3
  <2> QED BY <2>2, <2>3
<1> USE <1>1, <1>2, <1>3, <1>4 DEF buffers, windows, network
<1>5. Ranges'
  BY DEF Ranges
<1>6. Stages'
  BY DEF Stages
<1>7. Phase'
  BY DEF Phase
<1>8. Button'
  BY DEF Button
<1>9. Label'
  BY DEF Label
<1>10. Chats'
  BY DEF Chats
<1> QED BY <1>5, <1>6, <1>7, <1>8, <1>9, <1>10

\* The chat window is shown when its label is right.
LEMMA StepShowChatWindow == SessionInv /\ ShowChatWindow => SessionInv'
<1> SUFFICES ASSUME SessionInv, ShowChatWindow PROVE SessionInv'
  OBVIOUS
<1> USE DEF SessionInv
<1>1. At("showChatWindow") /\ stack' = rest /\ chatWindow' = "shown" /\ loginShown' = FALSE
      /\ UNCHANGED <<socket, timer, buffers, button, label, network>>
  BY DEF ShowChatWindow
<1>2. /\ Proper(rest) /\ Follows("showChatWindow", top(rest)) /\ top(stack) = "showChatWindow" /\ stack # <<>> /\ On("showChatWindow")
      /\ ~On("newChatWindow") /\ ~On("loginOnConnected") /\ \A y : On(y) <=> y = "showChatWindow" \/ In(y, rest)
  BY <1>1, Returning
<1>3. \A y \in Onto : ~In(y, rest)
  BY <1>1, <1>2, Alone DEF At, rest
<1>4. chatWindow # "none" /\ ~On("chatOnConnected")
  BY <1>2 DEF Button, Label
<1> USE <1>1, <1>2, <1>3, <1>4 DEF buffers, network
<1>5. Ranges'
  BY DEF Ranges
<1>6. Stages'
  BY DEF Stages
<1>7. Phase'
  BY DEF Phase
<1>8. Button'
  BY DEF Button
<1>9. Label'
  BY DEF Label, Stages
<1>10. Chats'
  BY DEF Chats
<1> QED BY <1>5, <1>6, <1>7, <1>8, <1>9, <1>10

----------------------------------------------------------------------------
(* The chat window, and the timer. *)

\* closeEvent begins to leave.
LEMMA StepCloseChatWindow == SessionInv /\ CloseChatWindow => SessionInv'
<1> SUFFICES ASSUME SessionInv, CloseChatWindow PROVE SessionInv'
  OBVIOUS
<1> USE DEF SessionInv
<1>1. /\ stack = <<>> /\ Open /\ timer' = FALSE /\ UNCHANGED <<socket, buffers, windows, network>>
      /\ stack' = <<"logout", "disconnectFromHost", "windowClosed">> /\ \A y : ~On(y)
  BY Bottom DEF CloseChatWindow, Clickable
<1>2. /\ Proper(stack') /\ stack' # <<>> /\ top(stack') = "logout"
      /\ \A y : On(y)' <=> y = "logout" \/ y = "disconnectFromHost" \/ y = "windowClosed"
  <2> DEFINE t == <<"logout", "disconnectFromHost", "windowClosed">> \o <<>>
  <2>1. Proper(<<>>) /\ Follows("windowClosed", top(<<>>)) /\ \A y : ~In(y, <<>>)
    BY Bottom DEF Follows
  <2>2. /\ Proper(t) /\ t # <<>> /\ top(t) = "logout"
        /\ \A y : In(y, t) <=> y = "logout" \/ y = "disconnectFromHost" \/ y = "windowClosed" \/ In(y, <<>>)
    BY <2>1, PushThree
  <2>3. stack' = t
    <3>1. <<"logout", "disconnectFromHost", "windowClosed">> \in Seq(Steps)
      BY DEF Steps
    <3> QED BY <1>1, <3>1, ConcatEmptySeq
  <2> HIDE DEF t
  <2> QED BY <2>1, <2>2, <2>3
<1> USE <1>1, <1>2 DEF buffers, windows, network
<1>3. Ranges'
  BY DEF Ranges
<1>4. Stages'
  BY DEF Stages
<1>5. Phase'
  BY DEF Phase, Button
<1>6. Button'
  BY DEF Button
<1>7. Label'
  BY DEF Label
<1>8. Chats'
  BY DEF Chats
<1> QED BY <1>3, <1>4, <1>5, <1>6, <1>7, <1>8

\* The login window is back once the connection is gone or going.
LEMMA StepWindowClosed == SessionInv /\ WindowClosed => SessionInv'
<1> SUFFICES ASSUME SessionInv, WindowClosed PROVE SessionInv'
  OBVIOUS
<1> USE DEF SessionInv
<1>1. At("windowClosed") /\ stack' = rest /\ loginShown' = TRUE /\ button' = TRUE /\ chatWindow' = "hidden"
      /\ UNCHANGED <<socket, timer, buffers, label, network>>
  BY DEF WindowClosed
<1>2. /\ Proper(rest) /\ Follows("windowClosed", top(rest)) /\ top(stack) = "windowClosed" /\ stack # <<>> /\ On("windowClosed")
      /\ ~On("newChatWindow") /\ ~On("loginOnConnected") /\ \A y : On(y) <=> y = "windowClosed" \/ In(y, rest)
  BY <1>1, Returning
<1>3. rest = <<>> /\ \A y : ~In(y, rest)
  <2>1. top(rest) = "bottom"
    BY <1>2 DEF Follows
  <2> QED BY <1>2, <2>1, NothingUnder, Bottom
<1>4. Open /\ socket \notin {"connecting", "connected"}
  BY <1>2, <1>3 DEF Phase, Button
<1> USE <1>1, <1>2, <1>3, <1>4 DEF buffers, network
<1>5. Ranges'
  BY DEF Ranges
<1>6. Stages'
  BY DEF Stages
<1>7. Phase'
  BY DEF Phase
<1>8. Button'
  BY DEF Button
<1>9. Label'
  BY DEF Label
<1>10. Chats'
  BY DEF Chats
<1> QED BY <1>5, <1>6, <1>7, <1>8, <1>9, <1>10

\* Sending a message of a user at work, or of the timer, changes nothing but what is on its way.
LEMMA OnlyUp ==
  ASSUME SessionInv, UNCHANGED <<stack, socket, timer, buffers, windows, down, server>>,
         up' \in Seq(Messages), socket # "connected" => up' = up,
         In("login", up') <=> In("login", up), Lone({"login"}, up')
  PROVE  SessionInv'
<1> USE DEF SessionInv
<1> USE DEF buffers, windows
<1>1. Ranges'
  BY DEF Ranges
<1>2. Stages'
  BY DEF Stages
<1>3. Phase'
  BY DEF Phase
<1>4. Button'
  BY DEF Button
<1>5. Label'
  BY DEF Label
<1>6. Chats'
  BY DEF Chats
<1> QED BY <1>1, <1>2, <1>3, <1>4, <1>5, <1>6

\* onSendClicked sends, or complains.
LEMMA StepSendClicked == SessionInv /\ SendClicked => SessionInv'
<1> SUFFICES ASSUME SessionInv, SendClicked PROVE SessionInv'
  OBVIOUS
<1> USE DEF SessionInv
<1>1. /\ stack = <<>> /\ UNCHANGED <<loginShown, chatWindow, label>> /\ Open
      /\ socket = "connected" => Send("chat", stack)
      /\ socket # "connected" => stack' = <<"warning">> /\ UNCHANGED <<socket, timer, buffers, button, network>>
  BY DEF SendClicked, Clickable
<1>2. GoesOn(stack) /\ ~On("newChatWindow") /\ \A y : ~On(y)
  BY <1>1, Waiting, Bottom DEF InEventLoop
<1>3. CASE socket = "connected"
  <2>1. \/ SessionInv'
        \/ /\ stack' = stack /\ UNCHANGED <<socket, timer, buffers, button, down, server>>
           /\ up' \in Seq(Messages) /\ (socket # "connected" => up' = up)
           /\ (In("login", up') <=> In("login", up)) /\ Lone({"login"}, up')
    BY <1>1, <1>2, <1>3, Sending DEF Messages, Ranges
  <2> QED BY <1>1, <2>1, OnlyUp DEF windows
<1>4. CASE socket # "connected"
  <2>0. Proper(stack') /\ \A y : On(y)' <=> y = "warning"
    BY <1>1, <1>4, OneBox
  <2> USE <1>1, <1>2, <1>4, <2>0 DEF buffers, network
  <2>1. Ranges'
    BY DEF Ranges
  <2>2. Stages'
    BY DEF Stages
  <2>3. Phase'
    BY DEF Phase, Button
  <2>4. Button'
    BY DEF Button
  <2>5. Label'
    BY DEF Label
  <2>6. Chats'
    BY DEF Chats
  <2> QED BY <2>1, <2>2, <2>3, <2>4, <2>5, <2>6
<1> QED BY <1>3, <1>4

\* A heartbeat goes out, or finds the connection lost.
LEMMA StepHeartbeatTimeout == SessionInv /\ HeartbeatTimeout => SessionInv'
<1> SUFFICES ASSUME SessionInv, HeartbeatTimeout PROVE SessionInv'
  OBVIOUS
<1> USE DEF SessionInv
<1>1. Send("heartbeat", stack) /\ UNCHANGED <<loginShown, chatWindow, label>>
  BY DEF HeartbeatTimeout
<1>2. GoesOn(stack) /\ ~On("newChatWindow")
  BY Waiting DEF HeartbeatTimeout
<1>3. \/ SessionInv'
      \/ /\ stack' = stack /\ UNCHANGED <<socket, timer, buffers, button, down, server>>
         /\ up' \in Seq(Messages) /\ (socket # "connected" => up' = up)
         /\ (In("login", up') <=> In("login", up)) /\ Lone({"login"}, up')
  BY <1>1, <1>2, Sending DEF Messages, Ranges
<1> QED BY <1>1, <1>3, OnlyUp DEF windows

----------------------------------------------------------------------------
(* Reading. *)

\* What comes in keeps order and holds no second answer.
LEMMA Incoming ==
  ASSUME SessionInv, NEW n \in 0 .. Len(down)
  PROVE  LET bytes == qtBuffer \o RemoveFirst(SubSeq(down, 1, n), "heartbeat")
             left == SubSeq(down, n + 1, Len(down))
         IN  /\ bytes \in Seq(Messages) /\ left \in Seq(Messages)
             /\ \A y \in {"accept", "refuse"} : In(y, bytes) \/ In(y, left) <=> In(y, qtBuffer) \/ In(y, down)
             /\ Lone(Answers, bytes) /\ Lone(Answers, left) /\ (NoAnswer(bytes) \/ NoAnswer(left))
             /\ After(qtBuffer) /\ (After(down) \/ In("accept", qtBuffer)) =>
                  After(bytes) /\ (After(left) \/ In("accept", bytes))
<1> DEFINE p == SubSeq(down, 1, n)
           r == RemoveFirst(p, "heartbeat")
           bytes == qtBuffer \o r
           left == SubSeq(down, n + 1, Len(down))
<1>1. /\ qtBuffer \in Seq(Messages) /\ down \in Seq(Messages) /\ Lone(Answers, qtBuffer) /\ Lone(Answers, down)
      /\ NoAnswer(qtBuffer) \/ NoAnswer(down)
  BY DEF SessionInv, Ranges, Stages
<1>2. /\ p \in Seq(Messages) /\ left \in Seq(Messages)
      /\ \A y : In(y, down) <=> In(y, p) \/ In(y, left)
      /\ After(down) => After(p) /\ (After(left) \/ In("accept", p))
      /\ \A X : Lone(X, down) => /\ Lone(X, p) /\ Lone(X, left)
                                 /\ (\A y \in X : ~In(y, p)) \/ (\A y \in X : ~In(y, left))
  BY <1>1, CutMessages
<1> HIDE DEF p, left
<1>3. /\ r \in Seq(Messages) /\ \A y : y # "heartbeat" => (In(y, r) <=> In(y, p))
      /\ After(p) => After(r)
      /\ \A X : Lone(X, p) => Lone(X, r)
  BY <1>2, LeaveOut
<1> HIDE DEF r
<1>4. /\ bytes \in Seq(Messages) /\ \A y : In(y, bytes) <=> In(y, qtBuffer) \/ In(y, r)
      /\ After(qtBuffer) /\ (After(r) \/ In("accept", qtBuffer)) => After(bytes)
      /\ \A X : /\ Lone(X, qtBuffer) /\ Lone(X, r)
                /\ (\A y \in X : ~In(y, qtBuffer)) \/ (\A y \in X : ~In(y, r))
                => Lone(X, bytes)
  BY <1>1, <1>3, JoinMessages
<1> HIDE DEF bytes
<1>5. \A y \in {"accept", "refuse"} : In(y, bytes) \/ In(y, left) <=> In(y, qtBuffer) \/ In(y, down)
  BY <1>2, <1>3, <1>4
<1>6. Lone(Answers, p) /\ Lone(Answers, left) /\ (NoAnswer(p) \/ NoAnswer(left))
  BY <1>1, <1>2
<1>7. Lone(Answers, bytes) /\ (NoAnswer(bytes) \/ NoAnswer(left))
  <2>1. \A y \in Answers : (In(y, r) => In(y, down)) /\ (In(y, left) => In(y, down)) /\ (In(y, r) => In(y, p))
    BY <1>2, <1>3
  <2>2. Lone(Answers, r)
    BY <1>3, <1>6
  <2>3. (\A y \in Answers : ~In(y, qtBuffer)) \/ (\A y \in Answers : ~In(y, r))
    BY <1>1, <2>1
  <2>4. Lone(Answers, bytes)
    BY <1>1, <1>4, <2>2, <2>3
  <2>5. NoAnswer(bytes) \/ NoAnswer(left)
    BY <1>1, <1>4, <1>6, <2>1
  <2> QED BY <2>4, <2>5
<1>8. ASSUME After(qtBuffer), After(down) \/ In("accept", qtBuffer)
      PROVE  After(bytes) /\ (After(left) \/ In("accept", bytes))
  BY <1>2, <1>3, <1>4, <1>8
<1> QED BY <1>2, <1>4, <1>5, <1>6, <1>7, <1>8 DEF p, r, bytes, left

\* What arrives is queued behind what is unread, or read.
LEMMA StepDataArrives == SessionInv /\ DataArrives => SessionInv'
<1> SUFFICES ASSUME SessionInv, DataArrives PROVE SessionInv'
  OBVIOUS
<1>1. PICK n \in 0 .. Len(down), more \in BOOLEAN :
        LET bytes == qtBuffer \o RemoveFirst(SubSeq(down, 1, n), "heartbeat")
        IN  /\ down' = SubSeq(down, n + 1, Len(down))
            /\ IF reading
               THEN qtBuffer' = bytes /\ UNCHANGED <<stack, recvBuffer, torn>>
               ELSE /\ stack' = <<"read">> \o stack /\ qtBuffer' = <<>>
                    /\ recvBuffer' = IF torn = "old" THEN <<>> ELSE bytes
                    /\ torn' = IF more THEN "this" ELSE "none"
  BY DEF DataArrives
<1> DEFINE bytes == qtBuffer \o RemoveFirst(SubSeq(down, 1, n), "heartbeat")
<1>2. /\ bytes \in Seq(Messages) /\ down' \in Seq(Messages)
      /\ \A y \in {"accept", "refuse"} : In(y, bytes) \/ In(y, down') <=> In(y, qtBuffer) \/ In(y, down)
      /\ Lone(Answers, bytes) /\ Lone(Answers, down') /\ (NoAnswer(bytes) \/ NoAnswer(down'))
      /\ After(qtBuffer) /\ (After(down) \/ In("accept", qtBuffer)) =>
           After(bytes) /\ (After(down') \/ In("accept", bytes))
  BY <1>1, Incoming
<1>3. /\ socket \in {"connected", "closing"} /\ UNCHANGED <<socket, timer, windows, up, server>>
      /\ InEventLoop
  BY DEF DataArrives
<1>4. \/ qtBuffer' = bytes /\ UNCHANGED <<stack, recvBuffer, torn>>
      \/ /\ ~reading /\ stack' = <<"read">> \o stack /\ qtBuffer' = <<>>
         /\ recvBuffer' = (IF torn = "old" THEN <<>> ELSE bytes)
         /\ torn' \in {"none", "this"}
  BY <1>1
<1> HIDE DEF bytes
<1> USE DEF SessionInv
<1>5. top(stack) \in Dialogs \cup {"bottom"} /\ ~On("newChatWindow") /\ ~On("loginOnConnected")
  BY <1>3, Waiting
<1>6. ~On("chatOnConnected") /\ torn # "old"
  BY <1>3, <1>5 DEF Label, Phase, Dialogs
<1>7. CASE qtBuffer' = bytes /\ UNCHANGED <<stack, recvBuffer, torn>>
  <2> USE <1>2, <1>3, <1>5, <1>6, <1>7 DEF windows
  <2>1. Ranges'
    BY DEF Ranges
  <2>2. Stages'
    BY DEF Stages
  <2>3. Phase'
    BY DEF Phase
  <2>4. Button'
    BY DEF Button
  <2>5. Label'
    BY DEF Label
  <2>6. Chats'
    BY DEF Chats
  <2> QED BY <2>1, <2>2, <2>3, <2>4, <2>5, <2>6
<1>8. CASE /\ ~reading /\ stack' = <<"read">> \o stack /\ qtBuffer' = <<>>
           /\ recvBuffer' = (IF torn = "old" THEN <<>> ELSE bytes)
           /\ torn' \in {"none", "this"}
  <2>7. ~On("read") /\ recvBuffer = <<>>
    BY <1>8, Reads DEF Ranges
  <2>8. Proper(stack') /\ stack' # <<>> /\ \A y : On(y)' <=> y = "read" \/ On(y)
    <3>1. Follows("read", top(stack)) /\ "read" \in Dialogs \cup Steps
      BY <1>5 DEF Follows, Dialogs, Steps
    <3> QED BY <1>8, <2>7, <3>1, Push
  <2>9. /\ <<>> \in Seq(Messages) /\ After(<<>>) /\ \A y, X : ~In(y, <<>>) /\ Lone(X, <<>>)
    BY NoMessages
  <2>10. recvBuffer' = bytes
    BY <1>6, <1>8
  <2> USE <1>2, <1>3, <1>5, <1>6, <1>8, <2>7, <2>8, <2>9, <2>10 DEF windows
  <2>1. Ranges'
    BY DEF Ranges
  <2>2. Stages'
    BY DEF Stages
  <2>3. Phase'
    BY DEF Phase
  <2>4. Button'
    BY DEF Button
  <2>5. Label'
    BY DEF Label
  <2>6. Chats'
    BY DEF Chats
  <2> QED BY <2>1, <2>2, <2>3, <2>4, <2>5, <2>6
<1> QED BY <1>4, <1>7, <1>8

\* processMessage opens a box for the one answer to the login.
LEMMA StepReadMessage == SessionInv /\ ReadMessage => SessionInv'
<1> SUFFICES ASSUME SessionInv, ReadMessage PROVE SessionInv'
  OBVIOUS
<1> USE DEF SessionInv
<1>1. /\ At("read") /\ recvBuffer # <<>> /\ recvBuffer' = Tail(recvBuffer)
      /\ UNCHANGED <<socket, timer, qtBuffer, torn, windows, network>>
      /\ Head(recvBuffer) = "accept" => stack' = <<"loginSuccessful">> \o stack
      /\ Head(recvBuffer) = "refuse" => stack' = <<"loginFailed">> \o stack
      /\ Head(recvBuffer) \notin {"accept", "refuse"} => stack' = stack
  BY DEF ReadMessage, Opens
<1>2. /\ top(stack) = "read" /\ stack # <<>> /\ On("read") /\ ~On("newChatWindow") /\ ~On("loginOnConnected")
      /\ \A y \in Onto : ~On(y)
  BY <1>1, Returning, Alone DEF At
<1>3. /\ recvBuffer' \in Seq(Messages)
      /\ \A y : In(y, recvBuffer) <=> y = Head(recvBuffer) \/ In(y, recvBuffer')
      /\ After(recvBuffer) => Head(recvBuffer) # "chat" /\ (Head(recvBuffer) # "accept" => After(recvBuffer'))
      /\ Lone(Answers, recvBuffer') /\ (Head(recvBuffer) \in Answers => NoAnswer(recvBuffer'))
  <2>1. recvBuffer \in Seq(Messages) /\ Lone(Answers, recvBuffer)
    BY DEF Ranges, Stages
  <2>2. /\ Tail(recvBuffer) \in Seq(Messages)
        /\ \A y : In(y, recvBuffer) <=> y = Head(recvBuffer) \/ In(y, Tail(recvBuffer))
        /\ After(recvBuffer) =>
             Head(recvBuffer) # "chat" /\ (Head(recvBuffer) # "accept" => After(Tail(recvBuffer)))
        /\ \A X : Lone(X, recvBuffer) =>
                    Lone(X, Tail(recvBuffer)) /\ (Head(recvBuffer) \in X => \A y \in X : ~In(y, Tail(recvBuffer)))
    BY <1>1, <2>1, OneLess
  <2> QED BY <1>1, <2>1, <2>2
<1>4. CASE Head(recvBuffer) \in {"accept", "refuse"}
  <2>7. PICK x \in {"loginSuccessful", "loginFailed"} :
          /\ stack' = <<x>> \o stack /\ (x = "loginSuccessful" <=> Head(recvBuffer) = "accept")
    BY <1>1, <1>4
  <2>8. Proper(stack') /\ stack' # <<>> /\ \A y : On(y)' <=> y = x \/ On(y)
    <3>1. Follows(x, top(stack)) /\ x \in Dialogs \cup Steps /\ x # "read"
      BY <1>2 DEF Follows, Dialogs
    <3> QED BY <2>7, <3>1, Push
  <2>9. Answered
    BY <1>3, <1>4
  <2>10. ~NoAnswer(recvBuffer) /\ NoAnswer(qtBuffer) /\ NoAnswer(down)
    BY <1>3, <1>4 DEF Stages
  <2> USE <1>1, <1>2, <1>3, <1>4, <2>7, <2>8, <2>9, <2>10 DEF windows, network
  <2>1. Ranges'
    BY DEF Ranges
  <2>2. Stages'
    BY DEF Stages
  <2>3. Phase'
    BY DEF Phase, Stages
  <2>4. Button'
    BY DEF Button
  <2>5. Label'
    BY DEF Label, Stages
  <2>6. Chats'
    BY DEF Chats
  <2> QED BY <2>1, <2>2, <2>3, <2>4, <2>5, <2>6
<1>5. CASE Head(recvBuffer) \notin {"accept", "refuse"}
  <2> USE <1>1, <1>2, <1>3, <1>5 DEF windows, network
  <2>1. Ranges'
    BY DEF Ranges
  <2>2. Stages'
    BY DEF Stages
  <2>3. Phase'
    BY DEF Phase
  <2>4. Button'
    BY DEF Button
  <2>5. Label'
    BY DEF Label
  <2>6. Chats'
    BY DEF Chats
  <2> QED BY <2>1, <2>2, <2>3, <2>4, <2>5, <2>6
<1> QED BY <1>4, <1>5

----------------------------------------------------------------------------
(* The server. *)

\* The server answers the one login once.
LEMMA StepServerReads == SessionInv /\ ServerReads => SessionInv'
<1> SUFFICES ASSUME SessionInv, ServerReads PROVE SessionInv'
  OBVIOUS
<1> USE DEF SessionInv
<1>1. /\ server \in {"open", "online"} /\ up # <<>> /\ up' = Tail(up) /\ UNCHANGED client
      /\ socket \in {"connected", "closing"}
  BY DEF ServerReads, Ranges, Phase
<1>2. /\ up' \in Seq(Messages) /\ Head(up) \in Messages
      /\ \A y : In(y, up) <=> y = Head(up) \/ In(y, up')
      /\ Lone({"login"}, up') /\ (Head(up) = "login" => ~In("login", up'))
  <2>1. up \in Seq(Messages) /\ Lone({"login"}, up)
    BY DEF Ranges, Stages
  <2>2. /\ Tail(up) \in Seq(Messages) /\ Head(up) \in Messages
        /\ \A y : In(y, up) <=> y = Head(up) \/ In(y, Tail(up))
        /\ \A X : Lone(X, up) => Lone(X, Tail(up)) /\ (Head(up) \in X => \A y \in X : ~In(y, Tail(up)))
    BY <1>1, <2>1, OneLess
  <2> QED BY <1>1, <2>1, <2>2
<1>3. down \in Seq(Messages) /\ Lone(Answers, down)
  BY DEF Ranges, Stages
<1>4. CASE /\ Head(up) = "login" /\ down' = down \o <<"accept", "list">> /\ server' = "online"
  <2>7. Asked /\ ~Asking /\ ~Answered /\ ~Accepted /\ ~Refused /\ ~Open /\ ~Leaving /\ ~In("login", up')
    BY <1>2, <1>4 DEF Stages
  <2>8. /\ down' \in Seq(Messages) /\ Lone(Answers, down') /\ (After(down) => After(down'))
        /\ \A y : In(y, down') <=> In(y, down) \/ y = "accept" \/ y = "list"
    <3> DEFINE t == <<"accept", "list">>
    <3>1. t \in Seq(Messages) /\ Len(t) = 2 /\ t[1] = "accept" /\ t[2] = "list"
      BY DEF Messages
    <3> HIDE DEF t
    <3>2. /\ \A y : In(y, t) <=> y = "accept" \/ y = "list"
          /\ After(t)
      BY <3>1 DEF In, After
    <3>3. Lone(Answers, t)
      <4>1. \A i \in 1 .. Len(t) : t[i] \in Answers => i = 1
        BY <3>1
      <4> QED BY <4>1 DEF Lone
    <3>4. /\ down \o t \in Seq(Messages)
          /\ \A y : In(y, down \o t) <=> In(y, down) \/ In(y, t)
          /\ After(down) /\ (After(t) \/ In("accept", down)) => After(down \o t)
          /\ \A X : /\ Lone(X, down) /\ Lone(X, t)
                    /\ (\A y \in X : ~In(y, down)) \/ (\A y \in X : ~In(y, t))
                    => Lone(X, down \o t)
      BY <1>3, <3>1, JoinMessages
    <3>5. down' = down \o t
      BY <1>4 DEF t
    <3>6. \A y \in Answers : ~In(y, down)
      BY <2>7
    <3> QED BY <1>3, <3>2, <3>3, <3>4, <3>5, <3>6
  <2> USE <1>1, <1>2, <1>4, <2>7, <2>8 DEF client, buffers, windows
  <2>1. Ranges'
    BY DEF Ranges
  <2>2. Stages'
    BY DEF Stages
  <2>3. Phase'
    BY DEF Phase
  <2>4. Button'
    BY DEF Button
  <2>5. Label'
    BY DEF Label
  <2>6. Chats'
    BY DEF Chats
  <2> QED BY <2>1, <2>2, <2>3, <2>4, <2>5, <2>6
<1>5. CASE Head(up) = "login" /\ down' = Append(down, "refuse") /\ server' = server
  <2>7. Asked /\ ~Asking /\ ~Answered /\ ~Accepted /\ ~Refused /\ ~Open /\ ~Leaving /\ ~In("login", up')
    BY <1>2, <1>5 DEF Stages
  <2>8. /\ down' \in Seq(Messages) /\ Lone(Answers, down') /\ (After(down) => After(down'))
        /\ \A y : In(y, down') <=> In(y, down) \/ y = "refuse"
    <3>1. "refuse" \in Messages /\ \A y \in Answers : ~In(y, down)
      BY <2>7 DEF Messages
    <3> QED BY <1>3, <1>5, <3>1, OneMore
  <2> USE <1>1, <1>2, <1>5, <2>7, <2>8 DEF client, buffers, windows
  <2>1. Ranges'
    BY DEF Ranges
  <2>2. Stages'
    BY DEF Stages
  <2>3. Phase'
    BY DEF Phase
  <2>4. Button'
    BY DEF Button
  <2>5. Label'
    BY DEF Label
  <2>6. Chats'
    BY DEF Chats
  <2> QED BY <2>1, <2>2, <2>3, <2>4, <2>5, <2>6
<1>6. CASE /\ Head(up) # "login" /\ down' = down
           /\ server' = IF Head(up) = "logout" THEN "gone" ELSE server
  <2> USE <1>1, <1>2, <1>6 DEF client, buffers, windows
  <2>1. Ranges'
    BY DEF Ranges
  <2>2. Stages'
    BY DEF Stages
  <2>3. Phase'
    BY DEF Phase
  <2>4. Button'
    BY DEF Button
  <2>5. Label'
    BY DEF Label
  <2>6. Chats'
    BY DEF Chats
  <2> QED BY <2>1, <2>2, <2>3, <2>4, <2>5, <2>6
<1>7. CASE /\ server' = server /\ Head(up) # "login"
           /\ down' = down \/ \E m \in {"heartbeat", "list"} : down' = Append(down, m)
  <2>7. /\ down' \in Seq(Messages) /\ Lone(Answers, down') /\ (After(down) => After(down'))
        /\ \A y \in {"accept", "refuse"} : In(y, down') <=> In(y, down)
    <3>1. ASSUME NEW m \in {"heartbeat", "list"}, down' = Append(down, m)
          PROVE  /\ down' \in Seq(Messages) /\ Lone(Answers, down') /\ (After(down) => After(down'))
                 /\ \A y \in {"accept", "refuse"} : In(y, down') <=> In(y, down)
      <4>1. m \in Messages /\ m \notin Answers /\ m # "chat"
        BY DEF Messages
      <4> QED BY <1>3, <3>1, <4>1, OneMore
    <3> QED BY <1>3, <1>7, <3>1
  <2> USE <1>1, <1>2, <1>7, <2>7 DEF client, buffers, windows
  <2>1. Ranges'
    BY DEF Ranges
  <2>2. Stages'
    BY DEF Stages
  <2>3. Phase'
    BY DEF Phase
  <2>4. Button'
    BY DEF Button
  <2>5. Label'
    BY DEF Label
  <2>6. Chats'
    BY DEF Chats
  <2> QED BY <2>1, <2>2, <2>3, <2>4, <2>5, <2>6
<1> QED
  <2>1. CASE Head(up) = "login"
    BY <1>4, <1>5, <2>1 DEF ServerReads
  <2>2. CASE Head(up) = "logout"
    BY <1>6, <2>2 DEF ServerReads
  <2>3. CASE Head(up) \notin {"login", "logout", "heartbeat", "list"}
    BY <1>6, <2>3 DEF ServerReads
  <2>4. CASE Head(up) = "heartbeat"
    BY <1>7, <2>4 DEF ServerReads
  <2>5. CASE Head(up) = "list"
    BY <1>7, <2>5 DEF ServerReads
  <2> QED BY <2>1, <2>2, <2>3, <2>4, <2>5

\* Who is logged in hears of the others after the acceptance.
LEMMA StepServerSends == SessionInv /\ ServerSends => SessionInv'
<1> SUFFICES ASSUME SessionInv, ServerSends PROVE SessionInv'
  OBVIOUS
<1> USE DEF SessionInv
<1>1. server = "online" /\ UNCHANGED <<client, up, server>>
  BY DEF ServerSends
<1>2. PICK m \in {"chat", "list"} : down' = Append(down, m)
  BY DEF ServerSends
<1>3. /\ down' \in Seq(Messages) /\ Lone(Answers, down')
      /\ (After(down) /\ In("accept", down) => After(down'))
      /\ \A y \in {"accept", "refuse"} : In(y, down') <=> In(y, down)
  <2>1. m \in Messages /\ m \notin Answers /\ down \in Seq(Messages) /\ Lone(Answers, down)
    BY DEF Messages, Ranges, Stages
  <2> QED BY <1>2, <2>1, OneMore
<1>4. socket \in {"connected", "closing"}
  BY <1>1 DEF Phase, Ranges
<1> USE <1>1, <1>3, <1>4 DEF client, buffers, windows
<1>5. Ranges'
  BY DEF Ranges
<1>6. Stages'
  BY DEF Stages
<1>7. Phase'
  BY DEF Phase
<1>8. Button'
  BY DEF Button
<1>9. Label'
  BY DEF Label
<1>10. Chats'
  BY DEF Chats
<1> QED BY <1>5, <1>6, <1>7, <1>8, <1>9, <1>10

\* The server leaves; nothing of it is lost yet.
LEMMA StepServerDrops == SessionInv /\ ServerDrops => SessionInv'
<1> SUFFICES ASSUME SessionInv, ServerDrops PROVE SessionInv'
  OBVIOUS
<1> USE DEF SessionInv
<1>1. server \in {"open", "online"} /\ server' = "gone" /\ UNCHANGED <<client, up, down>>
  BY DEF ServerDrops
<1> USE <1>1 DEF client, buffers, windows
<1>2. Ranges'
  BY DEF Ranges
<1>3. Stages'
  BY DEF Stages
<1>4. Phase'
  BY DEF Phase
<1>5. Button'
  BY DEF Button
<1>6. Label'
  BY DEF Label
<1>7. Chats'
  BY DEF Chats
<1> QED BY <1>2, <1>3, <1>4, <1>5, <1>6, <1>7

----------------------------------------------------------------------------
(* The theorems. *)

\* Nothing happens.
LEMMA StaysSo == SessionInv /\ UNCHANGED vars => SessionInv'
<1> SUFFICES ASSUME SessionInv, UNCHANGED vars PROVE SessionInv'
  OBVIOUS
<1> USE DEF SessionInv
<1> USE DEF vars, buffers, windows, network
<1>1. Ranges'
  BY DEF Ranges
<1>2. Stages'
  BY DEF Stages
<1>3. Phase'
  BY DEF Phase
<1>4. Button'
  BY DEF Button
<1>5. Label'
  BY DEF Label
<1>6. Chats'
  BY DEF Chats
<1> QED BY <1>1, <1>2, <1>3, <1>4, <1>5, <1>6

\* The invariant of the client: how the call stack, the socket, the messages on their way and the windows
\* depend on each other.
THEOREM SessionInvariant == Spec => []SessionInv
<1>1. Init => SessionInv
  BY StartsSo
<1>2. SessionInv /\ [Next]_vars => SessionInv'
  <2> SUFFICES ASSUME SessionInv, [Next]_vars PROVE SessionInv'
    OBVIOUS
  <2>1. CASE User
    BY <2>1, StepConnectClicked, StepSendClicked, StepCloseChatWindow DEF User
  <2>2. CASE Answer
    BY <2>2, StepCloseWarning, StepCloseError, StepCloseLoginFailed, StepCloseLoginSuccessful DEF Answer
  <2>3. CASE Thread
    BY <2>3, StepLoginOnConnected, StepChatOnConnected, StepChatOnDisconnected, StepDrop, StepReadMessage,
       StepReadReturns, StepLogout, StepDisconnectFromHost, StepEnable, StepNewChatWindow, StepShowChatWindow,
       StepWindowClosed DEF Thread
  <2>4. CASE Connected \/ ConnectFails \/ RemoteCloses \/ NetworkFails
    BY <2>4, StepConnected, StepConnectFails, StepRemoteCloses, StepNetworkFails
  <2>5. CASE DataArrives \/ HeartbeatTimeout
    BY <2>5, StepDataArrives, StepHeartbeatTimeout
  <2>6. CASE ServerReads \/ ServerSends \/ ServerDrops
    BY <2>6, StepServerReads, StepServerSends, StepServerDrops
  <2>7. CASE UNCHANGED vars
    BY <2>7, StaysSo
  <2> QED BY <2>1, <2>2, <2>3, <2>4, <2>5, <2>6, <2>7 DEF Next
<1> QED BY <1>1, <1>2, PTL DEF Spec

\* Every variable stays in its range, and recvBuffer_ holds whole messages only while onReadyRead is at
\* work: it never returns with one unread.
THEOREM SessionTypes == Spec => []TypeOK
<1>1. SessionInv => TypeOK
  BY Reads DEF SessionInv, Ranges, Proper, TypeOK
<1> QED BY <1>1, SessionInvariant, PTL

\* The user always has a way on: one window, whose button works unless a connection is being made or
\* dropped (onConnectClicked, onConnectError, onDisconnected, closeEvent).
THEOREM AWayOn == Spec => []NotStuck
<1>1. SessionInv => NotStuck
  <2> SUFFICES ASSUME SessionInv, stack = <<>>
               PROVE  /\ loginShown <=> chatWindow # "shown"
                      /\ loginShown /\ socket = "unconnected" => button
                      /\ loginShown /\ button => socket \in {"unconnected", "closing"}
    BY DEF NotStuck, Clickable
  <2>1. \A y : ~On(y)
    BY Bottom
  <2> QED BY <2>1 DEF SessionInv, Ranges, Button
<1> QED BY <1>1, SessionInvariant, PTL

\* The chat window's label tells the truth about the socket, and a connection it is true of is logged in
\* (ChatWindow::onConnected, onDisconnected and the constructor).
THEOREM LabelTellsTruth == Spec => []LabelHonest
<1>1. SessionInv => LabelHonest
  <2> SUFFICES ASSUME SessionInv, stack = <<>>, Open
               PROVE  /\ label = "Connected" <=> socket = "connected"
                      /\ socket = "connected" => server \in {"online", "gone"}
    BY DEF LabelHonest, Clickable
  <2>1. \A y : ~On(y)
    BY Bottom
  <2> QED BY <2>1 DEF SessionInv, Ranges, Label
<1> QED BY <1>1, SessionInvariant, PTL

\* No chat message is processed before there is a chat window to show it (processMessage).
THEOREM EveryChatHeard == Spec => NothingUnheard
<1>1. SessionInv /\ [Next]_vars =>
        [At("read") /\ recvBuffer # <<>> /\ recvBuffer' = Tail(recvBuffer) /\ Head(recvBuffer) = "chat"
           => chatWindow # "none"]_vars
  <2> SUFFICES ASSUME SessionInv, At("read"), recvBuffer # <<>>, Head(recvBuffer) = "chat"
               PROVE  chatWindow # "none"
    OBVIOUS
  <2>1. ~Accepted
    BY Alone DEF At, SessionInv
  <2>2. ~After(recvBuffer)
    BY OneLess DEF SessionInv, Ranges
  <2> QED BY <2>1, <2>2 DEF SessionInv, Chats
<1> QED BY <1>1, SessionInvariant, PTL DEF Spec, NothingUnheard

=============================================================================

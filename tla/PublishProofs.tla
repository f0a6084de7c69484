---------------------------- MODULE PublishProofs ----------------------------
(***************************************************************************)
(* What Publish promises, for any number of pairings, accounts, episodes,  *)
(* outlines, site orders and calls: a device the writer has disconnected   *)
(* stays disconnected, nothing is waited for that has ended, and an        *)
(* episode ends up where it belongs.                                       *)
(*                                                                         *)
(* The first is not inductive: an attempt that is waited for would store a *)
(* token.  It is with the fact that only the writer's own Start makes an   *)
(* attempt the current one, so that after Disconnect there is none.        *)
(*                                                                         *)
(* The last takes two steps.  The loop of desiredOrder is a function of    *)
(* how far it has come, and each round keeps that everything has one place *)
(* and nothing stands in front of what it belongs behind (DesiredIs).  And *)
(* what a publish has read of the site's order stays true up to its last   *)
(* answer, because Service.mu keeps this device's other calls away (Kept): *)
(* only another device may have come between.                              *)
(***************************************************************************)
EXTENDS Publish, FiniteSetTheorems, SequenceTheorems, WellFoundedInduction, TLAPS

-----------------------------------------------------------------------------
(* Connecting, and who is waited for.                                       *)

\* The values are records with the fields the proof looks at.
Shape ==
    /\ DOMAIN pairing = Pairings /\ \A p \in Pairings : "pc" \in DOMAIN pairing[p]
    /\ DOMAIN op = Calls /\ \A t \in Calls : "pc" \in DOMAIN op[t]
    /\ current \in Pairings \cup {0} /\ mu \in Calls \cup {0}

\* Nothing is stored and nothing is waited for once the writer has disconnected.
Quiet == ~wanted => creds = 0 /\ account = Nobody /\ current = 0

Inv == Shape /\ Quiet /\ WaitedFor

\* It holds at first.
LEMMA Begins == Init => Inv
  <1> SUFFICES ASSUME Init PROVE Inv  OBVIOUS
  <1>1. Shape  BY SomePairings DEF Init, Shape, Pairings, Idle
  <1>2. Quiet  BY DEF Init, Quiet
  <1>3. WaitedFor  BY DEF Init, WaitedFor
  <1> QED  BY <1>1, <1>2, <1>3 DEF Inv

\* Connecting keeps it: Approve stores only for the attempt that is current.
LEMMA ConnectingKeeps == ASSUME Inv, Connecting PROVE Inv'
  <1>1. CASE StartBegin
    BY <1>1, SomePairings DEF Inv, Shape, Quiet, WaitedFor, Pairings, StartBegin, Stopped
  <1>2. CASE Disconnect
    BY <1>2, SomePairings DEF Inv, Shape, Quiet, WaitedFor, Pairings, Disconnect, Stopped, Turn
  <1>3. CASE Revoke
    BY <1>3, SomePairings DEF Inv, Shape, Quiet, WaitedFor, Pairings, Revoke, Turn
  <1>4. ASSUME NEW p \in Pairings, StartEnd(p) PROVE Inv'
    BY <1>4, SomePairings DEF Inv, Shape, Quiet, WaitedFor, Pairings, StartEnd
  <1>5. ASSUME NEW p \in Pairings, Answer(p) PROVE Inv'
    BY <1>5, SomePairings DEF Inv, Shape, Quiet, WaitedFor, Pairings, Answer
  <1>6. ASSUME NEW p \in Pairings, Poll(p) PROVE Inv'
    BY <1>6, SomePairings DEF Inv, Shape, Quiet, WaitedFor, Pairings, Poll, Turn, NoTurn
  <1>7. ASSUME NEW p \in Pairings, Fail(p) PROVE Inv'
    BY <1>7, SomePairings DEF Inv, Shape, Quiet, WaitedFor, Pairings, Fail, Cleared
  <1>8. ASSUME NEW p \in Pairings, Approve(p) PROVE Inv'
    BY <1>8, SomePairings DEF Inv, Shape, Quiet, WaitedFor, Pairings, Approve, IsCurrent, Turn, NoTurn
  <1> QED  BY <1>1, <1>2, <1>3, <1>4, <1>5, <1>6, <1>7, <1>8 DEF Connecting

\* A call keeps it: it takes the lock when it is free, and lets go of its own.
LEMMA CallKeeps == ASSUME Inv, NEW t \in Calls, Call(t) PROVE Inv'
  <1> USE DEF Inv, Shape, Quiet, WaitedFor, conn, work
  <1>1. ASSUME NEW what, NEW e, Begin(t, what, e) PROVE Inv'
    <2>1. op[t].pc = "idle" /\ mu' \in {mu, t} /\ UNCHANGED <<work, conn>>
      BY <1>1 DEF Begin
    <2>2. op' = [op EXCEPT ![t] = [Idle EXCEPT
                     !.pc = IF what = "upsert" THEN "register" ELSE "read",
                     !.what = what, !.node = e, !.token = creds, !.order = outline,
                     !.text = IF e = Nobody THEN 0 ELSE text[e]]]
      BY <1>1, Zenon DEF Begin
    <2>3. op'[t].pc # "idle" /\ "pc" \in DOMAIN op'[t]  BY <2>2 DEF Idle
    <2>4. DOMAIN op' = Calls /\ \A u \in Calls \ {t} : op'[u] = op[u]  BY <2>2
    <2> QED  BY <2>1, <2>3, <2>4
  <1>2. CASE Lost(t)
    BY <1>2, CountedCalls DEF Lost, Turn, End, Release, Idle
  <1>3. CASE Refused(t)
    BY <1>3, CountedCalls DEF Refused, End, Release, Idle
  <1>4. CASE Register(t)
    BY <1>4, CountedCalls DEF Register, Turn, NoTurn, Go, End, Release, Idle
  <1>5. CASE Read(t)
    BY <1>5, CountedCalls DEF Read, Go, End, Release, Idle
  <1>6. CASE Patch(t)
    BY <1>6, CountedCalls DEF Patch, End, Release, Idle
  <1>7. CASE Put(t)
    BY <1>7, CountedCalls DEF Put, Answered, Turn, NoTurn, Go, End, Release, Idle
  <1>8. CASE Reorder(t)
    BY <1>8, CountedCalls DEF Reorder, Answered, Turn, NoTurn, Go, End, Release, Idle
  <1>9. CASE Refresh(t)
    BY <1>9, CountedCalls DEF Refresh, Go
  <1>10. CASE Keep(t)
    BY <1>10, CountedCalls DEF Keep, End, Release, Idle
  <1>11. CASE Forget(t)
    BY <1>11, CountedCalls DEF Forget, End, Release, Idle
  <1> QED  BY <1>1, <1>2, <1>3, <1>4, <1>5, <1>6, <1>7, <1>8, <1>9, <1>10, <1>11 DEF Call, BeginCall

\* Every step keeps it.
LEMMA Steps == Inv /\ [Next]_vars => Inv'
  <1> SUFFICES ASSUME Inv, [Next]_vars PROVE Inv'  OBVIOUS
  <1>1. CASE Connecting  BY <1>1, ConnectingKeeps
  <1>2. ASSUME NEW t \in Calls, Call(t) PROVE Inv'  BY <1>2, CallKeeps
  <1>3. CASE Edit  BY <1>3 DEF Edit, Inv, Shape, Quiet, WaitedFor, conn
  <1>4. CASE Other  BY <1>4 DEF Other, Inv, Shape, Quiet, WaitedFor, conn
  <1>5. CASE UNCHANGED vars  BY <1>5 DEF vars, work, conn, Inv, Shape, Quiet, WaitedFor
  <1> QED  BY <1>1, <1>2, <1>3, <1>4, <1>5 DEF Next

\* Only what the writer started connects, and whoever has the lock is at work.
THEOREM Invariant == Spec => []Inv
  <1> QED  BY Begins, Steps, PTL DEF Spec

\* A poll that was on its way when the writer disconnected, cancelled or started over
\* connects nothing (connect.go: approve looks whether its attempt is still current).
THEOREM Disconnected == Spec => []StaysDisconnected
  <1>1. Inv => StaysDisconnected  BY DEF Inv, Quiet, StaysDisconnected
  <1> QED  BY <1>1, Invariant, PTL

\* Whatever the pane waits for is under way, and whoever holds Service.mu is.
THEOREM NothingHangs == Spec => []WaitedFor
  <1>1. Inv => WaitedFor  BY DEF Inv
  <1> QED  BY <1>1, Invariant, PTL

-----------------------------------------------------------------------------
(* Loops.                                                                   *)

\* What holds of 0 and goes from each number to the next holds up to n.
LEMMA Climbs ==
  ASSUME NEW n \in Nat, NEW T, 0 \in T, \A k \in 1..n : k - 1 \in T => k \in T
  PROVE  \A k \in 0..n : k \in T
  <1> DEFINE Bad == {k \in 0..n : k \notin T}
  <1>1. SUFFICES ASSUME Bad # {} PROVE FALSE  OBVIOUS
  <1>2. IsWellFoundedOn(OpToRel(<, Nat), Nat)  BY NatLessThanWellFounded
  <1>3. Bad \subseteq Nat  OBVIOUS
  <1> HIDE DEF Bad
  <1>4. PICK k \in Bad : \A j \in Bad : ~(<<j, k>> \in OpToRel(<, Nat))  BY <1>1, <1>2, <1>3, WFMin
  <1>5. \A j \in Bad : ~(j < k)  BY <1>3, <1>4 DEF OpToRel
  <1>6. k \in 0..n /\ k \notin T  BY <1>4 DEF Bad
  <1>7. k # 0 /\ k \in 1..n /\ k - 1 \in 0..n /\ k - 1 < k  BY <1>6
  <1>8. k - 1 \notin Bad  BY <1>5, <1>7
  <1> QED  BY <1>6, <1>7, <1>8 DEF Bad

\* A loop that can always go on gives a function of how far it has come.
GoesOn(n, X, step) == \A i \in 1..n, x \in X : \E y \in X : <<i, x, y>> \in step
Goes(g, n, X, base, step) ==
    g \in [0..n -> X] /\ g[0] = base /\ \A i \in 1..n : <<i, g[i - 1], g[i]>> \in step

\* There is one: up to each round by what it was up to the one before.
LEMMA Recursion ==
  ASSUME NEW n \in Nat, NEW X, NEW base \in X, NEW step, GoesOn(n, X, step)
  PROVE  \E g : Goes(g, n, X, base, step)
  <1> DEFINE T == {k \in 0..n : \E g \in [0..k -> X] :
                        g[0] = base /\ \A i \in 1..k : <<i, g[i - 1], g[i]>> \in step}
  <1>1. 0 \in T
    <2> DEFINE g == [i \in 0..0 |-> base]
    <2>1. g \in [0..0 -> X] /\ g[0] = base /\ \A i \in 1..0 : <<i, g[i - 1], g[i]>> \in step  OBVIOUS
    <2> HIDE DEF g
    <2> QED  BY <2>1
  <1>2. ASSUME NEW k \in 1..n, k - 1 \in T PROVE k \in T
    <2>1. PICK g \in [0..(k - 1) -> X] :
               g[0] = base /\ \A i \in 1..(k - 1) : <<i, g[i - 1], g[i]>> \in step
      BY <1>2
    <2>2. k - 1 \in 0..(k - 1) /\ g[k - 1] \in X  BY <2>1
    <2>3. PICK y \in X : <<k, g[k - 1], y>> \in step  BY <2>2 DEF GoesOn
    <2> DEFINE h == [i \in 0..k |-> IF i = k THEN y ELSE g[i]]
    <2>4. h \in [0..k -> X]
      <3>1. \A i \in 0..k : i # k => i \in 0..(k - 1)  OBVIOUS
      <3> QED  BY <2>1, <2>3, <3>1
    <2>5. h[0] = base  BY <2>1
    <2>6. ASSUME NEW i \in 1..k PROVE <<i, h[i - 1], h[i]>> \in step
      <3>1. i \in 0..k /\ i - 1 \in 0..k /\ i - 1 # k  OBVIOUS
      <3>2. h[i - 1] = g[i - 1]  BY <3>1
      <3>3. CASE i = k  BY <2>3, <3>1, <3>2, <3>3
      <3>4. CASE i # k
        <4>1. i \in 1..(k - 1)  BY <3>4
        <4> QED  BY <2>1, <3>1, <3>2, <3>4, <4>1
      <3> QED  BY <3>3, <3>4
    <2> HIDE DEF h
    <2> QED  BY <2>4, <2>5, <2>6
  <1> HIDE DEF T
  <1>3. n \in T  BY <1>1, <1>2, Climbs
  <1> QED  BY <1>3 DEF T, Goes

-----------------------------------------------------------------------------
(* Lists.                                                                   *)

\* x stands before y in s.
Prec(s, x, y) == \E i, j \in 1..Len(s) : i < j /\ s[i] = x /\ s[j] = y

\* A list, its places and what is in it.
LEMMA ListIs ==
  ASSUME NEW s \in Seq(Episodes)
  PROVE  /\ Len(s) \in Nat /\ DOMAIN s = 1..Len(s) /\ ToSet(s) \subseteq Episodes
         /\ \A x : x \in ToSet(s) <=> \E i \in 1..Len(s) : s[i] = x
  BY DEF ToSet

\* Two lists joined.
LEMMA JoinIs ==
  ASSUME NEW s \in Seq(Episodes), NEW u \in Seq(Episodes)
  PROVE  /\ s \o u \in Seq(Episodes) /\ ToSet(s \o u) = ToSet(s) \cup ToSet(u)
         /\ \A x, y : Prec(s \o u, x, y) =>
               Prec(s, x, y) \/ Prec(u, x, y) \/ (x \in ToSet(s) /\ y \in ToSet(u))
  <1> DEFINE w == s \o u
             m == Len(s)
             n == Len(u)
  <1>1. w \in Seq(Episodes) /\ Len(w) = m + n /\ m \in Nat /\ n \in Nat  OBVIOUS
  <1>2. \A i \in 1..Len(w) : w[i] = IF i <= m THEN s[i] ELSE u[i - m]  OBVIOUS
  <1> HIDE DEF w, m, n
  <1>3. \A i \in 1..Len(w) : (i \in 1..m /\ w[i] = s[i]) \/ (i - m \in 1..n /\ w[i] = u[i - m] /\ i > m)
    BY <1>1, <1>2
  <1>4. \A i \in 1..m : i \in 1..Len(w) /\ w[i] = s[i]  BY <1>1, <1>2
  <1>5. \A i \in 1..n : m + i \in 1..Len(w) /\ w[m + i] = u[i]  BY <1>1, <1>2
  <1>6. ToSet(w) = ToSet(s) \cup ToSet(u)
    <2>1. \A x \in ToSet(w) : x \in ToSet(s) \cup ToSet(u)
      BY <1>1, <1>3, ListIs DEF m, n
    <2>2. \A x \in ToSet(s) \cup ToSet(u) : x \in ToSet(w)
      <3> SUFFICES ASSUME NEW x, x \in ToSet(s) \/ x \in ToSet(u) PROVE x \in ToSet(w)  OBVIOUS
      <3>1. ASSUME x \in ToSet(s) PROVE x \in ToSet(w)
        <4>1. PICK i \in 1..m : s[i] = x  BY <3>1, ListIs DEF m
        <4> QED  BY <1>1, <1>4, <4>1, ListIs
      <3>2. ASSUME x \in ToSet(u) PROVE x \in ToSet(w)
        <4>1. PICK i \in 1..n : u[i] = x  BY <3>2, ListIs DEF n
        <4> QED  BY <1>1, <1>5, <4>1, ListIs
      <3> QED  BY <3>1, <3>2
    <2> QED  BY <2>1, <2>2
  <1>7. ASSUME NEW x, NEW y, Prec(w, x, y)
        PROVE  Prec(s, x, y) \/ Prec(u, x, y) \/ (x \in ToSet(s) /\ y \in ToSet(u))
    <2>1. PICK i \in 1..Len(w), j \in 1..Len(w) : i < j /\ w[i] = x /\ w[j] = y  BY <1>7 DEF Prec
    <2>2. CASE i \in 1..m /\ j \in 1..m
      <3>1. s[i] = x /\ s[j] = y  BY <1>4, <2>1, <2>2
      <3> QED  BY <2>1, <2>2, <3>1 DEF Prec, m
    <2>3. CASE i \in 1..m /\ j \notin 1..m
      <3>1. s[i] = x /\ j - m \in 1..n /\ u[j - m] = y  BY <1>3, <1>4, <2>1, <2>3
      <3> QED  BY <2>3, <3>1, ListIs DEF m, n
    <2>4. CASE i \notin 1..m
      <3>1. i - m \in 1..n /\ u[i - m] = x /\ i > m  BY <1>3, <2>1, <2>4
      <3>2. j - m \in 1..n /\ u[j - m] = y  BY <1>1, <1>3, <2>1, <3>1
      <3>3. i - m < j - m  BY <1>1, <2>1
      <3> QED  BY <3>1, <3>2, <3>3 DEF Prec, n
    <2> QED  BY <2>2, <2>3, <2>4
  <1> QED  BY <1>1, <1>6, <1>7 DEF w

\* A list and one more.
LEMMA AppendIs ==
  ASSUME NEW s \in Seq(Episodes), NEW e \in Episodes
  PROVE  /\ Append(s, e) = s \o <<e>> /\ Append(s, e) \in Seq(Episodes) /\ ToSet(Append(s, e)) = ToSet(s) \cup {e}
         /\ \A x, y : Prec(Append(s, e), x, y) => Prec(s, x, y) \/ (x \in ToSet(s) /\ y = e)
  <1> DEFINE u == <<e>>
  <1>1. u \in Seq(Episodes) /\ Len(u) = 1 /\ u[1] = e  OBVIOUS
  <1>2. Append(s, e) = s \o u  OBVIOUS
  <1> HIDE DEF u
  <1>3. ToSet(u) = {e} /\ \A x, y : ~Prec(u, x, y)
    <2>1. \A x : x \in ToSet(u) <=> x = e  BY <1>1, ListIs
    <2> QED  BY <1>1, <2>1 DEF Prec
  <1>4. Append(s, e) \in Seq(Episodes) /\ ToSet(s \o u) = ToSet(s) \cup {e}  BY <1>1, <1>2, <1>3, JoinIs
  <1>5. \A x, y : Prec(s \o u, x, y) => Prec(s, x, y) \/ (x \in ToSet(s) /\ y = e)
    BY <1>1, <1>3, JoinIs
  <1> QED  BY <1>2, <1>4, <1>5 DEF u

\* In a list that names nothing twice everything has one place.
LEMMA OnceIs ==
  ASSUME NEW s \in Seq(Episodes), \A x : ~Prec(s, x, x)
  PROVE  IsInjective(s)
  <1> SUFFICES ASSUME NEW i \in 1..Len(s), NEW j \in 1..Len(s), s[i] = s[j], i # j PROVE FALSE
    BY ListIs DEF IsInjective
  <1>1. i < j \/ j < i  OBVIOUS
  <1> QED  BY <1>1 DEF Prec

\* In a list that names nothing twice, what stands in front has the smaller place.
LEMMA PlaceIs ==
  ASSUME NEW s \in Lists
  PROVE  /\ s \in Seq(Episodes)
         /\ \A x \in ToSet(s) : Index(s, x) \in 1..Len(s) /\ s[Index(s, x)] = x
         /\ \A i \in 1..Len(s) : Index(s, s[i]) = i
         /\ \A x, y \in ToSet(s) : Prec(s, x, y) <=> Before(s, x, y)
         /\ \A x \in ToSet(s) : Index(s, x) = CHOOSE j \in DOMAIN s : s[j] = x
  <1>1. s \in Seq(Episodes) /\ IsInjective(s)  BY DEF Lists
  <1>2. \A i, j \in 1..Len(s) : s[i] = s[j] => i = j  BY <1>1 DEF IsInjective
  <1>3. \A x \in ToSet(s) : Index(s, x) \in 1..Len(s) /\ s[Index(s, x)] = x
    <2> SUFFICES ASSUME NEW x \in ToSet(s) PROVE Index(s, x) \in 1..Len(s) /\ s[Index(s, x)] = x
      OBVIOUS
    <2>1. \E i \in DOMAIN s : s[i] = x  BY <1>1, ListIs
    <2> QED  BY <1>1, <2>1 DEF Index
  <1>4. \A i \in 1..Len(s) : Index(s, s[i]) = i
    <2>1. \A i \in 1..Len(s) : s[i] \in ToSet(s)  BY <1>1, ListIs
    <2> QED  BY <1>2, <1>3, <2>1
  <1>5. \A x, y \in ToSet(s) : Prec(s, x, y) <=> Before(s, x, y)
    BY <1>2, <1>3, <1>4 DEF Prec, Before
  <1> QED  BY <1>1, <1>3, <1>4, <1>5 DEF Index

\* Those of s that are in S: what is behind is behind in s.
LEMMA ThoseIs ==
  ASSUME NEW s \in Seq(Episodes), NEW S
  PROVE  /\ Those(s, S) \in Seq(Episodes) /\ ToSet(Those(s, S)) = ToSet(s) \cap S
         /\ \A x, y : Prec(Those(s, S), x, y) => Prec(s, x, y)
  <1> DEFINE n == Len(s)
             none == <<>>
             Next_(w, i) == IF s[i] \in S THEN Append(w, s[i]) ELSE w
             X == Seq(Episodes)
             Rec(f) == f = [i \in 0..n |-> IF i = 0 THEN none ELSE Next_(f[i - 1], i)]
             out == CHOOSE f : Rec(f)
             step == {a \in (1..n) \X X \X X : a[3] = Next_(a[2], a[1])}
  <1>1. n \in Nat /\ \A i \in 1..n : s[i] \in Episodes  OBVIOUS
  <1>2. Those(s, S) = out[n]  BY DEF Those
  <1>3. \A w \in X, i \in 1..n : Next_(w, i) \in X  OBVIOUS
  <1>4. none \in Seq(Episodes) /\ Len(none) = 0  OBVIOUS
  <1> HIDE DEF n, none, Next_
  <1>5. PICK g : Goes(g, n, X, none, step)
    <2>1. GoesOn(n, X, step)  BY <1>3 DEF GoesOn
    <2>2. none \in X  BY <1>4
    <2> HIDE DEF X, step
    <2> QED  BY <1>1, <2>1, <2>2, Recursion
  <1>6. g \in [0..n -> X] /\ g[0] = none /\ \A i \in 1..n : g[i] = Next_(g[i - 1], i)
    BY <1>5 DEF Goes
  <1>7. Rec(g)
    <2>1. \A i \in 0..n : g[i] = IF i = 0 THEN none ELSE Next_(g[i - 1], i)  BY <1>1, <1>6
    <2> QED  BY <1>6, <2>1
  <1>8. Rec(out)  BY <1>7
  <1> HIDE DEF out
  <1>9. /\ out[0] = none
        /\ \A i \in 1..n : out[i] = Next_(out[i - 1], i)
    BY <1>1, <1>8
  <1> HIDE DEF Rec, X, step
  <1> DEFINE T == {k \in 0..n : /\ out[k] \in Seq(Episodes)
                                /\ ToSet(out[k]) = {s[i] : i \in 1..k} \cap S
                                /\ \A x, y : Prec(out[k], x, y) =>
                                      \E i, j \in 1..k : i < j /\ s[i] = x /\ s[j] = y}
  <1>10. 0 \in T
    <2>1. ToSet(none) = {} /\ \A x, y : ~Prec(none, x, y)
      <3>1. 1..Len(none) = {}  BY <1>4
      <3>2. \A x, y : ~Prec(none, x, y)  BY <3>1 DEF Prec
      <3>3. \A x : x \notin ToSet(none)  BY <1>4, <3>1, ListIs
      <3> QED  BY <3>2, <3>3
    <2>2. ToSet(none) = {s[i] : i \in 1..0} \cap S  BY <2>1
    <2>3. out[0] = none /\ none \in Seq(Episodes) /\ 0 \in 0..n  BY <1>1, <1>4, <1>9
    <2> QED  BY <2>1, <2>2, <2>3
  <1>11. ASSUME NEW k \in 1..n, k - 1 \in T PROVE k \in T
    <2> DEFINE was == out[k - 1]
    <2>1. /\ was \in Seq(Episodes) /\ ToSet(was) = {s[i] : i \in 1..(k - 1)} \cap S
          /\ \A x, y : Prec(was, x, y) => \E i, j \in 1..(k - 1) : i < j /\ s[i] = x /\ s[j] = y
      BY <1>11
    <2>2. out[k] = IF s[k] \in S THEN Append(was, s[k]) ELSE was  BY <1>9 DEF Next_
    <2> HIDE DEF was, T
    <2>3. \A x : (\E i \in 1..k : s[i] = x) <=> x = s[k] \/ \E i \in 1..(k - 1) : s[i] = x
      <3>1. \A i \in 1..k : i = k \/ i \in 1..(k - 1)  OBVIOUS
      <3>2. \A i \in 1..(k - 1) : i \in 1..k  OBVIOUS
      <3> QED  BY <3>1, <3>2
    <2>4. \A i \in 1..(k - 1) : i \in 1..k /\ i < k  OBVIOUS
    <2>5. CASE s[k] \in S
      <3>1. s[k] \in Episodes  BY <1>1
      <3>2. out[k] \in Seq(Episodes) /\ ToSet(out[k]) = ToSet(was) \cup {s[k]}
        BY <2>1, <2>2, <2>5, <3>1, AppendIs
      <3>3. ToSet(out[k]) = {s[i] : i \in 1..k} \cap S  BY <2>1, <2>3, <2>5, <3>2
      <3>4. ASSUME NEW x, NEW y, Prec(out[k], x, y)
            PROVE  \E i, j \in 1..k : i < j /\ s[i] = x /\ s[j] = y
        <4>1. Prec(was, x, y) \/ (x \in ToSet(was) /\ y = s[k])
          <5>1. Prec(Append(was, s[k]), x, y) /\ was \in Seq(Episodes)  BY <2>1, <2>2, <2>5, <3>4
          <5> QED  BY <3>1, <5>1, AppendIs
        <4>2. CASE Prec(was, x, y)  BY <2>1, <2>4, <4>2
        <4>3. CASE x \in ToSet(was) /\ y = s[k]  BY <2>1, <2>4, <4>3
        <4> QED  BY <4>1, <4>2, <4>3
      <3> QED  BY <1>1, <3>2, <3>3, <3>4 DEF T
    <2>6. CASE s[k] \notin S
      <3>1. out[k] = was  BY <2>2, <2>6
      <3>2. ToSet(was) = {s[i] : i \in 1..k} \cap S  BY <2>1, <2>3, <2>6
      <3>3. \A x, y : Prec(was, x, y) => \E i, j \in 1..k : i < j /\ s[i] = x /\ s[j] = y
        BY <2>1, <2>4
      <3> QED  BY <1>1, <2>1, <3>1, <3>2, <3>3 DEF T
    <2> QED  BY <2>5, <2>6
  <1>12. n \in 0..n  BY <1>1
  <1>13. n \in T
    <2> HIDE DEF T
    <2> QED  BY <1>1, <1>10, <1>11, <1>12, Climbs
  <1>14. ToSet(s) = {s[i] : i \in 1..n}  BY ListIs DEF n, ToSet
  <1> QED  BY <1>2, <1>13, <1>14 DEF n, Prec

-----------------------------------------------------------------------------
(* Where an episode belongs.                                                *)

\* a is the last of L in front of x, or Nobody.
Anchors(s, L, x, a) ==
    \/ a = Nobody /\ \A z \in L : ~Prec(s, z, x)
    \/ a \in L /\ Prec(s, a, x) /\ \A z \in L : Prec(s, z, x) => z = a \/ Prec(s, z, a)

\* Followed finds it.
LEMMA FollowedIs ==
  ASSUME NEW s \in Lists, NEW local \in Seq(Episodes), NEW x \in ToSet(s)
  PROVE  \A a : Followed(s, local, x) = a <=> Anchors(s, ToSet(local), x, a)
  <1> DEFINE L == ToSet(local)
             p == Index(s, x)
             before == {i \in DOMAIN s : s[i] \in L /\ i < p}
             T == {q \in 0..p : q < p /\ \A i \in before : i < p - q}
  <1>1. s \in Seq(Episodes) /\ p \in 1..Len(s) /\ s[p] = x /\ DOMAIN s = 1..Len(s) /\ L \subseteq Episodes
    BY PlaceIs, ListIs
  <1>2. Followed(s, local, x) =
           IF before = {} THEN Nobody ELSE s[CHOOSE i \in before : \A j \in before : j <= i]
    BY DEF Followed, Index
  <1>3. \A i, j \in 1..Len(s) : s[i] = s[j] => i = j  BY <1>1 DEF Lists, IsInjective
  <1> HIDE DEF p, L
  <1>4. CASE before = {}
    <2>1. \A z \in L : ~Prec(s, z, x)  BY <1>1, <1>3, <1>4 DEF Prec
    <2>2. Anchors(s, L, x, Nobody)  BY <2>1 DEF Anchors
    <2>3. \A a : Anchors(s, L, x, a) => a = Nobody  BY <2>1 DEF Anchors
    <2> QED  BY <1>2, <1>4, <2>2, <2>3 DEF L
  <1>5. CASE before # {}
    <2>1. \E i \in before : \A j \in before : j <= i
      <3> SUFFICES ASSUME \A i \in before : \E j \in before : ~(j <= i) PROVE FALSE  OBVIOUS
      <3> DEFINE U == {k \in 0..p : \A i \in before : ~(p - k <= i)}
      <3>1. 0 \in U  BY <1>1
      <3>2. ASSUME NEW k \in 1..p, k - 1 \in U PROVE k \in U
        <4>1. \A i \in before : i < p - k + 1  BY <1>1, <3>2
        <4>2. \A i \in before : i # p - k
          <5> SUFFICES ASSUME NEW i \in before, i = p - k PROVE FALSE  OBVIOUS
          <5>1. PICK j \in before : ~(j <= i)  OBVIOUS
          <5> QED  BY <1>1, <4>1, <5>1
        <4> QED  BY <1>1, <4>1, <4>2
      <3>3. p \in Nat /\ p \in 0..p  BY <1>1
      <3>4. p \in U
        <4> HIDE DEF U
        <4> QED  BY <3>1, <3>2, <3>3, Climbs
      <3> QED  BY <1>1, <1>5, <3>4
    <2> DEFINE m == CHOOSE i \in before : \A j \in before : j <= i
    <2>2. m \in before /\ \A j \in before : j <= m  BY <2>1
    <2>3. Followed(s, local, x) = s[m]  BY <1>2, <1>5
    <2> HIDE DEF m
    <2>4. m \in 1..Len(s) /\ s[m] \in L /\ m < p  BY <1>1, <2>2
    <2>5. Prec(s, s[m], x)  BY <1>1, <2>4 DEF Prec
    <2>6. ASSUME NEW z \in L, Prec(s, z, x) PROVE z = s[m] \/ Prec(s, z, s[m])
      <3>1. PICK i \in 1..Len(s) : i < p /\ s[i] = z  BY <1>1, <1>3, <2>6 DEF Prec
      <3>2. i <= m  BY <1>1, <2>2, <3>1
      <3> QED  BY <2>4, <3>1, <3>2 DEF Prec
    <2>7. Anchors(s, L, x, s[m])  BY <2>4, <2>5, <2>6 DEF Anchors
    <2>8. ASSUME NEW a, Anchors(s, L, x, a) PROVE a = s[m]
      <3>1. a \in L /\ Prec(s, a, x) /\ (s[m] = a \/ Prec(s, s[m], a))
        BY <2>4, <2>5, <2>8 DEF Anchors
      <3>2. a = s[m] \/ Prec(s, a, s[m])  BY <2>6, <3>1
      <3>3. ~(Prec(s, s[m], a) /\ Prec(s, a, s[m]))
        <4> SUFFICES ASSUME Prec(s, s[m], a), Prec(s, a, s[m]) PROVE FALSE  OBVIOUS
        <4>1. PICK i, j \in 1..Len(s) : i < j /\ s[i] = s[m] /\ s[j] = a  BY DEF Prec
        <4>2. PICK k, l \in 1..Len(s) : k < l /\ s[k] = a /\ s[l] = s[m]  BY DEF Prec
        <4>3. i = l /\ j = k  BY <1>3, <4>1, <4>2
        <4> QED  BY <4>1, <4>2, <4>3
      <3> QED  BY <3>1, <3>2, <3>3
    <2> QED  BY <2>3, <2>7, <2>8 DEF L
  <1> QED  BY <1>4, <1>5

\* How many of the work's episodes stand up to x, or up to the one that x stays behind;
\* and what stands in front of what once the order is made right.
Block(cur, local, x) ==
    LET a == IF x \in ToSet(local) THEN x ELSE Followed(cur, local, x)
    IN  IF a = Nobody THEN 0 ELSE Index(local, a)
Ahead(cur, local, x, y) ==
    \/ Block(cur, local, x) < Block(cur, local, y)
    \/ /\ Block(cur, local, x) = Block(cur, local, y)
       /\ y \notin ToSet(local) /\ (x \in ToSet(local) \/ Prec(cur, x, y))

\* What an episode of the site followed there is one of the work's, or Nobody.
LEMMA FollowedOne ==
  ASSUME NEW cur \in Lists, NEW local \in Seq(Episodes), NEW x \in ToSet(cur)
  PROVE  LET a == Followed(cur, local, x) IN
         /\ a = Nobody \/ a \in ToSet(cur) \cap ToSet(local)
         /\ Anchors(cur, ToSet(local), x, a)
  <1> DEFINE a == Followed(cur, local, x)
  <1>1. Anchors(cur, ToSet(local), x, a)  BY FollowedIs
  <1>2. cur \in Seq(Episodes)  BY DEF Lists
  <1> HIDE DEF a
  <1>3. Prec(cur, a, x) => a \in ToSet(cur)  BY <1>2, ListIs DEF Prec
  <1>4. a = Nobody \/ a \in ToSet(cur) \cap ToSet(local)  BY <1>1, <1>3 DEF Anchors
  <1> QED  BY <1>1, <1>4 DEF a

\* An episode's block is that of the one it stays behind.
LEMMA BlockIs ==
  ASSUME NEW cur \in Lists, NEW local \in Lists, NEW x \in ToSet(cur) \cup ToSet(local)
  PROVE  LET b == Block(cur, local, x) IN
         /\ b \in 0..Len(local)
         /\ b = 0 <=> x \notin ToSet(local) /\ Followed(cur, local, x) = Nobody
         /\ \A k \in 1..Len(local) :
               b = k <=> x = local[k] \/ (x \notin ToSet(local) /\ Followed(cur, local, x) = local[k])
  <1> DEFINE a == IF x \in ToSet(local) THEN x ELSE Followed(cur, local, x)
             b == Block(cur, local, x)
  <1>1. local \in Seq(Episodes) /\ cur \in Seq(Episodes)  BY DEF Lists
  <1>2. a = Nobody \/ a \in ToSet(local)  BY <1>1, FollowedOne
  <1>3. ToSet(local) \subseteq Episodes /\ Nobody \notin ToSet(local)
    BY <1>1, ListIs, NobodyIsNoOne
  <1>4. b = IF a = Nobody THEN 0 ELSE Index(local, a)  BY DEF Block
  <1>5. /\ x \in ToSet(local) => a = x
        /\ x \notin ToSet(local) => a = Followed(cur, local, x)
    OBVIOUS
  <1>6. \A k \in 1..Len(local) : local[k] \in ToSet(local) /\ Index(local, local[k]) = k
    BY <1>1, ListIs, PlaceIs
  <1>7. \A y \in ToSet(local) : Index(local, y) \in 1..Len(local) /\ local[Index(local, y)] = y
    BY PlaceIs
  <1>8. Len(local) \in Nat  BY <1>1
  <1> HIDE DEF a, b
  <1>9. b = 0 <=> a = Nobody  BY <1>2, <1>3, <1>4, <1>7, <1>8
  <1>10. \A k \in 1..Len(local) : b = k <=> a = local[k]  BY <1>2, <1>3, <1>4, <1>6, <1>7, <1>8
  <1>11. b \in 0..Len(local)  BY <1>2, <1>4, <1>7, <1>8
  <1>12. b = 0 <=> x \notin ToSet(local) /\ Followed(cur, local, x) = Nobody  BY <1>3, <1>5, <1>9
  <1>13. \A k \in 1..Len(local) :
            b = k <=> x = local[k] \/ (x \notin ToSet(local) /\ Followed(cur, local, x) = local[k])
    BY <1>5, <1>6, <1>10
  <1> QED  BY <1>11, <1>12, <1>13 DEF b

\* Nothing stands both in front of another and behind it.
LEMMA PrecOnce ==
  ASSUME NEW s \in Lists
  PROVE  \A x, y : Prec(s, x, y) => ~Prec(s, y, x) /\ x # y /\ x \in ToSet(s) /\ y \in ToSet(s)
  <1>1. s \in Seq(Episodes) /\ IsInjective(s)  BY DEF Lists
  <1>2. \A i, j \in 1..Len(s) : s[i] = s[j] => i = j  BY <1>1 DEF IsInjective
  <1> SUFFICES ASSUME NEW x, NEW y, Prec(s, x, y)
               PROVE  ~Prec(s, y, x) /\ x # y /\ x \in ToSet(s) /\ y \in ToSet(s)
    OBVIOUS
  <1>3. PICK i, j \in 1..Len(s) : i < j /\ s[i] = x /\ s[j] = y  BY DEF Prec
  <1>4. x # y /\ x \in ToSet(s) /\ y \in ToSet(s)  BY <1>1, <1>2, <1>3, ListIs
  <1>5. ASSUME Prec(s, y, x) PROVE FALSE
    <2>1. PICK k, l \in 1..Len(s) : k < l /\ s[k] = y /\ s[l] = x  BY <1>5 DEF Prec
    <2>2. k = j /\ l = i  BY <1>2, <1>3, <2>1
    <2> QED  BY <1>3, <2>1, <2>2
  <1> QED  BY <1>4, <1>5

\* Nothing belongs both in front of another and behind it.
LEMMA AheadIs ==
  ASSUME NEW cur \in Lists, NEW local \in Lists,
         NEW x \in ToSet(cur) \cup ToSet(local), NEW y \in ToSet(cur) \cup ToSet(local)
  PROVE  Ahead(cur, local, x, y) => ~Ahead(cur, local, y, x) /\ x # y
  <1> DEFINE bx == Block(cur, local, x)
             by == Block(cur, local, y)
  <1>1. bx \in 0..Len(local) /\ by \in 0..Len(local)  BY BlockIs
  <1>2. Len(local) \in Nat  BY DEF Lists
  <1>3. Prec(cur, x, y) => ~Prec(cur, y, x) /\ x # y  BY PrecOnce
  <1>4. bx \in Int /\ by \in Int  BY <1>1, <1>2
  <1>5. x = y => bx = by  OBVIOUS
  <1>6. /\ Ahead(cur, local, x, y) <=> bx < by \/ (bx = by /\ y \notin ToSet(local)
                                          /\ (x \in ToSet(local) \/ Prec(cur, x, y)))
        /\ Ahead(cur, local, y, x) <=> by < bx \/ (by = bx /\ x \notin ToSet(local)
                                          /\ (y \in ToSet(local) \/ Prec(cur, y, x)))
    BY DEF Ahead
  <1> HIDE DEF bx, by
  <1> QED  BY <1>3, <1>4, <1>5, <1>6

\* What is put behind w is what followed w on the site, in its order.
LEMMA TrailingIs ==
  ASSUME NEW cur \in Lists, NEW local, NEW w
  PROVE  LET u == Trailing(cur, local, w) IN
         /\ u \in Seq(Episodes)
         /\ ToSet(u) = {y \in ToSet(cur) \ ToSet(local) : Followed(cur, local, y) = w}
         /\ \A x, y : Prec(u, x, y) => Prec(cur, x, y)
  <1> DEFINE S == {y \in ToSet(cur) \ ToSet(local) : Followed(cur, local, y) = w}
  <1>1. cur \in Seq(Episodes)  BY DEF Lists
  <1>2. Trailing(cur, local, w) = Those(cur, S)  BY DEF Trailing
  <1>3. S \subseteq ToSet(cur)  OBVIOUS
  <1> HIDE DEF S
  <1> QED  BY <1>1, <1>2, <1>3, ThoseIs DEF S

\* The order is made right: everything is in it, and what stands in front belongs there.
LEMMA DesiredIs ==
  ASSUME NEW cur \in Lists, NEW local \in Lists, NEW e \in ToSet(local)
  PROVE  LET u == DesiredOrder(cur, local, e) IN
         /\ u \in Seq(Episodes) /\ ToSet(u) = ToSet(cur) \cup {e}
         /\ \A x, y : Prec(u, x, y) => Ahead(cur, local, x, y)
  <1> DEFINE n == Len(local)
             L == ToSet(local)
             C == ToSet(cur)
             All == C \cup {e}
             first == Trailing(cur, local, Nobody)
             Next_(w, i) == IF local[i] \in All
                            THEN Append(w, local[i]) \o Trailing(cur, local, local[i]) ELSE w
             X == Seq(Episodes)
             Rec(f) == f = [i \in 0..n |-> IF i = 0 THEN first ELSE Next_(f[i - 1], i)]
             out == CHOOSE f : Rec(f)
             step == {a \in (1..n) \X X \X X : a[3] = Next_(a[2], a[1])}
  <1>1. n \in Nat /\ (\A i \in 1..n : local[i] \in Episodes) /\ L \subseteq Episodes
    BY ListIs DEF Lists
  <1>2. DesiredOrder(cur, local, e) = out[n]  BY DEF DesiredOrder
  <1>3. \A w \in X, i \in 1..n : Next_(w, i) \in X
    <2> SUFFICES ASSUME NEW w \in X, NEW i \in 1..n, local[i] \in All
                 PROVE  Append(w, local[i]) \o Trailing(cur, local, local[i]) \in X
      OBVIOUS
    <2>1. Trailing(cur, local, local[i]) \in Seq(Episodes)  BY TrailingIs
    <2>2. Append(w, local[i]) \in Seq(Episodes)  BY <1>1, AppendIs
    <2> QED  BY <2>1, <2>2, JoinIs
  <1>4. first \in Seq(Episodes)  BY TrailingIs
  <1> HIDE DEF n, first, Next_
  <1>5. PICK g : Goes(g, n, X, first, step)
    <2>1. GoesOn(n, X, step)  BY <1>3 DEF GoesOn
    <2>2. first \in X  BY <1>4
    <2> HIDE DEF X, step
    <2> QED  BY <1>1, <2>1, <2>2, Recursion
  <1>6. g \in [0..n -> X] /\ g[0] = first /\ \A i \in 1..n : g[i] = Next_(g[i - 1], i)
    BY <1>5 DEF Goes
  <1>7. Rec(g)
    <2>1. \A i \in 0..n : g[i] = IF i = 0 THEN first ELSE Next_(g[i - 1], i)  BY <1>1, <1>6
    <2> QED  BY <1>6, <2>1
  <1>8. Rec(out)  BY <1>7
  <1> HIDE DEF out
  <1>9. out[0] = first /\ \A i \in 1..n : out[i] = Next_(out[i - 1], i)
    BY <1>1, <1>8
  <1> HIDE DEF Rec, X, step
  <1> DEFINE B(x) == Block(cur, local, x)
             Less(x, y) == Ahead(cur, local, x, y)
             T == {k \in 0..n : /\ out[k] \in Seq(Episodes)
                                /\ ToSet(out[k]) = {x \in All : B(x) <= k}
                                /\ \A x, y : Prec(out[k], x, y) => Less(x, y)}
  <1>10. \A x \in All : /\ B(x) \in 0..n
                        /\ B(x) = 0 <=> x \in C \ L /\ Followed(cur, local, x) = Nobody
                        /\ \A k \in 1..n : B(x) = k <=>
                              x = local[k] \/ (x \in C \ L /\ Followed(cur, local, x) = local[k])
    <2> SUFFICES ASSUME NEW x \in All
                 PROVE  /\ B(x) \in 0..n
                        /\ B(x) = 0 <=> x \in C \ L /\ Followed(cur, local, x) = Nobody
                        /\ \A k \in 1..n : B(x) = k <=>
                              x = local[k] \/ (x \in C \ L /\ Followed(cur, local, x) = local[k])
      OBVIOUS
    <2>1. x \in ToSet(cur) \cup ToSet(local)  OBVIOUS
    <2>2. x \notin L <=> x \in C \ L  OBVIOUS
    <2> QED  BY <2>1, <2>2, BlockIs DEF n
  <1>11. \A x \in C : Followed(cur, local, x) \in C \cup {Nobody}
    BY FollowedOne DEF Lists
  <1>12. \A x, y : Less(x, y) <=> B(x) < B(y) \/ (B(x) = B(y) /\ y \notin L /\ (x \in L \/ Prec(cur, x, y)))
    BY DEF Ahead
  <1>13. \A w : /\ ToSet(Trailing(cur, local, w)) = {y \in C \ L : Followed(cur, local, y) = w}
                /\ Trailing(cur, local, w) \in Seq(Episodes)
                /\ \A x, y : Prec(Trailing(cur, local, w), x, y) =>
                      Prec(cur, x, y) /\ x \in ToSet(Trailing(cur, local, w))
                                      /\ y \in ToSet(Trailing(cur, local, w))
    <2> TAKE w
    <2>1. Trailing(cur, local, w) \in Seq(Episodes)  BY TrailingIs
    <2>2. \A x, y : Prec(Trailing(cur, local, w), x, y) =>
             x \in ToSet(Trailing(cur, local, w)) /\ y \in ToSet(Trailing(cur, local, w))
      BY <2>1, ListIs DEF Prec
    <2> QED  BY <2>1, <2>2, TrailingIs
  <1>14. \A k \in 1..n : local[k] \in L  BY ListIs DEF Lists, n
  <1> HIDE DEF L, C, B, Less
  <1>15. 0 \in T
    <2>1. ToSet(first) = {x \in C \ L : Followed(cur, local, x) = Nobody}  BY <1>13 DEF first
    <2>2. \A x \in All : B(x) <= 0 <=> B(x) = 0  BY <1>1, <1>10
    <2>3. ToSet(first) = {x \in All : B(x) <= 0}  BY <1>10, <2>1, <2>2
    <2>4. ASSUME NEW x, NEW y, Prec(first, x, y) PROVE Less(x, y)
      <3>1. Prec(cur, x, y) /\ x \in ToSet(first) /\ y \in ToSet(first)
        BY <1>13, <2>4 DEF first
      <3>2. B(x) = 0 /\ B(y) = 0 /\ y \notin L  BY <1>10, <2>1, <3>1
      <3> QED  BY <1>12, <3>1, <3>2
    <2> QED  BY <1>1, <1>4, <1>9, <2>3, <2>4
  <1>16. ASSUME NEW k \in 1..n, k - 1 \in T PROVE k \in T
    <2> DEFINE was == out[k - 1]
               v == local[k]
               tr == Trailing(cur, local, v)
    <2>1. /\ was \in Seq(Episodes) /\ ToSet(was) = {x \in All : B(x) <= k - 1}
          /\ \A x, y : Prec(was, x, y) => Less(x, y)
      BY <1>16
    <2>2. out[k] = IF v \in All THEN Append(was, v) \o tr ELSE was  BY <1>9 DEF Next_
    <2>3. /\ tr \in Seq(Episodes) /\ ToSet(tr) = {y \in C \ L : Followed(cur, local, y) = v}
          /\ \A x, y : Prec(tr, x, y) => Prec(cur, x, y) /\ x \in ToSet(tr) /\ y \in ToSet(tr)
      BY <1>13
    <2>4. \A x \in All : B(x) = k <=> x = v \/ x \in ToSet(tr)  BY <1>10, <2>3
    <2>5. v \in Episodes /\ v \in L /\ v # Nobody  BY <1>1, <1>14, NobodyIsNoOne
    <2>6. \A x \in All : B(x) <= k <=> B(x) <= k - 1 \/ B(x) = k
      <3>1. \A x \in All : B(x) \in Nat  BY <1>1, <1>10
      <3>2. k \in Nat  BY <1>1
      <3> QED  BY <3>1, <3>2
    <2>7. \A x \in ToSet(was) : B(x) < k
      <3>1. \A x \in All : B(x) \in Nat  BY <1>1, <1>10
      <3>2. k \in Nat  BY <1>1
      <3> QED  BY <2>1, <3>1, <3>2
    <2>8. k \in 0..n  BY <1>1
    <2> HIDE DEF was, v, tr, T
    <2>9. CASE v \in All
      <3> DEFINE one == Append(was, v)
      <3>1. /\ one \in Seq(Episodes) /\ ToSet(one) = ToSet(was) \cup {v}
            /\ \A x, y : Prec(one, x, y) => Prec(was, x, y) \/ (x \in ToSet(was) /\ y = v)
        BY <2>1, <2>5, AppendIs
      <3> HIDE DEF one
      <3>2. /\ one \o tr \in Seq(Episodes) /\ ToSet(one \o tr) = ToSet(one) \cup ToSet(tr)
            /\ \A x, y : Prec(one \o tr, x, y) =>
                  Prec(one, x, y) \/ Prec(tr, x, y) \/ (x \in ToSet(one) /\ y \in ToSet(tr))
        BY <2>3, <3>1, JoinIs
      <3>3. out[k] = one \o tr  BY <2>2, <2>9 DEF one
      <3>4. ToSet(tr) \subseteq All  BY <2>3
      <3>5. ToSet(out[k]) = {x \in All : B(x) <= k}
        BY <2>1, <2>4, <2>6, <2>9, <3>1, <3>2, <3>3, <3>4
      <3>6. B(v) = k /\ \A x \in ToSet(tr) : B(x) = k /\ x \notin L  BY <2>3, <2>4, <2>9, <3>4
      <3>7. ASSUME NEW x, NEW y, Prec(out[k], x, y) PROVE Less(x, y)
        <4>1. \/ Prec(was, x, y) \/ (x \in ToSet(was) /\ y = v)
              \/ Prec(tr, x, y) \/ (x \in ToSet(one) /\ y \in ToSet(tr))
          BY <3>1, <3>2, <3>3, <3>7
        <4>2. CASE Prec(was, x, y)  BY <2>1, <4>2
        <4>3. CASE x \in ToSet(was) /\ y = v  BY <1>12, <2>7, <3>6, <4>3
        <4>4. CASE Prec(tr, x, y)  BY <1>12, <2>3, <3>6, <4>4
        <4>5. CASE x \in ToSet(was) /\ y \in ToSet(tr)  BY <1>12, <2>7, <3>6, <4>5
        <4>6. CASE x = v /\ y \in ToSet(tr)  BY <1>12, <2>5, <3>6, <4>6
        <4> QED  BY <3>1, <4>1, <4>2, <4>3, <4>4, <4>5, <4>6
      <3> QED  BY <2>8, <3>2, <3>3, <3>5, <3>7 DEF T
    <2>10. CASE v \notin All
      <3>1. ToSet(tr) = {}  BY <1>11, <2>3, <2>5, <2>10
      <3>2. \A x \in All : B(x) # k  BY <2>4, <2>10, <3>1
      <3>3. ToSet(was) = {x \in All : B(x) <= k}  BY <2>1, <2>6, <3>2
      <3> QED  BY <2>1, <2>2, <2>8, <2>10, <3>3 DEF T
    <2> QED  BY <2>9, <2>10
  <1>17. n \in 0..n /\ \A x \in All : B(x) <= n  BY <1>1, <1>10
  <1>18. n \in T
    <2> HIDE DEF T
    <2> QED  BY <1>1, <1>15, <1>16, <1>17, Climbs
  <1> QED  BY <1>2, <1>17, <1>18 DEF Less, C

\* desiredOrder names the site's episodes and the published one, once each, the work's in
\* outline order and every other after the one it followed.
LEMMA DesiredPlaced ==
  ASSUME NEW cur \in Lists, NEW local \in Lists, NEW e \in ToSet(local)
  PROVE  LET u == DesiredOrder(cur, local, e) IN
         u \in Lists /\ ToSet(u) = ToSet(cur) \cup {e} /\ Placed(cur, u, local, e)
  <1> DEFINE u == DesiredOrder(cur, local, e)
             D == ToSet(u)
             L == ToSet(local)
             C == ToSet(cur)
             B(x) == Block(cur, local, x)
             Less(x, y) == Ahead(cur, local, x, y)
  <1>1. u \in Seq(Episodes) /\ D = C \cup {e} /\ \A x, y : Prec(u, x, y) => Less(x, y)
    BY DesiredIs
  <1> HIDE DEF u
  <1>2. \A x, y : Prec(u, x, y) => x \in D /\ y \in D  BY <1>1, ListIs DEF Prec
  <1>3. \A x, y \in D : Less(x, y) => ~Less(y, x) /\ x # y
    <2>1. D \subseteq ToSet(cur) \cup ToSet(local)  BY <1>1
    <2> QED  BY <2>1, AheadIs
  <1>4. u \in Lists
    <2>1. \A x : ~Prec(u, x, x)  BY <1>1, <1>2, <1>3
    <2> QED  BY <1>1, <2>1, OnceIs DEF Lists
  <1>5. \A x, y \in D : Prec(u, x, y) <=> Less(x, y)
    <2> SUFFICES ASSUME NEW x \in D, NEW y \in D, Less(x, y) PROVE Prec(u, x, y)  BY <1>1
    <2>1. x # y /\ ~Less(y, x)  BY <1>3
    <2>2. PICK i \in 1..Len(u), j \in 1..Len(u) : u[i] = x /\ u[j] = y  BY <1>1, ListIs
    <2>3. i < j \/ j < i  BY <2>1, <2>2
    <2>4. ~Prec(u, y, x)  BY <1>1, <2>1
    <2> QED  BY <2>2, <2>3, <2>4 DEF Prec
  <1>6. \A x, y \in D : Before(u, x, y) <=> Less(x, y)  BY <1>4, <1>5, PlaceIs
  <1>7. \A x, y : Less(x, y) <=> B(x) < B(y) \/ (B(x) = B(y) /\ y \notin L /\ (x \in L \/ Prec(cur, x, y)))
    BY DEF Ahead
  <1>8. L \subseteq Episodes /\ Nobody \notin L  BY ListIs, NobodyIsNoOne DEF Lists
  <1>9. \A x \in L : B(x) = Index(local, x) /\ B(x) \in 1..Len(local) /\ local[B(x)] = x
    BY <1>8, PlaceIs DEF Block
  <1>10. \A x : x \notin L => B(x) = IF Followed(cur, local, x) = Nobody THEN 0
                                     ELSE Index(local, Followed(cur, local, x))
    BY DEF Block
  <1>11. Len(local) \in Nat  BY DEF Lists
  <1> HIDE DEF Less, B
  <1>12. ASSUME NEW x \in D, NEW y \in D, x \in L, y \in L
         PROVE  Before(u, x, y) <=> Before(local, x, y)
    BY <1>6, <1>7, <1>9, <1>12 DEF Before
  <1>13. ASSUME NEW x \in D, NEW y \in D, x \notin L, y \notin L,
                Followed(cur, local, x) = Followed(cur, local, y)
         PROVE  Before(u, x, y) <=> Before(cur, x, y)
    <2>1. x \in C /\ y \in C  BY <1>1, <1>13
    <2>2. B(x) = B(y)  BY <1>10, <1>13
    <2>3. ~(B(x) < B(y))
      <3>1. x \in ToSet(cur) \cup ToSet(local)  BY <2>1
      <3>2. B(x) \in 0..Len(local)  BY <3>1, BlockIs DEF B
      <3> QED  BY <1>11, <2>2, <3>2
    <2>4. Prec(cur, x, y) <=> Before(cur, x, y)  BY <2>1, PlaceIs
    <2> QED  BY <1>6, <1>7, <1>13, <2>2, <2>3, <2>4
  <1>14. ASSUME NEW x \in C \ L PROVE Followed(u, local, x) = Followed(cur, local, x)
    <2> DEFINE a == Followed(cur, local, x)
    <2>1. a = Nobody \/ a \in C \cap L  BY FollowedOne DEF Lists
    <2>2. B(x) = IF a = Nobody THEN 0 ELSE Index(local, a)  BY <1>10
    <2>3. x \in D /\ x \notin L  BY <1>1
    <2> HIDE DEF a
    <2>4. Anchors(u, L, x, a)
      <3>1. CASE a = Nobody
        <4>1. ASSUME NEW z \in L, Prec(u, z, x) PROVE FALSE
          <5>1. Less(z, x)  BY <1>1, <4>1
          <5>2. B(z) \in 1..Len(local) /\ B(x) = 0  BY <1>9, <2>2, <3>1
          <5> QED  BY <1>7, <1>11, <5>1, <5>2
        <4> QED  BY <3>1, <4>1 DEF Anchors
      <3>2. CASE a \in C \cap L
        <4>1. a # Nobody /\ a \in D /\ a \in L  BY <1>1, <1>8, <3>2
        <4>2. B(x) = B(a) /\ B(a) \in 1..Len(local)  BY <1>9, <2>2, <4>1
        <4>3. Less(a, x)  BY <1>7, <2>3, <4>1, <4>2
        <4>4. Prec(u, a, x)  BY <1>5, <2>3, <4>1, <4>3
        <4>5. ASSUME NEW z \in L, Prec(u, z, x) PROVE z = a \/ Prec(u, z, a)
          <5>1. z \in D /\ Less(z, x)  BY <1>1, <1>2, <4>5
          <5>2. B(z) \in 1..Len(local) /\ local[B(z)] = z /\ local[B(a)] = a  BY <1>9, <4>1
          <5>3. B(z) < B(a) \/ B(z) = B(a)  BY <1>7, <4>2, <5>1
          <5>4. CASE B(z) = B(a)  BY <5>2, <5>4
          <5>5. CASE B(z) < B(a)
            <6>1. Less(z, a)  BY <1>7, <5>5
            <6> QED  BY <1>5, <4>1, <5>1, <6>1
          <5> QED  BY <5>3, <5>4, <5>5
        <4> QED  BY <4>1, <4>4, <4>5 DEF Anchors
      <3> QED  BY <2>1, <3>1, <3>2
    <2>5. local \in Seq(Episodes)  BY DEF Lists
    <2> QED  BY <1>4, <2>3, <2>4, <2>5, FollowedIs DEF a
  <1>15. Placed(cur, u, local, e)  BY <1>1, <1>12, <1>13, <1>14 DEF Placed
  <1> QED  BY <1>1, <1>4, <1>15 DEF u

-----------------------------------------------------------------------------
(* Lists and rows as they change.                                           *)

\* An episode that is new to a list is added.
LEMMA AppendsOnce ==
  ASSUME NEW s \in Lists, NEW e \in Episodes \ ToSet(s)
  PROVE  Append(s, e) \in Lists /\ ToSet(Append(s, e)) = ToSet(s) \cup {e}
  <1>1. s \in Seq(Episodes)  BY DEF Lists
  <1>2. /\ Append(s, e) \in Seq(Episodes) /\ ToSet(Append(s, e)) = ToSet(s) \cup {e}
        /\ \A x, y : Prec(Append(s, e), x, y) => Prec(s, x, y) \/ (x \in ToSet(s) /\ y = e)
    BY <1>1, AppendIs
  <1>3. \A x : ~Prec(Append(s, e), x, x)  BY <1>2, PrecOnce
  <1> QED  BY <1>2, <1>3, OnceIs DEF Lists

\* Two neighbours that change places.
Swapped(s, i) == [s EXCEPT ![i] = s[i + 1], ![i + 1] = s[i]]

\* It still names nothing twice.
LEMMA SwapsOnce ==
  ASSUME NEW s \in Lists, NEW i \in 1..Len(s) - 1
  PROVE  Swapped(s, i) \in Lists
  <1> DEFINE n == Len(s)
             u == Swapped(s, i)
  <1>1. s \in Seq(Episodes) /\ n \in Nat /\ DOMAIN s = 1..n  BY DEF Lists
  <1>2. i \in 1..n /\ i + 1 \in 1..n /\ i # i + 1  BY <1>1
  <1>3. \A j \in 1..n : s[j] \in Episodes  BY <1>1
  <1>4. \A j, k \in 1..n : s[j] = s[k] => j = k  BY <1>1 DEF Lists, IsInjective
  <1>5. u \in [1..n -> Episodes]  BY <1>1, <1>2, <1>3 DEF Swapped
  <1>6. u \in Seq(Episodes) /\ DOMAIN u = 1..n  BY <1>1, <1>5
  <1>7. \A j \in 1..n : u[j] = IF j = i THEN s[i + 1] ELSE IF j = i + 1 THEN s[i] ELSE s[j]
    BY <1>1, <1>2 DEF Swapped
  <1> HIDE DEF u, n
  <1>8. \A j, k \in 1..n : u[j] = u[k] => j = k  BY <1>2, <1>4, <1>7
  <1> QED  BY <1>6, <1>8 DEF Lists, IsInjective, u

\* A list that names nothing twice still does when one is taken out.
LEMMA RemovesOnce ==
  ASSUME NEW s \in Lists, NEW i \in DOMAIN s
  PROVE  RemoveAt(s, i) \in Lists
  <1> DEFINE n == Len(s)
             u == RemoveAt(s, i)
  <1>1. s \in Seq(Episodes) /\ n \in Nat /\ DOMAIN s = 1..n /\ i \in 1..n  BY DEF Lists
  <1>2. \A j, k \in 1..n : s[j] = s[k] => j = k  BY <1>1 DEF Lists, IsInjective
  <1> DEFINE front == SubSeq(s, 1, i - 1)
             back == SubSeq(s, i + 1, n)
  <1>a. u = front \o back  BY DEF RemoveAt
  <1>b. front \in Seq(Episodes) /\ Len(front) = i - 1 /\ \A j \in 1..(i - 1) : front[j] = s[j]
    BY <1>1
  <1>c. back \in Seq(Episodes) /\ Len(back) = n - i /\ \A j \in 1..(n - i) : back[j] = s[i + j]
    BY <1>1
  <1> HIDE DEF u, front, back
  <1>d. front \in Seq(Episodes) /\ back \in Seq(Episodes)  BY <1>b, <1>c
  <1>e. /\ front \o back \in Seq(Episodes) /\ Len(front \o back) = Len(front) + Len(back)
        /\ \A j \in 1..(Len(front) + Len(back)) :
              (front \o back)[j] = IF j <= Len(front) THEN front[j] ELSE back[j - Len(front)]
    BY <1>d
  <1>3. u \in Seq(Episodes) /\ Len(u) = n - 1
    <2>1. u \in Seq(Episodes) /\ Len(u) = Len(front) + Len(back)  BY <1>a, <1>e
    <2>2. Len(front) = i - 1 /\ Len(back) = n - i  BY <1>b, <1>c
    <2>3. (i - 1) + (n - i) = n - 1  BY <1>1
    <2> QED  BY <2>1, <2>2, <2>3
  <1>4. \A j \in 1..(n - 1) : u[j] = IF j < i THEN s[j] ELSE s[j + 1]
    <2> SUFFICES ASSUME NEW j \in 1..(n - 1) PROVE u[j] = IF j < i THEN s[j] ELSE s[j + 1]
      OBVIOUS
    <2>1. j \in 1..(Len(front) + Len(back))  BY <1>1, <1>b, <1>c
    <2>2. u[j] = IF j <= Len(front) THEN front[j] ELSE back[j - Len(front)]
      BY <1>a, <1>e, <2>1
    <2>3. CASE j < i  BY <1>1, <1>b, <2>2, <2>3
    <2>4. CASE ~(j < i)
      <3>1. j - (i - 1) \in 1..(n - i) /\ i + (j - (i - 1)) = j + 1  BY <1>1, <2>4
      <3>2. u[j] = back[j - (i - 1)]  BY <1>1, <1>b, <2>2, <2>4
      <3> QED  BY <1>c, <2>4, <3>1, <3>2
    <2> QED  BY <2>3, <2>4
  <1>5. \A j \in 1..(n - 1) : j \in 1..n /\ j + 1 \in 1..n  BY <1>1
  <1> HIDE DEF u, n
  <1>6. \A j, k \in 1..(n - 1) : u[j] = u[k] => j = k
    <2> SUFFICES ASSUME NEW j \in 1..(n - 1), NEW k \in 1..(n - 1), u[j] = u[k] PROVE j = k
      OBVIOUS
    <2>1. CASE j < i /\ k < i  BY <1>2, <1>4, <1>5, <2>1
    <2>2. CASE j < i /\ ~(k < i)
      <3>1. j = k + 1  BY <1>2, <1>4, <1>5, <2>2
      <3> QED  BY <1>1, <2>2, <3>1
    <2>3. CASE ~(j < i) /\ k < i
      <3>1. k = j + 1  BY <1>2, <1>4, <1>5, <2>3
      <3> QED  BY <1>1, <2>3, <3>1
    <2>4. CASE ~(j < i) /\ ~(k < i)
      <3>1. j + 1 = k + 1  BY <1>2, <1>4, <1>5, <2>4
      <3> QED  BY <1>1, <3>1
    <2> QED  BY <2>1, <2>2, <2>3, <2>4
  <1>7. DOMAIN u = 1..(n - 1)  BY <1>3
  <1> QED  BY <1>3, <1>6, <1>7 DEF Lists, IsInjective, u

\* The empty list.
LEMMA EmptyIs == <<>> \in Lists /\ ToSet(<<>>) = {}
  <1> DEFINE s == <<>>
  <1>1. s \in Seq(Episodes) /\ 1..Len(s) = {}  OBVIOUS
  <1> HIDE DEF s
  <1>2. \A x : ~Prec(s, x, x)  BY <1>1 DEF Prec
  <1>3. \A x : x \notin ToSet(s)  BY <1>1, ListIs
  <1>4. s \in Lists /\ ToSet(s) = {}  BY <1>1, <1>2, <1>3, OnceIs DEF Lists
  <1> QED  BY <1>4 DEF s

\* A list that names nothing twice has no more places than there are episodes.
LEMMA NumbersBound ==
  ASSUME NEW s \in Lists
  PROVE  Len(s) <= Cardinality(Episodes) /\ Cardinality(Episodes) \in Nat
  <1>1. s \in Seq(Episodes) /\ Len(s) \in Nat /\ IsFiniteSet(Episodes)  BY EpisodesOnce DEF Lists
  <1>2. s \in [1..Len(s) -> Episodes] /\ IsInjective(s)  BY <1>1 DEF Lists
  <1>3. s \in Injection(1..Len(s), Episodes)  BY <1>2 DEF Injection, IsInjective
  <1>4. Cardinality(1..Len(s)) <= Cardinality(Episodes)  BY <1>1, <1>3, FS_Injection
  <1>5. Cardinality(1..Len(s)) = Len(s)
    <2>1. 1 \in Int /\ Len(s) \in Int  BY <1>1
    <2>2. Cardinality(1..Len(s)) = IF 1 > Len(s) THEN 0 ELSE Len(s) - 1 + 1  BY <2>1, FS_Interval
    <2> QED  BY <1>1, <2>2
  <1>6. Cardinality(Episodes) \in Nat  BY <1>1, FS_CardinalityType
  <1> QED  BY <1>4, <1>5, <1>6

\* A row for a node at most once; and what an account has of the work.
OneEach(rows) == \A r, q \in rows : r.node = q.node => r = q
Work == [on : BOOLEAN, order : Lists, text : [Episodes -> 0..2]]

\* The site's answer to a listing has one row for each episode.
LEMMA RowsAre ==
  ASSUME NEW w \in Work, NEW a \in Accounts
  PROVE  RowsOf(w, a) \subseteq Row /\ OneEach(RowsOf(w, a))
  <1> DEFINE s == w.order
             row(i) == [node |-> s[i], number |-> i, text |-> w.text[s[i]], of |-> a]
  <1>1. s \in Lists /\ w.text \in [Episodes -> 0..2]  BY DEF Work
  <1>2. RowsOf(w, a) = {row(i) : i \in DOMAIN s}  BY DEF RowsOf
  <1>3. s \in Seq(Episodes) /\ Len(s) \in Nat /\ DOMAIN s = 1..Len(s) /\ IsInjective(s)  BY <1>1 DEF Lists
  <1>4. \A i \in DOMAIN s : s[i] \in Episodes /\ i \in 1..Cardinality(Episodes)
    BY <1>1, <1>3, NumbersBound
  <1>5. \A i \in DOMAIN s : row(i) \in Row  BY <1>1, <1>4 DEF Row
  <1>6. \A i, j \in DOMAIN s : row(i).node = row(j).node => i = j  BY <1>3 DEF IsInjective
  <1> QED  BY <1>2, <1>5, <1>6 DEF OneEach

-----------------------------------------------------------------------------
(* What is true of every state: values, tokens, and what a publish knows.   *)

\* The values.
Pairing == [pc : {"none", "starting", "waiting", "polled", "done"},
            answer : Accounts \cup {Nobody, "denied"}, claimed : BOOLEAN]
CallT == [pc : {"idle", "register", "read", "put", "reorder", "refresh", "keep", "keepRow", "forget"},
          what : {"none", "publish", "upsert", "status", "visibility"}, node : Episodes \cup {Nobody}, token : Pairings \cup {0},
          tries : Nat, order : Lists, text : 0..2, seen : Lists, got : SUBSET Row,
          others : Nat,
          ended : {"none", "lost", "refused", "unregistered", "missing", "taken", "rejected", "done"}]
Spent == [starts : Nat, calls : Nat, turns : Nat, others : Nat]

Types ==
    /\ outline \in Lists /\ text \in [Episodes -> 1..2] /\ marked \subseteq Episodes
    /\ creds \in Pairings \cup {0} /\ account \in Accounts \cup {Nobody}
    /\ pairing \in [Pairings -> Pairing]
    /\ current \in Pairings \cup {0} /\ dead \subseteq Pairings
    /\ site \in [Accounts -> Work]
    /\ saved \in [of : Accounts \cup {Nobody}, rows : SUBSET Row] /\ OneEach(saved.rows)
    /\ mu \in Calls \cup {0} /\ op \in [Calls -> CallT] /\ spent \in Spent

\* A token in use is of a pairing that has ended, as an account.
Settled(p) ==
    p \in Pairings /\ pairing[p].pc = "done" /\ pairing[p].answer \in Accounts
Tokens ==
    /\ \A p \in Pairings : pairing[p].pc # "none" => p <= spent.starts
    /\ creds # 0 => Settled(creds)
    /\ \A t \in Calls : op[t].pc # "idle" => Settled(op[t].token)

\* What a publish that nobody else came between knows of the site.
At(t) ==
    /\ op[t].pc = "put" =>
          Here(t).order = IF IsNew(t) THEN op[t].seen ELSE Desired(t)
    /\ op[t].pc = "reorder" =>
          Here(t).order = IF IsNew(t) THEN Append(op[t].seen, op[t].node) ELSE op[t].seen
    /\ op[t].pc = "refresh" => Here(t).order = Desired(t)
Under(t) ==
    /\ op[t].pc # "idle" /\ op[t].what # "status" => mu = t
    /\ op[t].pc # "idle" /\ op[t].what = "publish" => op[t].node \in ToSet(op[t].order)
    /\ op[t].pc = "read" => op[t].what \in {"publish", "visibility", "status"}
    /\ op[t].pc \in {"put", "reorder", "refresh"} => op[t].what = "publish"
    /\ op[t].pc \in {"refresh", "keepRow"} => \A r \in op[t].got : r.node = op[t].node
    /\ OneEach(op[t].got)
    /\ op[t].others <= spent.others
    /\ op[t].others = spent.others => At(t)
    /\ spent.others = 0 => op[t].ended \notin {"taken", "rejected"}

Kept == Types /\ Tokens /\ \A t \in Calls : Under(t)

\* What the check asks follows.
LEMMA KeptIsNumbering == Kept => Numbering
  <1> SUFFICES ASSUME Kept PROVE Numbering  OBVIOUS
  <1>1. TypeOK
    <2>1. IsInjective(outline) /\ ToSet(outline) \subseteq Episodes
      BY ListIs DEF Kept, Types, Lists
    <2>2. \A a \in Accounts : IsInjective(site[a].order) /\ site[a].text \in [Episodes -> 0..2]
      BY DEF Kept, Types, Work, Lists
    <2> QED  BY <2>1, <2>2 DEF Kept, Types, TypeOK, OneEach
  <1>2. NumbersFollow
    <2> SUFFICES ASSUME NEW t \in Calls, op[t].pc = "refresh", op[t].others = spent.others
                 PROVE  Placed(op[t].seen, Here(t).order, op[t].order, op[t].node)
      BY DEF NumbersFollow
    <2>1. Under(t) /\ op[t] \in CallT  BY DEF Kept, Types
    <2>2. Here(t).order = Desired(t) /\ op[t].node \in ToSet(op[t].order)  BY <2>1 DEF Under, At
    <2>3. op[t].seen \in Lists /\ op[t].order \in Lists  BY <2>1 DEF CallT
    <2> QED  BY <2>2, <2>3, DesiredPlaced DEF Desired
  <1>3. OursDoNotRace  BY DEF OursDoNotRace, Kept, Under
  <1> QED  BY <1>1, <1>2, <1>3 DEF Numbering

\* A call that has not begun.
LEMMA IdleIs == Idle \in CallT /\ Idle.pc = "idle" /\ Idle.got = {} /\ Idle.others = 0 /\ Idle.ended = "none"
  <1> DEFINE none == <<>>
  <1>1. none \in Lists  BY EmptyIs
  <1> HIDE DEF none
  <1>2. [pc |-> "idle", what |-> "none", node |-> Nobody, token |-> 0, tries |-> 0,
         order |-> none, text |-> 0, seen |-> none, got |-> {}, others |-> 0, ended |-> "none"] \in CallT
    BY <1>1 DEF CallT
  <1> QED  BY <1>2 DEF Idle, none

\* It holds at first.
LEMMA KeptBegins == Init => Kept
  <1> SUFFICES ASSUME Init PROVE Kept  OBVIOUS
  <1> DEFINE a1 == CHOOSE a \in Accounts : TRUE
  <1>1. a1 \in Accounts  BY SomeAccounts
  <1>2. 1 \in Pairings  BY SomePairings DEF Pairings
  <1> HIDE DEF a1
  <1>3. /\ pairing \in [Pairings -> Pairing] /\ pairing[1].pc = "done" /\ pairing[1].answer = a1
    <2>1. pairing = [p \in Pairings |-> [pc |-> IF p = 1 THEN "done" ELSE "none",
                                         answer |-> IF p = 1 THEN a1 ELSE Nobody,
                                         claimed |-> p = 1]]
      BY DEF Init, a1
    <2>2. [pc |-> "done", answer |-> a1, claimed |-> TRUE] \in Pairing
          /\ [pc |-> "none", answer |-> Nobody, claimed |-> FALSE] \in Pairing
      BY <1>1 DEF Pairing
    <2>3. \A p \in Pairings : pairing[p] \in Pairing
      <3>1. pairing[1] = [pc |-> "done", answer |-> a1, claimed |-> TRUE]  BY <1>2, <2>1
      <3>2. \A p \in Pairings \ {1} : pairing[p] = [pc |-> "none", answer |-> Nobody, claimed |-> FALSE]
        BY <2>1
      <3> QED  BY <2>2, <3>1, <3>2
    <2>4. DOMAIN pairing = Pairings /\ pairing = [p \in DOMAIN pairing |-> pairing[p]]  BY <2>1
    <2> QED  BY <1>2, <2>1, <2>3, <2>4
  <1>4. PICK order \in Orders : 
          site = [a \in Accounts |->
                    IF a = pairing[1].answer
                    THEN [on |-> order # <<>>, order |-> order, text |-> [e \in Episodes |-> 0]]
                    ELSE [on |-> FALSE, order |-> <<>>, text |-> [e \in Episodes |-> 0]]]
    BY DEF Init
  <1>5. site \in [Accounts -> Work]
    <2>1. order \in Lists  BY EpisodesOnce
    <2> QED  BY <1>4, <2>1, EmptyIs DEF Work
  <1>6. outline \in Lists  BY EpisodesOnce DEF Init
  <1>7. op \in [Calls -> CallT] /\ \A t \in Calls : op[t] = Idle  BY IdleIs DEF Init
  <1>8. saved \in [of : Accounts \cup {Nobody}, rows : SUBSET Row] /\ saved.rows = {}  BY DEF Init
  <1>9. spent \in Spent /\ spent.starts = 1 /\ spent.others = 0  BY DEF Init, Spent
  <1>10. Types
    <2>1. text \in [Episodes -> 1..2] /\ marked = {} /\ creds = 1 /\ account = a1 /\ current = 0
          /\ dead = {} /\ mu = 0
      BY <1>3 DEF Init
    <2> QED  BY <1>1, <1>2, <1>3, <1>5, <1>6, <1>7, <1>8, <1>9, <2>1 DEF Types, OneEach
  <1>11. Tokens
    <2>1. creds = 1  BY DEF Init
    <2>2. Settled(1)  BY <1>1, <1>2, <1>3 DEF Settled
    <2>3. \A p \in Pairings : p # 1 => pairing[p].pc = "none"  BY DEF Init
    <2>4. \A p \in Pairings : pairing[p].pc # "none" => p <= spent.starts  BY <1>9, <2>3
    <2> QED  BY <1>7, <2>1, <2>2, <2>4, IdleIs DEF Tokens
  <1>12. ASSUME NEW t \in Calls PROVE Under(t)
    <2>1. op[t] = Idle  BY <1>7
    <2> QED  BY <1>9, <2>1, IdleIs DEF Under, At, OneEach
  <1> QED  BY <1>10, <1>11, <1>12 DEF Kept

-----------------------------------------------------------------------------
\* A step of one call keeps what is known of the others: the site's orders change only
\* under the lock, and who knows something of them has it.
LEMMA CallsApart ==
  ASSUME Kept, NEW t \in Calls, Types', Under(t)',
         \A u \in Calls \ {t} : op'[u] = op[u],
         mu' = mu \/ (mu = t /\ mu' = 0) \/ (mu = 0 /\ mu' = t),
         pairing' = pairing, creds' \in {creds, 0},
         spent'.starts = spent.starts, spent'.others = spent.others,
         (\A a \in Accounts : site'[a].order = site[a].order) \/ mu = t,
         op'[t].pc # "idle" => \/ creds # 0 /\ op'[t].token = creds
                               \/ op[t].pc # "idle" /\ op'[t].token = op[t].token
  PROVE  Kept'
  <1>1. \A p : Settled(p) => Settled(p)'  BY DEF Settled
  <1>2. Tokens'
    <2>1. creds' # 0 => Settled(creds)'  BY <1>1 DEF Kept, Tokens
    <2>2. ASSUME NEW u \in Calls, op'[u].pc # "idle" PROVE Settled(op[u].token)'
      <3>1. CASE u # t
        <4>1. op'[u] = op[u] /\ Settled(op[u].token)  BY <2>2, <3>1 DEF Kept, Tokens
        <4> QED  BY <4>1 DEF Settled
      <3>2. CASE u = t
        <4>1. Settled(op'[t].token)  BY <2>2, <3>2 DEF Kept, Tokens
        <4> QED  BY <3>2, <4>1 DEF Settled
      <3> QED  BY <3>1, <3>2
    <2> QED  BY <2>1, <2>2 DEF Kept, Tokens
  <1>3. ASSUME NEW u \in Calls \ {t} PROVE Under(u)'
    <2>1. op'[u] = op[u] /\ Under(u) /\ u # 0  BY CountedCalls DEF Kept
    <2>2. mu = u => mu' = u  BY <2>1
    <2>3. ASSUME op[u].pc \in {"put", "reorder", "refresh"} PROVE Here(u)'.order = Here(u).order
      <3>1. mu = u  BY <2>1, <2>3 DEF Under
      <3>2. \A a \in Accounts : site'[a].order = site[a].order  BY <3>1
      <3>3. Acct(u) \in Accounts /\ Acct(u)' = Acct(u)
        BY <2>1, <2>3 DEF Kept, Tokens, Settled, Acct, Account
      <3> QED  BY <3>2, <3>3 DEF Here
    <2>4. Desired(u)' = Desired(u) /\ (IsNew(u)' <=> IsNew(u))  BY <2>1 DEF Desired, IsNew
    <2>5. At(u) => At(u)'
      <3>1. (op[u].seen)' = op[u].seen /\ (op[u].node)' = op[u].node /\ (op[u].pc)' = op[u].pc  BY <2>1
      <3> QED  BY <2>3, <2>4, <3>1 DEF At
    <2> QED  BY <2>1, <2>2, <2>5 DEF Under
  <1> QED  BY <1>2, <1>3 DEF Kept

-----------------------------------------------------------------------------
(* The steps of a call. *)

\* How a call may have ended.
Endings == {"none", "lost", "refused", "unregistered", "missing", "taken", "rejected", "done"}

\* A call that ends.
LEMMA EndIs ==
  ASSUME Types, NEW t \in Calls, NEW how \in Endings, End(t, how)
  PROVE  /\ op' \in [Calls -> CallT] /\ \A u \in Calls \ {t} : op'[u] = op[u]
         /\ op'[t].pc = "idle" /\ op'[t].got = {} /\ op'[t].others = 0 /\ op'[t].ended = how
         /\ mu' \in Calls \cup {0} /\ (mu' = mu \/ (mu = t /\ mu' = 0))
  <1> DEFINE row == [Idle EXCEPT !.ended = how]
  <1>1. row \in CallT /\ row.pc = "idle" /\ row.got = {} /\ row.others = 0 /\ row.ended = how
    BY IdleIs DEF CallT, Endings
  <1>2. op' = [op EXCEPT ![t] = row]  BY DEF End
  <1>3. op \in [Calls -> CallT] /\ mu \in Calls \cup {0}  BY DEF Types
  <1>4. mu' \in Calls \cup {0} /\ (mu' = mu \/ (mu = t /\ mu' = 0))  BY <1>3 DEF End, Release
  <1> HIDE DEF row
  <1> QED  BY <1>1, <1>2, <1>3, <1>4

\* A call that ends lets go of the lock, and leaves all others as they are.
LEMMA EndKeeps ==
  ASSUME Kept, NEW t \in Calls, NEW how \in Endings, End(t, how), Types',
         pairing' = pairing, creds' \in {creds, 0},
         spent'.starts = spent.starts, spent'.others = spent.others,
         (\A a \in Accounts : site'[a].order = site[a].order) \/ mu = t,
         how \in {"taken", "rejected"} => spent.others # 0
  PROVE  Kept'
  <1>1. /\ \A u \in Calls \ {t} : op'[u] = op[u]
        /\ op'[t].pc = "idle" /\ op'[t].got = {} /\ op'[t].others = 0 /\ op'[t].ended = how
        /\ mu' = mu \/ (mu = t /\ mu' = 0)
    BY EndIs DEF Kept
  <1>2. spent.others \in Nat  BY DEF Kept, Types, Spent
  <1>3. Under(t)'  BY <1>1, <1>2 DEF Under, At, OneEach
  <1> QED  BY <1>1, <1>3, CallsApart

\* What a call goes by.
LEMMA CallIs ==
  ASSUME Kept, NEW t \in Calls
  PROVE  /\ op[t] \in CallT /\ op \in [Calls -> CallT] /\ spent \in Spent /\ Under(t)
         /\ mu \in Calls \cup {0} /\ op[t].order \in Lists /\ op[t].seen \in Lists
         /\ op[t].node \in Episodes \cup {Nobody}
         /\ site \in [Accounts -> Work] /\ pairing \in [Pairings -> Pairing]
         /\ op[t].pc # "idle" => Acct(t) \in Accounts /\ Here(t) \in Work /\ Here(t).order \in Lists
                                 /\ Rows(Acct(t)) \subseteq Row /\ OneEach(Rows(Acct(t)))
  <1>1. op[t] \in CallT /\ op \in [Calls -> CallT] /\ spent \in Spent /\ Under(t) /\ mu \in Calls \cup {0}
        /\ site \in [Accounts -> Work] /\ pairing \in [Pairings -> Pairing]
    BY DEF Kept, Types
  <1>2. op[t].pc # "idle" => Acct(t) \in Accounts  BY DEF Kept, Tokens, Settled, Acct, Account
  <1>3. Acct(t) \in Accounts => Here(t) \in Work  BY <1>1 DEF Here
  <1>4. Here(t) \in Work => Here(t).order \in Lists  BY DEF Work
  <1>5. Acct(t) \in Accounts => Rows(Acct(t)) \subseteq Row /\ OneEach(Rows(Acct(t)))
    BY <1>1, RowsAre DEF Rows
  <1>6. op[t].order \in Lists /\ op[t].seen \in Lists /\ op[t].node \in Episodes \cup {Nobody}
    BY <1>1 DEF CallT
  <1> QED  BY <1>1, <1>2, <1>3, <1>4, <1>5, <1>6

\* A call that begins reads the outline under the lock, or waits for nothing (status).
LEMMA BeginKeeps ==
  ASSUME Kept, NEW t \in Calls, NEW what \in {"publish", "upsert", "status", "visibility"},
         NEW e \in Episodes \cup {Nobody}, Begin(t, what, e),
         what = "publish" => e \in ToSet(outline)
  PROVE  Kept'
  <1> DEFINE row == [Idle EXCEPT !.pc = IF what = "upsert" THEN "register" ELSE "read",
                                 !.what = what, !.node = e, !.token = creds, !.order = outline,
                                 !.text = IF e = Nobody THEN 0 ELSE text[e]]
  <1>1. /\ outline \in Lists /\ text \in [Episodes -> 1..2] /\ creds \in Pairings \cup {0}
        /\ op \in [Calls -> CallT] /\ spent \in Spent /\ mu \in Calls \cup {0}
    BY DEF Kept, Types
  <1>2. (IF e = Nobody THEN 0 ELSE text[e]) \in 0..2  BY <1>1
  <1>3. /\ row \in CallT /\ row.pc = (IF what = "upsert" THEN "register" ELSE "read") /\ row.what = what
        /\ row.node = e /\ row.token = creds /\ row.order = outline /\ row.got = {} /\ row.others = 0
        /\ row.ended = "none"
    <2> DEFINE pc == IF what = "upsert" THEN "register" ELSE "read"
               v == IF e = Nobody THEN 0 ELSE text[e]
               base == Idle
               one == [base EXCEPT !.pc = pc, !.what = what]
               two == [one EXCEPT !.node = e, !.token = creds]
    <2>1. base \in CallT /\ base.got = {} /\ base.others = 0 /\ base.ended = "none"  BY IdleIs
    <2>2. pc \in {"register", "read"} /\ v \in 0..2  BY <1>2
    <2>3. row = [two EXCEPT !.order = outline, !.text = v]  OBVIOUS
    <2> HIDE DEF pc, v, base, row
    <2>4. one \in CallT /\ one.pc = pc /\ one.what = what /\ one.got = {} /\ one.others = 0 /\ one.ended = "none"
      BY <2>1, <2>2 DEF CallT
    <2> HIDE DEF one
    <2>5. /\ two \in CallT /\ two.pc = pc /\ two.what = what /\ two.got = {} /\ two.others = 0
          /\ two.ended = "none" /\ two.node = e /\ two.token = creds
      BY <1>1, <2>4 DEF CallT
    <2> HIDE DEF two
    <2>6. /\ row \in CallT /\ row.pc = pc /\ row.what = what /\ row.got = {} /\ row.others = 0
          /\ row.ended = "none" /\ row.node = e /\ row.token = creds /\ row.order = outline
      BY <1>1, <2>2, <2>3, <2>5 DEF CallT
    <2> QED  BY <2>6 DEF pc
  <1>4. op' = [op EXCEPT ![t] = row]  BY Zenon DEF Begin
  <1> HIDE DEF row
  <1>5. /\ creds # 0 /\ UNCHANGED <<work, conn, site, saved>> /\ spent' = [spent EXCEPT !.calls = @ + 1]
        /\ IF what = "status" THEN mu' = mu ELSE mu = 0 /\ mu' = t
    BY DEF Begin, Free
  <1>6. op' \in [Calls -> CallT] /\ op'[t] = row /\ \A u \in Calls \ {t} : op'[u] = op[u]  BY <1>1, <1>3, <1>4
  <1>7. spent' \in Spent /\ spent'.starts = spent.starts /\ spent'.others = spent.others /\ spent.others \in Nat
    BY <1>1, <1>5 DEF Spent
  <1>8. Types'  BY <1>1, <1>5, <1>6, <1>7 DEF Kept, Types, work, conn
  <1>9. Under(t)'
    <2>1. /\ op'[t].pc \in {"read", "register"} /\ op'[t].ended = "none"
          /\ op'[t].got = {} /\ op'[t].others = 0
          /\ op'[t].node = e /\ op'[t].order = outline /\ op'[t].what = what
          /\ op'[t].pc = "read" => what # "upsert"
      BY <1>3, <1>6
    <2>2. what # "status" => mu' = t  BY <1>5
    <2>3. 0 <= spent'.others  BY <1>7
    <2>4. At(t)'  BY <2>1 DEF At
    <2> QED  BY <2>1, <2>2, <2>3, <2>4 DEF Under, OneEach
  <1>10. pairing' = pairing /\ creds' = creds /\ site' = site  BY <1>5 DEF conn
  <1>11. op'[t].token = creds  BY <1>3, <1>6
  <1>12. mu' = mu \/ (mu = 0 /\ mu' = t)  BY <1>5
  <1> QED  BY <1>5, <1>6, <1>7, <1>8, <1>9, <1>10, <1>11, <1>12, CallsApart

\* A call begins.
LEMMA BeginCallKeeps == ASSUME Kept, NEW t \in Calls, BeginCall(t) PROVE Kept'
  <1>1. ToSet(outline) \subseteq Episodes  BY ListIs DEF Kept, Types, Lists
  <1>2. \A e \in ToSet(outline) : Begin(t, "publish", e) => Kept'  BY <1>1, BeginKeeps
  <1>3. Begin(t, "upsert", Nobody) \/ Begin(t, "status", Nobody) => Kept'  BY BeginKeeps
  <1>4. \A e \in Episodes : Begin(t, "visibility", e) => Kept'  BY BeginKeeps
  <1> QED  BY <1>2, <1>3, <1>4 DEF BeginCall

\* The counters as a request is lost, or not.
LEMMA TurnIs ==
  ASSUME Types, Turn \/ NoTurn
  PROVE  spent' \in Spent /\ spent'.starts = spent.starts /\ spent'.others = spent.others
  BY DEF Types, Spent, Turn, NoTurn

\* A request is lost: the call ends.
LEMMA LostKeeps == ASSUME Kept, NEW t \in Calls, Lost(t) PROVE Kept'
  <1>1. End(t, "lost") /\ Turn /\ UNCHANGED <<work, conn, site, saved>>  BY DEF Lost
  <1>2. "lost" \in Endings  BY DEF Endings
  <1>3. spent' \in Spent /\ spent'.starts = spent.starts /\ spent'.others = spent.others
    BY <1>1, TurnIs DEF Kept
  <1>4. op' \in [Calls -> CallT] /\ mu' \in Calls \cup {0}  BY <1>1, <1>2, EndIs DEF Kept
  <1>5. Types'  BY <1>1, <1>3, <1>4 DEF Kept, Types, work, conn
  <1> QED  BY <1>1, <1>2, <1>3, <1>5, EndKeeps DEF conn

\* The token is dead: the call ends and the token goes.
LEMMA RefusedKeeps == ASSUME Kept, NEW t \in Calls, Refused(t) PROVE Kept'
  <1>1. /\ End(t, "refused") /\ creds' = 0 /\ account' = Nobody
        /\ UNCHANGED <<work, pairing, current, wanted, dead, site, saved, spent>>
    BY DEF Refused
  <1>2. "refused" \in Endings  BY DEF Endings
  <1>3. op' \in [Calls -> CallT] /\ mu' \in Calls \cup {0}  BY <1>1, <1>2, EndIs DEF Kept
  <1>4. Types'  BY <1>1, <1>3 DEF Kept, Types, work
  <1> QED  BY <1>1, <1>2, <1>4, EndKeeps

\* A call that goes on to pc, with what it has got.
LEMMA GoesTo ==
  ASSUME Kept, NEW t \in Calls, op[t].pc # "idle", NEW row \in CallT, op' = [op EXCEPT ![t] = row],
         mu' = mu, pairing' = pairing, creds' = creds, Types', Under(t)',
         spent'.starts = spent.starts, spent'.others = spent.others, row.token = op[t].token,
         (\A a \in Accounts : site'[a].order = site[a].order) \/ mu = t
  PROVE  Kept'
  <1>1. op \in [Calls -> CallT]  BY CallIs
  <1>2. op'[t] = row /\ \A u \in Calls \ {t} : op'[u] = op[u]  BY <1>1
  <1> QED  BY <1>2, CallsApart

\* The work is registered; no order changes.
LEMMA RegisterKeeps == ASSUME Kept, NEW t \in Calls, Register(t) PROVE Kept'
  <1>1. /\ op[t].pc = "register" /\ site' = [site EXCEPT ![Acct(t)].on = TRUE]
        /\ UNCHANGED <<work, conn, saved>>
    BY DEF Register
  <1>2. Acct(t) \in Accounts /\ site \in [Accounts -> Work] /\ op[t] \in CallT /\ Under(t)
        /\ op \in [Calls -> CallT] /\ mu \in Calls \cup {0}
    BY <1>1, CallIs
  <1>3. site' \in [Accounts -> Work] /\ \A a \in Accounts : site'[a].order = site[a].order
    <2>1. [site[Acct(t)] EXCEPT !.on = TRUE] \in Work
          /\ [site[Acct(t)] EXCEPT !.on = TRUE].order = site[Acct(t)].order
      BY <1>2 DEF Work
    <2> QED  BY <1>1, <1>2, <2>1
  <1>4. CASE Go(t, "keep") /\ NoTurn /\ UNCHANGED mu
    <2> DEFINE row == [op[t] EXCEPT !.pc = "keep"]
    <2>1. op' = [op EXCEPT ![t] = row] /\ mu' = mu  BY <1>2, <1>4 DEF Go
    <2>2. /\ row \in CallT /\ row.pc = "keep" /\ row.what = op[t].what /\ row.node = op[t].node
          /\ row.order = op[t].order /\ row.got = op[t].got /\ row.others = op[t].others
          /\ row.token = op[t].token /\ row.ended = op[t].ended
      BY <1>2 DEF CallT
    <2> HIDE DEF row
    <2>3. op' \in [Calls -> CallT] /\ op'[t] = row  BY <1>2, <2>1, <2>2
    <2>4. spent' \in Spent /\ spent'.starts = spent.starts /\ spent'.others = spent.others
      BY <1>4, TurnIs DEF Kept
    <2>5. Types'  BY <1>1, <1>2, <1>3, <2>1, <2>3, <2>4 DEF Kept, Types, work, conn
    <2>6. Under(t)'  BY <1>1, <1>2, <2>1, <2>2, <2>3, <2>4 DEF Under, At, OneEach
    <2> QED  BY <1>1, <1>3, <2>1, <2>2, <2>4, <2>5, <2>6, GoesTo DEF conn
  <1>5. CASE End(t, "lost") /\ Turn
    <2>1. "lost" \in Endings  BY DEF Endings
    <2>2. spent' \in Spent /\ spent'.starts = spent.starts /\ spent'.others = spent.others
      BY <1>5, TurnIs DEF Kept
    <2>3. op' \in [Calls -> CallT] /\ mu' \in Calls \cup {0}  BY <1>5, <2>1, EndIs DEF Kept
    <2>4. Types'  BY <1>1, <1>3, <2>2, <2>3 DEF Kept, Types, work, conn
    <2> QED  BY <1>1, <1>3, <1>5, <2>1, <2>2, <2>4, EndKeeps DEF conn
  <1> QED  BY <1>4, <1>5 DEF Register

\* The listing tells a publish the site's order, which it knows from here on.
LEMMA ReadKeeps == ASSUME Kept, NEW t \in Calls, Read(t) PROVE Kept'
  <1>1. /\ op[t].pc = "read" /\ op[t].what # "visibility"
        /\ UNCHANGED <<work, conn, site, saved, spent>>
    BY DEF Read
  <1>2. /\ op[t] \in CallT /\ op \in [Calls -> CallT] /\ spent \in Spent /\ Under(t)
        /\ mu \in Calls \cup {0} /\ op[t].order \in Lists /\ Here(t).order \in Lists
        /\ Rows(Acct(t)) \subseteq Row /\ OneEach(Rows(Acct(t)))
    BY <1>1, CallIs
  <1>3. op[t].what \in {"publish", "status"}  BY <1>1, <1>2 DEF Under
  <1>4. CASE Here(t).on
    <2> DEFINE s == Here(t).order
               got == Rows(Acct(t))
               moved == op[t].node \in ToSet(s) /\ s # DesiredOrder(s, op[t].order, op[t].node)
               pc == IF op[t].what = "status" THEN "keep" ELSE IF moved THEN "reorder" ELSE "put"
               old == op[t]
               row == [old EXCEPT !.seen = s, !.got = got, !.others = spent.others, !.pc = pc]
    <2>1. op' = [op EXCEPT ![t] = row] /\ mu' = mu  BY <1>1, <1>4 DEF Read
    <2>2. /\ s \in Lists /\ got \in SUBSET Row /\ OneEach(got) /\ spent.others \in Nat /\ old \in CallT
          /\ pc \in {"keep", "reorder", "put"}
      BY <1>2 DEF Spent
    <2> HIDE DEF s, got, pc, old, row
    <2>3. /\ row \in CallT /\ row.pc = pc /\ row.seen = s /\ row.got = got /\ row.others = spent.others
          /\ row.what = old.what /\ row.node = old.node /\ row.order = old.order /\ row.token = old.token
          /\ row.ended = old.ended
      BY <2>2 DEF CallT, row
    <2>4. op' \in [Calls -> CallT] /\ op'[t] = row  BY <1>2, <2>1, <2>3
    <2>5. Types'  BY <1>1, <2>1, <2>4 DEF Kept, Types, work, conn
    <2>6. Here(t)' = Here(t)  BY <1>1, <2>3, <2>4 DEF Here, Acct, Account, conn, old
    <2>7. At(t)'
      <3>1. (op[t].pc)' = pc /\ (op[t].seen)' = s /\ (op[t].node)' = op[t].node  BY <2>3, <2>4 DEF old
      <3>2. IsNew(t)' <=> op[t].node \notin ToSet(s)  BY <3>1 DEF IsNew
      <3>3. Desired(t)' = DesiredOrder(s, op[t].order, op[t].node)  BY <2>3, <2>4 DEF Desired, old
      <3>4. pc = "put" => ~moved  BY DEF pc
      <3>5. pc = "reorder" => moved  BY DEF pc
      <3>6. pc # "refresh"  BY <2>2
      <3>7. (Here(t).order)' = s  BY <2>6 DEF s
      <3> QED  BY <3>1, <3>2, <3>3, <3>4, <3>5, <3>6, <3>7 DEF At
    <2>8. Under(t)'
      <3>1. pc \in {"put", "reorder"} => op[t].what = "publish"  BY <1>3 DEF pc
      <3>2. /\ op'[t].pc = pc /\ op'[t].what = op[t].what /\ op'[t].node = op[t].node
            /\ op'[t].order = op[t].order /\ op'[t].got = got /\ op'[t].others = spent.others
            /\ op'[t].ended = op[t].ended /\ spent' = spent
        BY <1>1, <2>3, <2>4 DEF old
      <3> QED  BY <1>1, <1>2, <2>1, <2>2, <2>7, <3>1, <3>2 DEF Under, OneEach
    <2> QED  BY <1>1, <2>1, <2>3, <2>5, <2>8, GoesTo DEF conn, old
  <1>5. CASE ~Here(t).on /\ op[t].what = "status"
    <2> DEFINE row == [op[t] EXCEPT !.pc = "forget"]
    <2>1. op' = [op EXCEPT ![t] = row] /\ mu' = mu  BY <1>1, <1>2, <1>5 DEF Read, Go
    <2>2. /\ row \in CallT /\ row.pc = "forget" /\ row.what = op[t].what /\ row.node = op[t].node
          /\ row.order = op[t].order /\ row.got = op[t].got /\ row.others = op[t].others
          /\ row.token = op[t].token /\ row.ended = op[t].ended
      BY <1>2 DEF CallT
    <2> HIDE DEF row
    <2>3. op' \in [Calls -> CallT] /\ op'[t] = row  BY <1>2, <2>1, <2>2
    <2>4. Types'  BY <1>1, <2>1, <2>3 DEF Kept, Types, work, conn
    <2>5. Under(t)'  BY <1>1, <1>2, <2>1, <2>2, <2>3 DEF Under, At, OneEach
    <2> QED  BY <1>1, <2>1, <2>2, <2>4, <2>5, GoesTo DEF conn
  <1>6. CASE ~Here(t).on /\ op[t].what # "status"
    <2>1. End(t, "unregistered")  BY <1>6 DEF Read
    <2>2. "unregistered" \in Endings  BY DEF Endings
    <2>3. op' \in [Calls -> CallT] /\ mu' \in Calls \cup {0}  BY <2>1, <2>2, EndIs DEF Kept
    <2>4. Types'  BY <1>1, <2>3 DEF Kept, Types, work, conn
    <2> QED  BY <1>1, <2>1, <2>2, <2>4, EndKeeps DEF conn
  <1> QED  BY <1>4, <1>5, <1>6

\* An episode's visibility is set; no order changes.
LEMMA PatchKeeps == ASSUME Kept, NEW t \in Calls, Patch(t) PROVE Kept'
  <1> DEFINE mine == {r \in Rows(Acct(t)) : r.node = op[t].node}
             row == [op[t] EXCEPT !.pc = "keepRow", !.got = mine]
  <1>1. /\ op[t].pc = "read" /\ op[t].what = "visibility"
        /\ UNCHANGED <<work, conn, site, saved, spent>>
    BY DEF Patch
  <1>2. /\ op[t] \in CallT /\ op \in [Calls -> CallT] /\ spent \in Spent /\ Under(t)
        /\ mu \in Calls \cup {0} /\ Rows(Acct(t)) \subseteq Row /\ OneEach(Rows(Acct(t)))
    BY <1>1, CallIs
  <1>3. mine \in SUBSET Row /\ OneEach(mine) /\ \A r \in mine : r.node = op[t].node  BY <1>2 DEF OneEach
  <1>4. \/ op' = [op EXCEPT ![t] = row] /\ mu' = mu
        \/ End(t, "missing")
    BY <1>2 DEF Patch
  <1> HIDE DEF mine
  <1>5. CASE op' = [op EXCEPT ![t] = row] /\ mu' = mu
    <2>1. /\ row \in CallT /\ row.pc = "keepRow" /\ row.what = op[t].what /\ row.node = op[t].node
          /\ row.order = op[t].order /\ row.got = mine /\ row.others = op[t].others
          /\ row.token = op[t].token /\ row.ended = op[t].ended
      BY <1>2, <1>3 DEF CallT
    <2> HIDE DEF row
    <2>2. op' \in [Calls -> CallT] /\ op'[t] = row  BY <1>2, <1>5, <2>1
    <2>3. Types'  BY <1>1, <1>5, <2>2 DEF Kept, Types, work, conn
    <2>4. Under(t)'  BY <1>1, <1>2, <1>3, <1>5, <2>1, <2>2 DEF Under, At, OneEach
    <2> QED  BY <1>1, <1>5, <2>1, <2>3, <2>4, GoesTo DEF conn
  <1>6. CASE End(t, "missing")
    <2>1. "missing" \in Endings  BY DEF Endings
    <2>2. op' \in [Calls -> CallT] /\ mu' \in Calls \cup {0}  BY <1>6, <2>1, EndIs DEF Kept
    <2>3. Types'  BY <1>1, <2>2 DEF Kept, Types, work, conn
    <2> QED  BY <1>1, <1>6, <2>1, <2>3, EndKeeps DEF conn
  <1> QED  BY <1>4, <1>5, <1>6

\* The site answers with the episode's row.
LEMMA AnsweredKeeps ==
  ASSUME Kept, NEW t \in Calls, op[t].pc \in {"put", "reorder"}, NEW pc \in {"put", "reorder", "refresh"},
         Answered(t, pc), site' \in [Accounts -> Work], NoTurn, UNCHANGED <<work, conn, saved, mu>>,
         op[t].others = spent.others =>
            LET now == site'[Acct(t)].order IN
            /\ pc = "put" => now = IF IsNew(t) THEN op[t].seen ELSE Desired(t)
            /\ pc = "reorder" => now = IF IsNew(t) THEN Append(op[t].seen, op[t].node) ELSE op[t].seen
            /\ pc = "refresh" => now = Desired(t)
  PROVE  Kept'
  <1> DEFINE now == site'[Acct(t)]
             all == RowsOf(now, Acct(t))
             mine == {r \in all : r.node = op[t].node}
             old == op[t]
             row == [old EXCEPT !.pc = pc, !.got = mine]
  <1>1. /\ op[t] \in CallT /\ op \in [Calls -> CallT] /\ Under(t) /\ mu \in Calls \cup {0}
        /\ Acct(t) \in Accounts
    BY CallIs
  <1>2. all \subseteq Row /\ OneEach(all)  BY <1>1, RowsAre
  <1>3. mine \in SUBSET Row /\ OneEach(mine) /\ \A r \in mine : r.node = op[t].node
    BY <1>2 DEF OneEach
  <1>4. op' = [op EXCEPT ![t] = row]  BY <1>1 DEF Answered
  <1> HIDE DEF all, mine, old, row
  <1>5. old \in CallT  BY <1>1 DEF old
  <1>6. /\ row \in CallT /\ row.pc = pc /\ row.what = old.what /\ row.node = old.node
        /\ row.order = old.order /\ row.got = mine /\ row.others = old.others /\ row.seen = old.seen
        /\ row.token = old.token /\ row.ended = old.ended
    BY <1>3, <1>5 DEF CallT, row
  <1>7. op' \in [Calls -> CallT] /\ op'[t] = row  BY <1>1, <1>4, <1>6
  <1>8. Types'  BY <1>7 DEF Kept, Types, work, conn, NoTurn
  <1>9. Here(t)' = now  BY <1>6, <1>7 DEF Here, Acct, Account, conn, old
  <1>10. (IsNew(t)' <=> IsNew(t)) /\ Desired(t)' = Desired(t)  BY <1>6, <1>7 DEF IsNew, Desired, old
  <1>11. /\ op'[t].pc = pc /\ op'[t].what = op[t].what /\ op'[t].node = op[t].node
         /\ op'[t].order = op[t].order /\ op'[t].got = mine /\ op'[t].others = op[t].others
         /\ op'[t].ended = op[t].ended /\ op'[t].seen = op[t].seen /\ spent' = spent
    BY <1>6, <1>7 DEF old, NoTurn
  <1>12. op'[t].others = spent'.others => At(t)'  BY <1>9, <1>10, <1>11 DEF At
  <1>13. Under(t)'  BY <1>1, <1>3, <1>11, <1>12 DEF Under, OneEach
  <1>14. mu = t  BY <1>1 DEF Under
  <1> QED  BY <1>4, <1>6, <1>8, <1>11, <1>13, <1>14, GoesTo DEF conn, old

\* What a publish knows in time to use it.
LEMMA PublishIs ==
  ASSUME Kept, NEW t \in Calls, op[t].pc \in {"put", "reorder", "refresh"}
  PROVE  /\ mu = t /\ op[t].node \in ToSet(op[t].order) /\ op[t].node \in Episodes
         /\ Desired(t) \in Lists /\ ToSet(Desired(t)) = ToSet(op[t].seen) \cup {op[t].node}
         /\ op[t].others = spent.others => At(t)
         /\ spent.others = 0 => op[t].others = spent.others
  <1>1. Under(t) /\ op[t] \in CallT /\ op[t].order \in Lists /\ op[t].seen \in Lists /\ spent \in Spent
    BY CallIs
  <1>2. mu = t /\ op[t].node \in ToSet(op[t].order) /\ (op[t].others = spent.others => At(t))
    BY <1>1 DEF Under
  <1>3. op[t].node \in Episodes  BY <1>1, <1>2, ListIs DEF Lists
  <1>4. Desired(t) \in Lists /\ ToSet(Desired(t)) = ToSet(op[t].seen) \cup {op[t].node}
    BY <1>1, <1>2, DesiredPlaced DEF Desired
  <1>5. spent.others = 0 => op[t].others = spent.others  BY <1>1 DEF Under, CallT, Spent
  <1> QED  BY <1>2, <1>3, <1>4, <1>5

\* Unless another device was there, the number is free or the episode's own.
LEMMA NumberIsFree ==
  ASSUME Kept, NEW t \in Calls, op[t].pc = "put", spent.others = 0
  PROVE  TakenBy(t) \in {op[t].node, Nobody}
  <1>1. At(t) /\ Desired(t) \in Lists /\ ToSet(Desired(t)) = ToSet(op[t].seen) \cup {op[t].node}
    BY PublishIs
  <1>2. op[t].seen \in Seq(Episodes)  BY CallIs DEF Lists
  <1>3. CASE IsNew(t)
    <2>1. Here(t).order = op[t].seen /\ Number(t) = Len(op[t].seen) + 1  BY <1>1, <1>3 DEF At, Number
    <2>2. Number(t) \notin DOMAIN Here(t).order  BY <1>2, <2>1
    <2> QED  BY <2>2 DEF TakenBy
  <1>4. CASE ~IsNew(t)
    <2> DEFINE u == Desired(t)
    <2>1. Here(t).order = u /\ Number(t) = CHOOSE i \in DOMAIN u : u[i] = op[t].node
      BY <1>1, <1>4 DEF At, Number
    <2>2. \E i \in DOMAIN u : u[i] = op[t].node
      <3>1. u \in Seq(Episodes) /\ op[t].node \in ToSet(u)  BY <1>1 DEF Lists
      <3> HIDE DEF u
      <3> QED  BY <3>1, ListIs
    <2> HIDE DEF u
    <2>3. Number(t) \in DOMAIN u /\ u[Number(t)] = op[t].node  BY <2>1, <2>2
    <2> QED  BY <2>1, <2>3 DEF TakenBy
  <1> QED  BY <1>3, <1>4

\* An episode is put under its number, at the end when it is new.
LEMMA PutKeeps == ASSUME Kept, NEW t \in Calls, Put(t) PROVE Kept'
  <1> DEFINE a == Acct(t)
             e == op[t].node
             s == site[a].order
             u == IF e \in ToSet(s) THEN s ELSE Append(s, e)
  <1>1. op[t].pc = "put" /\ UNCHANGED <<work, conn, saved>>  BY DEF Put
  <1>2. /\ op[t] \in CallT /\ op \in [Calls -> CallT] /\ Under(t) /\ mu \in Calls \cup {0}
        /\ a \in Accounts /\ site \in [Accounts -> Work] /\ op[t].seen \in Lists
    BY <1>1, CallIs
  <1>3. /\ mu = t /\ e \in Episodes
        /\ op[t].others = spent.others => At(t)
        /\ Desired(t) \in Lists /\ ToSet(Desired(t)) = ToSet(op[t].seen) \cup {e}
    BY <1>1, PublishIs
  <1>4. CASE TakenBy(t) \in {op[t].node, Nobody}
    <2> DEFINE w == [site[a] EXCEPT !.order = u, !.text[e] = op[t].text]
    <2>1. site' = [site EXCEPT ![a].order = IF e \in ToSet(@) THEN @ ELSE Append(@, e),
                               ![a].text[e] = op[t].text]
      BY <1>4 DEF Put
    <2>2. site[a] \in Work /\ s \in Lists /\ op[t].text \in 0..2  BY <1>2 DEF Work, CallT
    <2>3. u \in Lists  BY <1>3, <2>2, AppendsOnce
    <2>4. site' = [site EXCEPT ![a] = w]  BY <1>2, <2>1
    <2>5. w \in Work /\ w.order = u  BY <1>3, <2>2, <2>3 DEF Work
    <2> HIDE DEF w, u
    <2>6. site' \in [Accounts -> Work] /\ site'[a].order = u  BY <1>2, <2>4, <2>5
    <2>7. CASE /\ Answered(t, IF IsNew(t) /\ Append(op[t].seen, e) # Desired(t) THEN "reorder" ELSE "refresh")
               /\ NoTurn /\ UNCHANGED mu
      <3> DEFINE pc == IF IsNew(t) /\ Append(op[t].seen, e) # Desired(t) THEN "reorder" ELSE "refresh"
      <3>1. Answered(t, pc) /\ pc \in {"reorder", "refresh"}  BY <2>7
      <3>2. /\ pc = "reorder" => IsNew(t)
            /\ pc = "refresh" => ~IsNew(t) \/ Append(op[t].seen, e) = Desired(t)
        OBVIOUS
      <3> HIDE DEF pc
      <3>3. ASSUME op[t].others = spent.others
            PROVE  /\ pc = "reorder" => u = Append(op[t].seen, e)
                   /\ pc = "refresh" => u = Desired(t)
        <4>1. s = IF IsNew(t) THEN op[t].seen ELSE Desired(t)  BY <1>1, <1>3, <3>3 DEF At, Here
        <4>2. CASE IsNew(t)
          <5>1. u = Append(op[t].seen, e)  BY <4>1, <4>2 DEF IsNew, u
          <5> QED  BY <3>2, <4>2, <5>1
        <4>3. CASE ~IsNew(t)
          <5>1. u = Desired(t)  BY <1>3, <4>1, <4>3 DEF u
          <5> QED  BY <3>2, <4>3, <5>1
        <4> QED  BY <4>2, <4>3
      <3>4. pc \in {"put", "reorder", "refresh"} /\ pc # "put"  BY <3>1
      <3> HIDE DEF s
      <3> QED  BY <1>1, <2>6, <2>7, <3>1, <3>2, <3>3, <3>4, AnsweredKeeps
    <2>8. CASE End(t, "lost") /\ Turn
      <3>1. "lost" \in Endings  BY DEF Endings
      <3>2. spent' \in Spent /\ spent'.starts = spent.starts /\ spent'.others = spent.others
        BY <2>8, TurnIs DEF Kept
      <3>3. op' \in [Calls -> CallT] /\ mu' \in Calls \cup {0}  BY <2>8, <3>1, EndIs DEF Kept
      <3>4. Types'  BY <1>1, <2>6, <3>2, <3>3 DEF Kept, Types, work, conn
      <3> QED  BY <1>1, <1>3, <2>8, <3>1, <3>2, <3>4, EndKeeps DEF conn
    <2> QED  BY <1>4, <2>7, <2>8 DEF Put
  <1>5. CASE TakenBy(t) \notin {op[t].node, Nobody}
    <2>1. UNCHANGED site /\ NoTurn  BY <1>5 DEF Put
    <2>2. CASE op[t].tries = 0
      <3> DEFINE row == [op[t] EXCEPT !.pc = "read", !.tries = 1]
      <3>1. op' = [op EXCEPT ![t] = row] /\ mu' = mu  BY <1>2, <1>5, <2>2 DEF Put
      <3>2. /\ row \in CallT /\ row.pc = "read" /\ row.what = op[t].what /\ row.node = op[t].node
            /\ row.order = op[t].order /\ row.got = op[t].got /\ row.others = op[t].others
            /\ row.token = op[t].token /\ row.ended = op[t].ended
        BY <1>2 DEF CallT
      <3> HIDE DEF row
      <3>3. op' \in [Calls -> CallT] /\ op'[t] = row  BY <1>2, <3>1, <3>2
      <3>4. Types'  BY <1>1, <2>1, <3>1, <3>3 DEF Kept, Types, work, conn, NoTurn
      <3>5. Under(t)'  BY <1>1, <1>2, <2>1, <3>1, <3>2, <3>3 DEF Under, At, OneEach, NoTurn
      <3> QED  BY <1>1, <2>1, <3>1, <3>2, <3>4, <3>5, GoesTo DEF conn, NoTurn
    <2>3. CASE op[t].tries # 0
      <3>1. End(t, "taken")  BY <1>5, <2>3 DEF Put
      <3>2. "taken" \in Endings  BY DEF Endings
      <3>3. op' \in [Calls -> CallT] /\ mu' \in Calls \cup {0}  BY <3>1, <3>2, EndIs DEF Kept
      <3>4. Types'  BY <1>1, <2>1, <3>3 DEF Kept, Types, work, conn, NoTurn
      <3>5. spent.others # 0  BY <1>1, <1>5, NumberIsFree
      <3> QED  BY <1>1, <2>1, <3>1, <3>2, <3>4, <3>5, EndKeeps DEF conn, NoTurn
    <2> QED  BY <2>2, <2>3
  <1> QED  BY <1>4, <1>5

\* The new order is taken when it names what the site has.
LEMMA ReorderKeeps == ASSUME Kept, NEW t \in Calls, Reorder(t) PROVE Kept'
  <1> DEFINE a == Acct(t)
             u == Desired(t)
             s == Here(t).order
  <1>1. op[t].pc = "reorder" /\ UNCHANGED <<work, conn, saved>>  BY DEF Reorder
  <1>2. /\ op[t] \in CallT /\ mu \in Calls \cup {0} /\ a \in Accounts /\ site \in [Accounts -> Work]
        /\ op[t].seen \in Lists /\ s \in Lists
    BY <1>1, CallIs
  <1>3. /\ mu = t /\ op[t].node \in Episodes /\ u \in Lists /\ ToSet(u) = ToSet(op[t].seen) \cup {op[t].node}
        /\ spent.others = 0 => op[t].others = spent.others /\ At(t)
    BY <1>1, PublishIs
  <1>4. CASE ToSet(u) = ToSet(s) /\ IsInjective(u)
    <2> DEFINE w == [site[a] EXCEPT !.order = u]
    <2>1. site' = [site EXCEPT ![a] = w]  BY <1>2, <1>4 DEF Reorder
    <2>2. w \in Work /\ w.order = u  BY <1>2, <1>3 DEF Work
    <2> HIDE DEF w
    <2>3. site' \in [Accounts -> Work] /\ site'[a].order = u  BY <1>2, <2>1, <2>2
    <2>4. CASE Answered(t, IF IsNew(t) THEN "refresh" ELSE "put") /\ NoTurn /\ UNCHANGED mu
      <3> DEFINE pc == IF IsNew(t) THEN "refresh" ELSE "put"
      <3>1. Answered(t, pc) /\ pc \in {"put", "reorder", "refresh"} /\ pc # "reorder"  BY <2>4
      <3>2. pc = "put" => ~IsNew(t)  OBVIOUS
      <3> HIDE DEF pc
      <3> QED  BY <1>1, <2>3, <2>4, <3>1, <3>2, AnsweredKeeps
    <2>5. CASE End(t, "lost") /\ Turn
      <3>1. "lost" \in Endings  BY DEF Endings
      <3>2. spent' \in Spent /\ spent'.starts = spent.starts /\ spent'.others = spent.others
        BY <2>5, TurnIs DEF Kept
      <3>3. op' \in [Calls -> CallT] /\ mu' \in Calls \cup {0}  BY <2>5, <3>1, EndIs DEF Kept
      <3>4. Types'  BY <1>1, <2>3, <3>2, <3>3 DEF Kept, Types, work, conn
      <3> QED  BY <1>1, <1>3, <2>5, <3>1, <3>2, <3>4, EndKeeps DEF conn
    <2> QED  BY <1>4, <2>4, <2>5 DEF Reorder
  <1>5. CASE ~(ToSet(u) = ToSet(s) /\ IsInjective(u))
    <2>1. End(t, "rejected") /\ UNCHANGED site /\ NoTurn  BY <1>5 DEF Reorder
    <2>2. "rejected" \in Endings  BY DEF Endings
    <2>3. op' \in [Calls -> CallT] /\ mu' \in Calls \cup {0}  BY <2>1, <2>2, EndIs DEF Kept
    <2>4. Types'  BY <1>1, <2>1, <2>3 DEF Kept, Types, work, conn, NoTurn
    <2>5. ASSUME spent.others = 0 PROVE FALSE
      <3>1. s = IF IsNew(t) THEN Append(op[t].seen, op[t].node) ELSE op[t].seen
        BY <1>1, <1>3, <2>5 DEF At
      <3>2. CASE IsNew(t)
        <4>1. ToSet(s) = ToSet(op[t].seen) \cup {op[t].node}
          BY <1>2, <1>3, <3>1, <3>2, AppendsOnce DEF IsNew
        <4> QED  BY <1>3, <1>5, <4>1 DEF Lists
      <3>3. CASE ~IsNew(t)
        <4>1. ToSet(s) = ToSet(op[t].seen) \cup {op[t].node}  BY <3>1, <3>3 DEF IsNew
        <4> QED  BY <1>3, <1>5, <4>1 DEF Lists
      <3> QED  BY <3>2, <3>3
    <2> QED  BY <1>1, <2>1, <2>2, <2>4, <2>5, EndKeeps DEF conn, NoTurn
  <1> QED  BY <1>4, <1>5

\* The listing to save is read.
LEMMA RefreshKeeps == ASSUME Kept, NEW t \in Calls, Refresh(t) PROVE Kept'
  <1>1. op[t].pc = "refresh" /\ UNCHANGED <<work, conn, site, saved, mu>>  BY DEF Refresh
  <1>2. /\ op[t] \in CallT /\ op \in [Calls -> CallT] /\ Under(t) /\ mu \in Calls \cup {0}
        /\ Rows(Acct(t)) \in SUBSET Row /\ OneEach(Rows(Acct(t)))
    BY <1>1, CallIs
  <1>3. spent' \in Spent /\ spent'.starts = spent.starts /\ spent'.others = spent.others
    <2>1. Turn \/ NoTurn  BY DEF Refresh
    <2> QED  BY <2>1, TurnIs DEF Kept
  <1> DEFINE all == Rows(Acct(t))
             one == [op[t] EXCEPT !.pc = "keep", !.got = all]
             two == [op[t] EXCEPT !.pc = "keepRow"]
  <1>4. op' = [op EXCEPT ![t] = one] \/ op' = [op EXCEPT ![t] = two]
    BY <1>2 DEF Refresh, Go
  <1> HIDE DEF all
  <1>5. CASE op' = [op EXCEPT ![t] = one]
    <2>1. /\ one \in CallT /\ one.pc = "keep" /\ one.what = op[t].what /\ one.node = op[t].node
          /\ one.order = op[t].order /\ one.got = all /\ one.others = op[t].others
          /\ one.token = op[t].token /\ one.ended = op[t].ended
      BY <1>2 DEF CallT, all
    <2> HIDE DEF one
    <2>2. op' \in [Calls -> CallT] /\ op'[t] = one  BY <1>2, <1>5, <2>1
    <2>3. Types'  BY <1>1, <1>3, <2>2 DEF Kept, Types, work, conn
    <2>4. OneEach(all)  BY <1>2 DEF all
    <2>5. Under(t)'  BY <1>1, <1>2, <1>3, <2>1, <2>2, <2>4 DEF Under, At, OneEach
    <2> QED  BY <1>1, <1>3, <1>5, <2>1, <2>3, <2>5, GoesTo DEF conn
  <1>6. CASE op' = [op EXCEPT ![t] = two]
    <2>1. /\ two \in CallT /\ two.pc = "keepRow" /\ two.what = op[t].what /\ two.node = op[t].node
          /\ two.order = op[t].order /\ two.got = op[t].got /\ two.others = op[t].others
          /\ two.token = op[t].token /\ two.ended = op[t].ended
      BY <1>2 DEF CallT
    <2> HIDE DEF two
    <2>2. op' \in [Calls -> CallT] /\ op'[t] = two  BY <1>2, <1>6, <2>1
    <2>3. Types'  BY <1>1, <1>3, <2>2 DEF Kept, Types, work, conn
    <2>4. Under(t)'  BY <1>1, <1>2, <1>3, <2>1, <2>2 DEF Under, At, OneEach
    <2> QED  BY <1>1, <1>3, <1>6, <2>1, <2>3, <2>4, GoesTo DEF conn
  <1> QED  BY <1>4, <1>5, <1>6

\* What was read is saved, one row for each episode.
LEMMA KeepKeeps == ASSUME Kept, NEW t \in Calls, Keep(t) PROVE Kept'
  <1>1. /\ op[t].pc \in {"keep", "keepRow"} /\ End(t, "done")
        /\ UNCHANGED <<outline, text, conn, site, spent>>
        /\ marked' = IF op[t].what = "publish" THEN marked \cup {op[t].node} ELSE marked
    BY DEF Keep
  <1>2. /\ op[t] \in CallT /\ Under(t) /\ op[t].order \in Lists /\ Acct(t) \in Accounts
        /\ op[t].got \in SUBSET Row /\ OneEach(op[t].got)
    BY <1>1, CallIs DEF CallT, Under
  <1>3. saved \in [of : Accounts \cup {Nobody}, rows : SUBSET Row] /\ OneEach(saved.rows)  BY DEF Kept, Types
  <1>4. marked' \subseteq Episodes
    <2>1. op[t].what = "publish" => op[t].node \in Episodes
      BY <1>1, <1>2, ListIs DEF Under, Lists
    <2> QED  BY <1>1, <2>1 DEF Kept, Types
  <1>5. saved' \in [of : Accounts \cup {Nobody}, rows : SUBSET Row] /\ OneEach(saved'.rows)
    <2>1. CASE op[t].pc = "keepRow"
      <3> DEFINE rows == OtherRows(t) \cup op[t].got
      <3>1. rows \in SUBSET Row  BY <1>2, <1>3 DEF OtherRows
      <3>2. \A r \in op[t].got : r.node = op[t].node  BY <1>2, <2>1 DEF Under
      <3>3. OneEach(rows)
        <4>1. \A r \in OtherRows(t) : r \in saved.rows /\ r.node # op[t].node  BY DEF OtherRows
        <4> SUFFICES ASSUME NEW r \in rows, NEW q \in rows, r.node = q.node PROVE r = q  BY DEF OneEach
        <4>2. CASE r \in OtherRows(t) /\ q \in OtherRows(t)  BY <1>3, <4>1, <4>2 DEF OneEach
        <4>3. CASE r \in op[t].got /\ q \in op[t].got  BY <1>2, <4>3 DEF OneEach
        <4>4. \A x \in OtherRows(t), y \in op[t].got : x.node # y.node  BY <3>2, <4>1
        <4>5. (r \in OtherRows(t) \/ r \in op[t].got) /\ (q \in OtherRows(t) \/ q \in op[t].got)
          OBVIOUS
        <4> HIDE DEF rows
        <4>6. CASE r \in OtherRows(t) /\ q \in op[t].got  BY <4>4, <4>6
        <4>7. CASE q \in OtherRows(t) /\ r \in op[t].got  BY <4>4, <4>7
        <4> QED  BY <4>2, <4>3, <4>5, <4>6, <4>7
      <3>4. saved' = [saved EXCEPT !.rows = rows]  BY <2>1 DEF Keep
      <3> HIDE DEF rows
      <3> QED  BY <1>3, <3>1, <3>3, <3>4
    <2>2. CASE op[t].pc # "keepRow" /\ op[t].what = "upsert"
      <3>1. saved' = [saved EXCEPT !.of = Acct(t)]  BY <1>1, <2>2 DEF Keep
      <3> QED  BY <1>2, <1>3, <3>1
    <2>3. CASE op[t].pc # "keepRow" /\ op[t].what # "upsert"
      <3>1. saved' = [of |-> Acct(t), rows |-> op[t].got]  BY <1>1, <2>3 DEF Keep
      <3> QED  BY <1>2, <3>1
    <2> QED  BY <2>1, <2>2, <2>3
  <1>6. "done" \in Endings  BY DEF Endings
  <1>7. op' \in [Calls -> CallT] /\ mu' \in Calls \cup {0}  BY <1>1, <1>6, EndIs DEF Kept
  <1>8. Types'  BY <1>1, <1>4, <1>5, <1>7 DEF Kept, Types, conn
  <1> QED  BY <1>1, <1>6, <1>8, EndKeeps DEF conn

\* What was saved is forgotten.
LEMMA ForgetKeeps == ASSUME Kept, NEW t \in Calls, Forget(t) PROVE Kept'
  <1>1. saved' = [of |-> Nobody, rows |-> {}] /\ End(t, "done") /\ UNCHANGED <<work, conn, site, spent>>
    BY DEF Forget
  <1>2. "done" \in Endings  BY DEF Endings
  <1>3. op' \in [Calls -> CallT] /\ mu' \in Calls \cup {0}  BY <1>1, <1>2, EndIs DEF Kept
  <1>4. saved' \in [of : Accounts \cup {Nobody}, rows : SUBSET Row] /\ OneEach(saved'.rows)
    BY <1>1 DEF OneEach
  <1>5. Types'  BY <1>1, <1>3, <1>4 DEF Kept, Types, work, conn
  <1> QED  BY <1>1, <1>2, <1>5, EndKeeps DEF conn

\* Every step of a call keeps it.
LEMMA CallStaysKept == ASSUME Kept, NEW t \in Calls, Call(t) PROVE Kept'
  BY BeginCallKeeps, LostKeeps, RefusedKeeps, RegisterKeeps, ReadKeeps, PatchKeeps, PutKeeps,
     ReorderKeeps, RefreshKeeps, KeepKeeps, ForgetKeeps DEF Call

-----------------------------------------------------------------------------
(* The other steps. *)

\* Connecting touches no call, and no pairing that has given its token.
LEMMA ConnectingApart ==
  ASSUME Kept, Types', UNCHANGED <<site, mu, op>>, spent'.others = spent.others,
         \A p \in Pairings : Settled(p) => Settled(p)' /\ pairing'[p].answer = pairing[p].answer,
         \A p \in Pairings : pairing'[p].pc # "none" => p <= spent'.starts,
         creds' # 0 => Settled(creds)'
  PROVE  Kept'
  <1>1. \A t \in Calls : op[t].pc # "idle" => Settled(op[t].token)  BY DEF Kept, Tokens
  <1>2. Tokens'
    <2>1. ASSUME NEW t \in Calls, op'[t].pc # "idle" PROVE Settled(op[t].token)'
      <3> DEFINE p == op[t].token
      <3>1. Settled(p) /\ op'[t].token = p  BY <1>1, <2>1
      <3>2. p \in Pairings /\ pairing'[p].pc = "done" /\ pairing'[p].answer \in Accounts
        BY <3>1 DEF Settled
      <3> QED  BY <3>1, <3>2 DEF Settled
    <2> QED  BY <2>1 DEF Tokens
  <1>3. ASSUME NEW t \in Calls PROVE Under(t)'
    <2>1. Under(t)  BY DEF Kept
    <2>2. op[t].pc # "idle" => Here(t)' = Here(t)
      BY <1>1 DEF Here, Acct, Account, Settled
    <2>3. Desired(t)' = Desired(t) /\ (IsNew(t)' <=> IsNew(t))  BY DEF Desired, IsNew
    <2>4. At(t) => At(t)'  BY <2>2, <2>3 DEF At
    <2> QED  BY <2>1, <2>4 DEF Under
  <1> QED  BY <1>2, <1>3 DEF Kept

\* A new pairing takes a number that no pairing has.
LEMMA StartBeginKeeps == ASSUME Kept, StartBegin PROVE Kept'
  <1> DEFINE new == spent.starts + 1
  <1>1. /\ spent.starts < MaxStarts /\ spent' = [spent EXCEPT !.starts = @ + 1, !.turns = @ + 1]
        /\ pairing' = [Stopped(current) EXCEPT ![new].pc = "starting"] /\ current' = 0
        /\ UNCHANGED <<work, creds, account, wanted, dead, site, saved, mu, op>>
    BY DEF StartBegin
  <1>2. /\ spent \in Spent /\ pairing \in [Pairings -> Pairing] /\ current \in Pairings \cup {0}
        /\ \A p \in Pairings : pairing[p].pc # "none" => p <= spent.starts
    BY DEF Kept, Types, Tokens
  <1>3. spent.starts \in Nat /\ spent' \in Spent /\ spent'.starts = new /\ spent'.others = spent.others
    <2>1. spent.starts \in Nat /\ spent.turns \in Nat  BY <1>2 DEF Spent
    <2>2. new \in Nat /\ spent.turns + 1 \in Nat  BY <2>1
    <2>3. spent' = [spent EXCEPT !.starts = new, !.turns = spent.turns + 1]  BY <1>1, <1>2 DEF Spent
    <2> HIDE DEF new
    <2> QED  BY <1>2, <2>1, <2>2, <2>3 DEF Spent
  <1>4. new \in Pairings  BY <1>1, <1>3, SomePairings DEF Pairings
  <1> HIDE DEF new
  <1>5. Stopped(current) \in [Pairings -> Pairing]
        /\ \A p \in Pairings : /\ Stopped(current)[p].answer = pairing[p].answer
                               /\ Stopped(current)[p].pc \in {pairing[p].pc, "done"}
                               /\ pairing[p].pc \in {"none", "done"} => Stopped(current)[p] = pairing[p]
    BY <1>2 DEF Stopped, Pairing
  <1>6. /\ pairing' \in [Pairings -> Pairing]
        /\ \A p \in Pairings : pairing'[p].answer = pairing[p].answer
        /\ \A p \in Pairings \ {new} : pairing'[p] = Stopped(current)[p]
    <2> DEFINE f == Stopped(current)
               row == [f[new] EXCEPT !.pc = "starting"]
    <2>1. f \in [Pairings -> Pairing] /\ \A p \in Pairings : f[p].answer = pairing[p].answer  BY <1>5
    <2>2. pairing' = [f EXCEPT ![new] = row]  BY <1>1
    <2> HIDE DEF f
    <2>3. row \in Pairing /\ row.answer = f[new].answer  BY <1>4, <2>1 DEF Pairing
    <2> HIDE DEF row
    <2>4. \A p \in Pairings \ {new} : pairing'[p] = f[p]  BY <2>1, <2>2
    <2> QED  BY <1>4, <2>1, <2>2, <2>3, <2>4 DEF f
  <1>7. Types'  BY <1>1, <1>3, <1>6 DEF Kept, Types, work
  <1>8. \A p \in Pairings : p \in Nat  BY SomePairings DEF Pairings
  <1>9. \A p \in Pairings : Settled(p) => Settled(p)'
    <2> SUFFICES ASSUME NEW p \in Pairings, Settled(p) PROVE Settled(p)'  OBVIOUS
    <2>1. p <= spent.starts /\ pairing[p].pc = "done"  BY <1>2 DEF Settled
    <2>2. p # new  BY <1>3, <1>8, <2>1 DEF new
    <2>3. pairing'[p] = pairing[p]  BY <1>5, <1>6, <2>1, <2>2
    <2> QED  BY <2>3 DEF Settled
  <1>10. ASSUME NEW p \in Pairings, pairing'[p].pc # "none" PROVE p <= spent'.starts
    <2>1. CASE p = new  BY <1>3, <1>8, <2>1
    <2>2. CASE p # new
      <3>1. pairing[p].pc # "none"  BY <1>5, <1>6, <1>10, <2>2
      <3> QED  BY <1>2, <1>3, <1>8, <3>1 DEF new
    <2> QED  BY <2>1, <2>2
  <1>11. creds' # 0 => Settled(creds)'
    <2>1. creds # 0 => Settled(creds)  BY DEF Kept, Tokens
    <2> QED  BY <1>1, <1>9, <2>1 DEF Settled
  <1> QED  BY <1>1, <1>3, <1>6, <1>7, <1>9, <1>10, <1>11, ConnectingApart

\* A pairing that has not ended goes on.
LEMMA PairingGoes ==
  ASSUME Kept, NEW p \in Pairings, pairing[p].pc \notin {"none", "done"}, NEW row \in Pairing,
         pairing' = [pairing EXCEPT ![p] = row],
         current' \in {current, p, 0}, UNCHANGED <<work, dead, site, mu, op>>,
         spent' \in Spent, spent'.starts = spent.starts, spent'.others = spent.others,
         saved' \in {saved, [of |-> Nobody, rows |-> {}]}, account' \in Accounts \cup {Nobody},
         \/ creds' \in {creds, 0}
         \/ creds' = p /\ row.pc = "done" /\ row.answer \in Accounts
  PROVE  Kept'
  <1>1. /\ pairing \in [Pairings -> Pairing] /\ creds \in Pairings \cup {0}
        /\ \A q \in Pairings : pairing[q].pc # "none" => q <= spent.starts
        /\ creds # 0 => Settled(creds)
        /\ saved \in [of : Accounts \cup {Nobody}, rows : SUBSET Row] /\ OneEach(saved.rows)
    BY DEF Kept, Types, Tokens
  <1>2. /\ pairing' \in [Pairings -> Pairing] /\ pairing'[p] = row
        /\ \A q \in Pairings \ {p} : pairing'[q] = pairing[q]
    BY <1>1
  <1>3. saved' \in [of : Accounts \cup {Nobody}, rows : SUBSET Row] /\ OneEach(saved'.rows)
    BY <1>1 DEF OneEach
  <1>4. Types'  BY <1>1, <1>2, <1>3 DEF Kept, Types, work
  <1>5. \A q \in Pairings : Settled(q) => q # p  BY DEF Settled
  <1>6. \A q \in Pairings : Settled(q) => Settled(q)' /\ pairing'[q].answer = pairing[q].answer
    BY <1>2, <1>5 DEF Settled
  <1>7. \A q \in Pairings : pairing'[q].pc # "none" => q <= spent'.starts  BY <1>1, <1>2
  <1>8. creds' # 0 => Settled(creds)'
    <2>1. CASE creds' \in {creds, 0}
      <3>1. creds' # 0 => creds' = creds /\ Settled(creds) /\ creds \in Pairings  BY <1>1, <2>1 DEF Settled
      <3>2. creds' # 0 => pairing'[creds] = pairing[creds]  BY <1>2, <1>5, <3>1
      <3> QED  BY <3>1, <3>2 DEF Settled
    <2>2. CASE creds' = p /\ row.pc = "done" /\ row.answer \in Accounts  BY <1>2, <2>2 DEF Settled
    <2> QED  BY <2>1, <2>2
  <1> QED  BY <1>4, <1>6, <1>7, <1>8, ConnectingApart

\* A pairing starts, is answered, polled, fails or brings its token.
LEMMA PairingKeeps ==
  ASSUME Kept, NEW p \in Pairings, StartEnd(p) \/ Answer(p) \/ Poll(p) \/ Fail(p) \/ Approve(p)
  PROVE  Kept'
  <1> DEFINE old == pairing[p]
  <1>1. /\ old \in Pairing /\ pairing \in [Pairings -> Pairing] /\ spent \in Spent
        /\ account \in Accounts \cup {Nobody}
    BY DEF Kept, Types
  <1>2. Turn \/ NoTurn => spent' \in Spent /\ spent'.starts = spent.starts /\ spent'.others = spent.others
    BY TurnIs DEF Kept
  <1>3. UNCHANGED spent => spent' \in Spent /\ spent'.starts = spent.starts /\ spent'.others = spent.others
    BY <1>1
  <1> DEFINE waits == [old EXCEPT !.pc = "waiting"]
             done == [old EXCEPT !.pc = "done"]
             polled == [old EXCEPT !.pc = "polled", !.claimed = TRUE]
             claimed == [old EXCEPT !.claimed = TRUE]
             answer(x) == [old EXCEPT !.answer = x]
  <1>4. /\ waits \in Pairing /\ done \in Pairing /\ polled \in Pairing /\ claimed \in Pairing
        /\ done.pc = "done" /\ done.answer = old.answer
        /\ \A x \in Accounts \cup {"denied"} : answer(x) \in Pairing
    BY <1>1 DEF Pairing
  <1>5. CASE StartEnd(p)
    <2>1. /\ old.pc = "starting" /\ UNCHANGED <<work, creds, account, dead, site, saved, mu, op, spent>>
          /\ \/ pairing' = [pairing EXCEPT ![p] = waits] /\ current' = p
             \/ pairing' = [pairing EXCEPT ![p] = done] /\ current' = current
      BY <1>1, <1>5 DEF StartEnd
    <2> HIDE DEF waits, done
    <2> QED  BY <1>1, <1>3, <1>4, <2>1, PairingGoes
  <1>6. CASE Answer(p)
    <2>1. PICK x \in Accounts \cup {"denied"} : pairing' = [pairing EXCEPT ![p] = answer(x)]
      BY <1>1, <1>6 DEF Answer
    <2>2. old.pc = "waiting" /\ UNCHANGED <<work, creds, account, current, dead, site, saved, mu, op, spent>>
      BY <1>6 DEF Answer
    <2>3. answer(x) \in Pairing  BY <1>4
    <2> HIDE DEF answer
    <2> QED  BY <1>1, <1>3, <2>1, <2>2, <2>3, PairingGoes
  <1>7. CASE Poll(p)
    <2>1. /\ old.pc = "waiting" /\ UNCHANGED <<work, creds, account, current, dead, site, saved, mu, op>>
          /\ Turn \/ NoTurn
          /\ \/ pairing' = [pairing EXCEPT ![p] = polled]
             \/ pairing' = [pairing EXCEPT ![p] = claimed]
      BY <1>1, <1>7 DEF Poll
    <2> HIDE DEF polled, claimed
    <2> QED  BY <1>1, <1>2, <1>4, <2>1, PairingGoes
  <1>8. CASE Fail(p)
    <2>1. /\ old.pc \in {"waiting", "polled"} /\ current' \in {current, 0}
          /\ UNCHANGED <<work, creds, account, dead, site, saved, mu, op, spent>>
          /\ pairing' = [pairing EXCEPT ![p] = done]
      BY <1>1, <1>8 DEF Fail, Cleared
    <2> HIDE DEF done
    <2> QED  BY <1>1, <1>3, <1>4, <2>1, PairingGoes
  <1>9. CASE Approve(p)
    <2>1. /\ old.pc = "polled" /\ old.answer \in Accounts /\ pairing' = [pairing EXCEPT ![p] = done]
          /\ UNCHANGED <<work, dead, site, mu, op>> /\ current' \in {current, 0}
          /\ saved' \in {saved, [of |-> Nobody, rows |-> {}]} /\ creds' \in {creds, 0, p}
          /\ account' \in {account, old.answer}
      BY <1>1, <1>9 DEF Approve, Account
    <2>2. Turn \/ NoTurn  BY <1>9 DEF Approve, NoTurn
    <2> HIDE DEF done
    <2> QED  BY <1>1, <1>2, <1>4, <2>1, <2>2, PairingGoes
  <1> QED  BY <1>5, <1>6, <1>7, <1>8, <1>9

\* The token goes, and the attempt is stopped.
LEMMA DisconnectKeeps == ASSUME Kept, Disconnect PROVE Kept'
  <1>1. /\ Turn /\ pairing' = Stopped(current) /\ current' = 0 /\ creds' = 0 /\ account' = Nobody
        /\ UNCHANGED <<work, dead, site, saved, mu, op>>
    BY DEF Disconnect
  <1>2. spent' \in Spent /\ spent'.starts = spent.starts /\ spent'.others = spent.others
    BY <1>1, TurnIs DEF Kept
  <1>3. /\ pairing \in [Pairings -> Pairing] /\ current \in Pairings \cup {0}
        /\ \A p \in Pairings : pairing[p].pc # "none" => p <= spent.starts
    BY DEF Kept, Types, Tokens
  <1>4. /\ pairing' \in [Pairings -> Pairing]
        /\ \A p \in Pairings : /\ pairing'[p].answer = pairing[p].answer
                               /\ pairing[p].pc \in {"none", "done"} => pairing'[p] = pairing[p]
    BY <1>1, <1>3 DEF Stopped, Pairing
  <1>5. Types'  BY <1>1, <1>2, <1>4 DEF Kept, Types, work
  <1>6. \A p \in Pairings : Settled(p) => Settled(p)'  BY <1>4 DEF Settled
  <1>7. \A p \in Pairings : pairing'[p].pc # "none" => p <= spent'.starts  BY <1>2, <1>3, <1>4
  <1> QED  BY <1>1, <1>2, <1>4, <1>5, <1>6, <1>7, ConnectingApart

\* A dead token is still a settled one.
LEMMA RevokeKeeps == ASSUME Kept, Revoke PROVE Kept'
  <1>1. /\ Turn /\ creds # 0 /\ dead' = dead \cup {creds}
        /\ UNCHANGED <<work, creds, account, pairing, current, wanted, site, saved, mu, op>>
    BY DEF Revoke
  <1>2. spent' \in Spent /\ spent'.starts = spent.starts /\ spent'.others = spent.others
    BY <1>1, TurnIs DEF Kept
  <1>3. Types'  BY <1>1, <1>2 DEF Kept, Types, work
  <1>4. \A p \in Pairings : Settled(p) => Settled(p)'  BY <1>1 DEF Settled
  <1>5. creds' # 0 => Settled(creds)'  BY <1>1 DEF Kept, Tokens, Settled
  <1>6. \A p \in Pairings : pairing'[p].pc # "none" => p <= spent'.starts  BY <1>1, <1>2 DEF Kept, Tokens
  <1> QED  BY <1>1, <1>2, <1>3, <1>4, <1>5, <1>6, ConnectingApart

\* The outline changes; what a publish read of it under the lock does not.
LEMMA EditKeeps == ASSUME Kept, Edit PROVE Kept'
  <1>1. Turn /\ UNCHANGED <<marked, conn, site, saved, mu, op>>  BY DEF Edit
  <1>2. spent' \in Spent /\ spent'.starts = spent.starts /\ spent'.others = spent.others
    BY <1>1, TurnIs DEF Kept
  <1>3. outline \in Lists /\ text \in [Episodes -> 1..2]  BY DEF Kept, Types
  <1>4. outline' \in Lists /\ text' \in [Episodes -> 1..2]
    <2>1. CASE \E e \in ToSet(outline) : text' = [text EXCEPT ![e] = 2] /\ UNCHANGED outline
      <3>1. PICK e \in ToSet(outline) : text' = [text EXCEPT ![e] = 2] /\ UNCHANGED outline
        BY <2>1
      <3>2. text' \in [Episodes -> 1..2]
        <4>1. text \in [Episodes -> 1..2] /\ text' = [text EXCEPT ![e] = 2] /\ 2 \in 1..2  BY <1>3, <3>1
        <4> QED  BY <4>1
      <3> QED  BY <1>3, <3>1, <3>2
    <2>2. CASE \E i \in 1..Len(outline) - 1 :
                  outline' = [outline EXCEPT ![i] = outline[i + 1], ![i + 1] = outline[i]] /\ UNCHANGED text
      <3>1. PICK i \in 1..Len(outline) - 1 : outline' = Swapped(outline, i) /\ UNCHANGED text
        BY <2>2 DEF Swapped
      <3> QED  BY <1>3, <3>1, SwapsOnce
    <2>3. CASE \E i \in DOMAIN outline : outline' = RemoveAt(outline, i) /\ UNCHANGED text
      BY <1>3, <2>3, RemovesOnce
    <2> QED  BY <2>1, <2>2, <2>3 DEF Edit
  <1>5. Types'  BY <1>1, <1>2, <1>4 DEF Kept, Types, conn
  <1>6. \A p \in Pairings : Settled(p) => Settled(p)'  BY <1>1 DEF Settled, conn
  <1>7. creds' # 0 => Settled(creds)'  BY <1>1 DEF Kept, Tokens, Settled, conn
  <1>8. \A p \in Pairings : pairing'[p].pc # "none" => p <= spent'.starts  BY <1>1, <1>2 DEF Kept, Tokens, conn
  <1> QED  BY <1>1, <1>2, <1>5, <1>6, <1>7, <1>8, ConnectingApart DEF conn

\* Another device came between: no call knows the site's order any more.
LEMMA OtherKeeps == ASSUME Kept, Other PROVE Kept'
  <1>1. /\ spent' = [spent EXCEPT !.turns = @ + 1, !.others = @ + 1]
        /\ UNCHANGED <<work, conn, saved, mu, op>>
    BY DEF Other
  <1>2. spent \in Spent /\ site \in [Accounts -> Work]  BY DEF Kept, Types
  <1>3. /\ spent' \in Spent /\ spent'.starts = spent.starts /\ spent'.others = spent.others + 1
        /\ spent.others \in Nat
    <2>1. spent.turns \in Nat /\ spent.others \in Nat  BY <1>2 DEF Spent
    <2>2. spent.turns + 1 \in Nat /\ spent.others + 1 \in Nat  BY <2>1
    <2>3. spent' = [spent EXCEPT !.turns = spent.turns + 1, !.others = spent.others + 1]
      BY <1>1, <1>2 DEF Spent
    <2> QED  BY <1>2, <2>1, <2>2, <2>3 DEF Spent
  <1>4. site' \in [Accounts -> Work]
    <2>1. PICK a \in Accounts :
              \/ \E e \in Episodes \ ToSet(site[a].order) : site' = [site EXCEPT ![a].order = Append(@, e)]
              \/ \E i \in 1..Len(site[a].order) - 1 :
                    site' = [site EXCEPT ![a].order[i] = site[a].order[i + 1],
                                         ![a].order[i + 1] = site[a].order[i]]
      BY DEF Other
    <2> DEFINE s == site[a].order
               with(u) == [site[a] EXCEPT !.order = u]
    <2>2. site[a] \in Work /\ s \in Lists  BY <1>2 DEF Work
    <2>3. \A u \in Lists : with(u) \in Work  BY <2>2 DEF Work
    <2>4. ASSUME NEW e \in Episodes \ ToSet(s), site' = [site EXCEPT ![a].order = Append(@, e)]
          PROVE  site' \in [Accounts -> Work]
      <3>1. site' = [site EXCEPT ![a] = with(Append(s, e))]  BY <1>2, <2>4
      <3>2. with(Append(s, e)) \in Work  BY <2>2, <2>3, AppendsOnce
      <3> HIDE DEF with
      <3> QED  BY <1>2, <3>1, <3>2
    <2>5. ASSUME NEW i \in 1..Len(s) - 1,
                 site' = [site EXCEPT ![a].order[i] = s[i + 1], ![a].order[i + 1] = s[i]]
          PROVE  site' \in [Accounts -> Work]
      <3>1. site' = [site EXCEPT ![a] = with(Swapped(s, i))]  BY <1>2, <2>2, <2>5 DEF Swapped, Work
      <3>2. with(Swapped(s, i)) \in Work  BY <2>2, <2>3, SwapsOnce
      <3> HIDE DEF with
      <3> QED  BY <1>2, <3>1, <3>2
    <2> QED  BY <2>1, <2>4, <2>5
  <1>5. Types'  BY <1>1, <1>3, <1>4 DEF Kept, Types, work, conn
  <1>6. Tokens'  BY <1>1, <1>3 DEF Kept, Tokens, Settled, conn
  <1>7. ASSUME NEW t \in Calls PROVE Under(t)'
    <2>1. op'[t] = op[t] /\ Under(t) /\ op[t] \in CallT /\ mu' = mu  BY <1>1, CallIs
    <2>2. op[t].others \in Nat /\ op[t].others <= spent.others  BY <2>1 DEF Under, CallT
    <2>3. op[t].others < spent'.others /\ spent'.others # 0  BY <1>3, <2>2
    <2>4. op'[t].others # spent'.others /\ op'[t].others <= spent'.others  BY <1>3, <2>1, <2>2, <2>3
    <2> QED  BY <2>1, <2>3, <2>4 DEF Under
  <1> QED  BY <1>5, <1>6, <1>7 DEF Kept

\* Every step keeps it.
LEMMA KeptStays == Kept /\ [Next]_vars => Kept'
  <1> SUFFICES ASSUME Kept, [Next]_vars PROVE Kept'  OBVIOUS
  <1>1. CASE Connecting
    BY <1>1, StartBeginKeeps, DisconnectKeeps, RevokeKeeps, PairingKeeps DEF Connecting
  <1>2. ASSUME NEW t \in Calls, Call(t) PROVE Kept'  BY <1>2, CallStaysKept
  <1>3. CASE UNCHANGED vars
    <2>1. Types'  BY <1>3 DEF vars, work, conn, Kept, Types
    <2>2. UNCHANGED <<site, mu, op, creds, pairing, spent>>  BY <1>3 DEF vars, conn
    <2>3. \A p \in Pairings : Settled(p) => Settled(p)'  BY <2>2 DEF Settled
    <2>4. creds' # 0 => Settled(creds)'  BY <2>2 DEF Kept, Tokens, Settled
    <2>5. \A p \in Pairings : pairing'[p].pc # "none" => p <= spent'.starts  BY <2>2 DEF Kept, Tokens
    <2> QED  BY <2>1, <2>2, <2>3, <2>4, <2>5, ConnectingApart
  <1> QED  BY <1>1, <1>2, <1>3, EditKeeps, OtherKeeps DEF Next

\* An episode published while no other device came between has the place it belongs in,
\* next to what the writer sees around it; our own calls never take a number from each
\* other; and every value has its type (service.go: sendEpisode, desiredOrder, s.mu).
THEOREM NumbersRight == Spec => []Numbering
  <1>1. Spec => []Kept  BY KeptBegins, KeptStays, PTL DEF Spec
  <1> QED  BY <1>1, KeptIsNumbering, PTL
=============================================================================

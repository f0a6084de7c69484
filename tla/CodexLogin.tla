----------------------------- MODULE CodexLogin -----------------------------
(* Signing in to the writer's OpenAI account (internal/codexauth). A call of   *)
(* Start opens a listener and answers at once; the browser calls back on it,   *)
(* as often as it likes; the exchange that follows takes its own time; and     *)
(* meanwhile the writer may click again, sign out or quit. One action is one   *)
(* critical section: mu is taken and left within an action, fileMu is not.     *)
(*                                                                             *)
(* Left out: tokens, pages, ports. A callback with another attempt's state is  *)
(* refused and changes nothing.                                                *)
EXTENDS Naturals, FiniteSets

CONSTANTS
    MaxAttempts,    \* bound: calls of Start
    Together,       \* bound: calls of Start under way at one time
    Callbacks,      \* bound: requests the browser makes for one attempt
    MaxSignOuts     \* bound: calls of Logout

Attempts == 1 .. MaxAttempts    \* in the order Start was called
NoAttempt == 0
Requests == Attempts \X Callbacks

VARIABLES
    current,        \* Service.current: the attempt in flight
    lastFailure,    \* Service.lastFailure: whose failure it is
    credential,     \* auth.json: whose credential it holds
    fileMu,         \* Service.fileMu: who is inside
    start,          \* where each call of Start is
    listening,      \* the attempts whose listener is open
    request,        \* where each callback is
    signOut,        \* where Logout is, how often it was called,
    gone            \* and the attempts that were over when one succeeded

vars == <<current, lastFailure, credential, fileMu, start, listening, request, signOut, gone>>

-----------------------------------------------------------------------------
Init ==
    /\ current = NoAttempt /\ lastFailure = NoAttempt /\ credential = NoAttempt /\ fileMu = <<>>
    /\ start = [a \in Attempts |-> "idle"] /\ listening = {}
    /\ request = [r \in Requests |-> "none"]
    /\ signOut = [at |-> "idle", calls |-> 0] /\ gone = {}

StopUndrained == current' = NoAttempt /\ UNCHANGED listening

(* stopCurrent: whatever is in flight is dropped and its listener closed.      *)
StopCurrent ==
    /\ current' = NoAttempt
    /\ listening' = listening \ {current}

(* Start, in the order that keeps a dying attempt's failure off the new one:   *)
(* first the old attempt is dropped, then the recorded failure.                *)
UnderWay == {a \in Attempts : start[a] \in {"stopped", "clean", "bound"}}

Begin(a) ==
    /\ start[a] = "idle" /\ \A b \in Attempts : b < a => start[b] # "idle"
    /\ Cardinality(UnderWay) < Together
    /\ StopCurrent /\ start' = [start EXCEPT ![a] = "stopped"]
    /\ UNCHANGED <<lastFailure, credential, fileMu, request, signOut, gone>>

Clear(a) ==
    /\ start[a] = "stopped" /\ start' = [start EXCEPT ![a] = "clean"]
    /\ lastFailure' = NoAttempt
    /\ UNCHANGED <<current, credential, fileMu, listening, request, signOut, gone>>

(* Both registered ports may be taken: Start fails, and nothing is in flight.  *)
Listen(a) ==
    /\ start[a] = "clean"
    /\ \/ start' = [start EXCEPT ![a] = "bound"] /\ listening' = listening \cup {a}
       \/ start' = [start EXCEPT ![a] = "failed"] /\ UNCHANGED listening
    /\ UNCHANGED <<current, lastFailure, credential, fileMu, request, signOut, gone>>

Publish(a) ==
    /\ start[a] = "bound" /\ start' = [start EXCEPT ![a] = "answered"]
    /\ current' = a
    /\ UNCHANGED <<lastFailure, credential, fileMu, listening, request, signOut, gone>>

(* The login window closes. The attempt stays current, with nothing to call.   *)
WindowCloses(a) ==
    /\ a \in listening /\ start[a] = "answered" /\ listening' = listening \ {a}
    /\ UNCHANGED <<current, lastFailure, credential, fileMu, start, request, signOut, gone>>

-----------------------------------------------------------------------------
(* The callback.                                                               *)

Moves(r, from, to) == request[r] = from /\ request' = [request EXCEPT ![r] = to]

Arrive(r) ==
    /\ r[1] \in listening
    /\ Moves(r, "none", IF current = r[1] THEN "called" ELSE "over")
    /\ UNCHANGED <<current, lastFailure, credential, fileMu, start, listening, signOut, gone>>

RecordedAll(a) == a

(* recordAttemptFailure: a superseded attempt's failure is nobody's business.  *)
Recorded(a) == IF current = a THEN a ELSE lastFailure

(* The issuer sent the browser back with a refusal: the attempt is over.       *)
Declined(r) ==
    /\ Moves(r, "called", "stopping") /\ lastFailure' = Recorded(r[1])
    /\ UNCHANGED <<current, credential, fileMu, start, listening, signOut, gone>>

(* The exchange, up to thirty seconds of it. One that fails leaves the window  *)
(* open for another callback.                                                  *)
Exchange(r) ==
    /\ \/ Moves(r, "called", "exchanged") /\ UNCHANGED lastFailure
       \/ Moves(r, "called", "over") /\ lastFailure' = Recorded(r[1])
    /\ UNCHANGED <<current, credential, fileMu, start, listening, signOut, gone>>

(* storeCredential, under fileMu: still the attempt in flight?                 *)
AnyAttempt(a) == TRUE
StillCurrent(a) == current = a

Recheck(r) ==
    /\ fileMu = <<>>
    /\ IF StillCurrent(r[1]) THEN Moves(r, "exchanged", "writing") /\ fileMu' = r
                         ELSE Moves(r, "exchanged", "over") /\ UNCHANGED fileMu
    /\ UNCHANGED <<current, lastFailure, credential, start, listening, signOut, gone>>

StoreKept(r) ==
    \/ Moves(r, "writing", "stopping") /\ credential' = r[1] /\ fileMu' = <<>>
       /\ UNCHANGED <<current, lastFailure, start, listening, signOut, gone>>
    \/ Moves(r, "writing", "unwritten")
       /\ UNCHANGED <<current, lastFailure, credential, fileMu, start, listening, signOut, gone>>

Store(r) ==
    /\ fileMu' = <<>>
    /\ \/ Moves(r, "writing", "stopping") /\ credential' = r[1]
       \/ Moves(r, "writing", "unwritten") /\ UNCHANGED credential
    /\ UNCHANGED <<current, lastFailure, start, listening, signOut, gone>>

Unwritten(r) ==
    /\ Moves(r, "unwritten", "over") /\ lastFailure' = Recorded(r[1])
    /\ UNCHANGED <<current, credential, fileMu, start, listening, signOut, gone>>

(* stopAttempt, on a goroutine of its own: nothing, if the attempt has been    *)
(* replaced; otherwise the listener closes after it is no longer current.      *)
StopAttempt(r) ==
    /\ IF current = r[1] THEN Moves(r, "stopping", "draining") /\ current' = NoAttempt
                         ELSE Moves(r, "stopping", "over") /\ UNCHANGED current
    /\ UNCHANGED <<lastFailure, credential, fileMu, start, listening, signOut, gone>>

Drained(r) ==
    /\ Moves(r, "draining", "over") /\ listening' = listening \ {r[1]}
    /\ UNCHANGED <<current, lastFailure, credential, fileMu, start, signOut, gone>>

-----------------------------------------------------------------------------
(* Logout holds fileMu across its stop and its delete.                         *)
SignOut ==
    /\ signOut.at = "idle" /\ signOut.calls < MaxSignOuts /\ fileMu = <<>>
    /\ fileMu' = <<"logout">> /\ StopCurrent
    /\ signOut' = [at |-> "stopped", calls |-> signOut.calls + 1]
    /\ UNCHANGED <<lastFailure, credential, start, request, gone>>

Delete ==
    /\ signOut.at = "stopped"
    /\ signOut' = [signOut EXCEPT !.at = "idle"] /\ fileMu' = <<>>
    /\ \/ /\ credential' = NoAttempt
          /\ gone' = gone \cup {a \in Attempts : start[a] = "answered" /\ a # current}
       \/ UNCHANGED <<credential, gone>>
    /\ UNCHANGED <<current, lastFailure, start, listening, request>>

(* Service.Close, on the way out of the engine.                                *)
Close ==
    /\ current # NoAttempt /\ StopCurrent
    /\ UNCHANGED <<lastFailure, credential, fileMu, start, request, signOut, gone>>

-----------------------------------------------------------------------------
Starting(a) == Clear(a) \/ Listen(a) \/ Publish(a)
Handling(r) ==
    \/ Declined(r) \/ Exchange(r) \/ Recheck(r) \/ Store(r) \/ Unwritten(r)
    \/ StopAttempt(r) \/ Drained(r)

Next ==
    \/ \E a \in Attempts : Begin(a) \/ Starting(a) \/ WindowCloses(a)
    \/ \E r \in Requests : Arrive(r) \/ Handling(r)
    \/ SignOut \/ Delete \/ Close

Spec == Init /\ [][Next]_vars

(* Every window has its timeout, every exchange its own; the rest is local.    *)
FairSpec ==
    /\ Spec
    /\ \A a \in Attempts : WF_vars(Starting(a)) /\ WF_vars(WindowCloses(a))
    /\ \A r \in Requests : SF_vars(Handling(r))
    /\ WF_vars(Delete)

-----------------------------------------------------------------------------
TypeOK ==
    /\ current \in Attempts \cup {NoAttempt} /\ lastFailure \in Attempts \cup {NoAttempt}
    /\ credential \in Attempts \cup {NoAttempt}
    /\ fileMu \in {<<>>, <<"logout">>} \cup Requests
    /\ start \in [Attempts -> {"idle", "stopped", "clean", "bound", "failed", "answered"}]
    /\ listening \subseteq Attempts
    /\ request \in [Requests -> {"none", "called", "exchanged", "writing", "unwritten",
                                 "stopping", "draining", "over"}]
    /\ signOut \in [at : {"idle", "stopped"}, calls : 0 .. MaxSignOuts]
    /\ gone \subseteq Attempts

(* Status as the settings pane reads it.                                       *)
LoggedIn == credential # NoAttempt
LoginFailed == ~LoggedIn /\ lastFailure # NoAttempt

(* A credential never survives a sign-out that said it succeeded: no attempt   *)
(* answered before it leaves one behind afterwards, however late its exchange  *)
(* comes back (storeCredential and Logout under fileMu).                       *)
SignedOutForGood == credential \notin gone

(* An attempt that was replaced never puts its credential over the one of an   *)
(* attempt that came after it.                                                 *)
NewestWins == [][credential' # NoAttempt => credential' >= credential]_vars

(* A new attempt starts clean: what the pane reports as failed is never the    *)
(* failure of an attempt the one in flight replaced (Start's order, and the    *)
(* check in recordAttemptFailure).                                             *)
CleanSlate == current # NoAttempt /\ lastFailure # NoAttempt => lastFailure = current

(* No abandoned attempt holds a registered port: a listener belongs to the     *)
(* attempt in flight, to a Start about to answer, or to one being drained.     *)
NoStrayListener ==
    \A a \in listening :
        \/ a = current \/ start[a] = "bound"
        \/ \E c \in Callbacks : request[<<a, c>>] = "draining"

Quiet == listening = {} /\ \A r \in Requests : request[r] # "called"

(* Once nobody signs in any more, every listener is closed and every callback  *)
(* has been answered.                                                          *)
PortsComeBack == <>[]Quiet

=============================================================================

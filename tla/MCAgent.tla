------------------------------ MODULE MCAgent ------------------------------
(* The agent: two turns at one work, the first followed by both kinds of pass, *)
(* with one check of sample scenes beside them (AgentTurns), and the sign-in   *)
(* of the provider it talks to (CodexLogin). The two share no state: a         *)
(* behaviour is of one of them, which `part` names, and the other stands still.*)
EXTENDS AgentTurns

CONSTANTS t1, t2, s1, w1, g1, g2, MaxAttempts, Together, Callbacks, MaxSignOuts

(* The settings pane lets the writer click again once a call of Start has       *)
(* answered (ProviderSection.tsx: busy), so that one is under way at a time.   *)
ASSUME LoginLimits == MaxAttempts \in Nat /\ MaxSignOuts \in Nat /\ Together = 1

MCWorkOf == [c \in Callers |-> w1]
MCBudget == [c \in Callers |-> IF c = t2 THEN g2 ELSE g1]

VARIABLES part, current, lastFailure, credential, fileMu, start, listening, request, signOut, gone

Login == INSTANCE CodexLogin

loginVars == <<current, lastFailure, credential, fileMu, start, listening, request, signOut, gone>>
everything == <<vars, part, loginVars>>

Begins == part \in {"turns", "login"} /\ Init /\ Login!Init

Turn(A) == part = "turns" /\ A /\ UNCHANGED <<part, loginVars>>
SignIn(A) == part = "login" /\ A /\ UNCHANGED <<part, vars>>

(* What the fairness of AgentTurns!FairSpec and of CodexLogin!FairSpec implies, *)
(* each in its own behaviours: of several jobs, or attempts, that can go on,   *)
(* some one does.                                                              *)
Fair ==
    /\ WF_vars(part = "turns" /\ \E j \in Jobs : OwnStep(j))
    /\ WF_vars(part = "turns" /\ \E j \in Jobs : ComesBack(j))
    /\ WF_vars(part = "turns" /\ CancelAll) /\ WF_vars(part = "turns" /\ CloseReturns)
    /\ WF_loginVars(part = "login" /\ \E a \in Login!Attempts : Login!Starting(a))
    /\ WF_loginVars(part = "login" /\ \E a \in Login!Attempts : Login!WindowCloses(a))
    /\ \A r \in Login!Requests : SF_loginVars(part = "login" /\ Login!Handling(r))
    /\ WF_loginVars(part = "login" /\ Login!Delete)

Parts == Begins /\ [][Turn(Next) \/ SignIn(Login!Next)]_everything /\ Fair

(* A sign-out lasts until the next sign-in, the newest attempt wins, a success *)
(* leaves no older failure, and nobody listens for an attempt that is over     *)
(* (CodexLogin: SignedOutForGood, NewestWins, CleanSlate, NoStrayListener).    *)
SignInHolds ==
    /\ [](Login!TypeOK /\ Login!SignedOutForGood /\ Login!CleanSlate /\ Login!NoStrayListener)
    /\ Login!NewestWins

(* Close returns and leaves no session open (AgentTurns: CloseEnds), and every *)
(* listener is closed and every callback answered (CodexLogin: PortsComeBack). *)
EverythingEnds == <>[](Ended /\ Login!Quiet)

(* The second turn arrives where the first is not followed by both kinds of    *)
(* pass, or the first goes without one of them. What this cuts off, a call     *)
(* that arrives and a pass that is started, need not happen.                   *)
Bounds ==
    part = "turns" =>
        \/ pc[t2] = "idle"
        \/ \E k \in {"self", "after"} : pc[<<t1, k>>] = "idle"
=============================================================================

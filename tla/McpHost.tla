------------------------------ MODULE McpHost ------------------------------
(* The server outside agents connect to (internal/mcphost/host.go), the file   *)
(* that says where it is (discovery.go), and the calls that turn it on and off *)
(* (internal/engineapp/mcp_enabled.go). Several engines may have one home, and *)
(* each answers its calls at once. One action is what happens between taking a *)
(* lock and letting it go, or one change outside of it.                        *)
(*                                                                             *)
(* The file is opened, which empties it, and written in one step each, and it  *)
(* is looked at and removed in one step each, with other engines in between.   *)
(*                                                                             *)
(* Left out: consent, the tools, requests and their authorisation, a discovery *)
(* file that cannot be removed, process ids given out again, and whether a     *)
(* file that cannot be read is missing, empty or the mixture two writers leave.*)
EXTENDS Naturals, FiniteSets

CONSTANTS
    Engines, Callers, Ports,
    MaxCalls,       \* bound: calls, and changes of mode or port
    MaxFaults       \* bound: engines that stop dead, files not written, shutdowns that time out

None == "none"
NoFile == [pid |-> <<None, 0>>, port |-> None, token |-> 0, open |-> {}]

VARIABLES
    mode,           \* mcp_mode and mcp_port, as each engine has them
    server,         \* Host: what each engine believes it runs
    bound,          \* who listens at each port
    token,          \* the token in the secret store
    file,           \* mcp.json: what it says, nothing when it cannot be read, and who has it open
    pid,            \* the process each engine is, and whether it runs
    call,
    done,
    history         \* for the properties

vars == <<mode, server, bound, token, file, pid, call, done, history>>

Off == [running |-> FALSE, port |-> None, token |-> 0]
NoCall == [at |-> "idle"]
Free == [e \in Engines |-> [c \in Callers |-> NoCall]]
Quiet(e) == \A c \in Callers : call[e][c] = NoCall

Init ==
    /\ mode \in [Engines -> [on : BOOLEAN, port : Ports]]
    /\ server = [e \in Engines |-> Off] /\ bound = [p \in Ports |-> None]
    /\ token = 0 /\ file = NoFile
    /\ pid = [e \in Engines |-> [up |-> FALSE, number |-> 0]]
    /\ call = Free /\ done = [calls |-> 0, faults |-> 0]
    /\ history = [crossed |-> {}, unsaid |-> {}]

Counted == done.calls < MaxCalls /\ done' = [done EXCEPT !.calls = @ + 1]
Fault == done.faults < MaxFaults /\ done' = [done EXCEPT !.faults = @ + 1]
Onto(e, c, at) == [call EXCEPT ![e][c].at = at]
Over(e, c) == [call EXCEPT ![e][c] = NoCall]
Own(e) == <<e, pid[e].number>>
At(e, places) == \E c \in Callers : call[e][c].at \in places
Unlocked(e) == ~At(e, {"write"})       \* Start holds the lock until the file is written

-----------------------------------------------------------------------------
(* settings.set: what the writer chose, before the call that applies it.       *)
Choose(e, on, port) ==
    /\ pid[e].up /\ Counted /\ mode[e] # [on |-> on, port |-> port]
    /\ mode' = [mode EXCEPT ![e] = [on |-> on, port |-> port]]
    /\ UNCHANGED <<server, bound, token, file, pid, call, history>>

(* mcp.enable and mcp.disable both begin with Stop. What crosses another call  *)
(* is remembered.                                                              *)
Begin(e, c, kind) ==
    /\ pid[e].up /\ call[e][c] = NoCall /\ Counted
    /\ call' = [call EXCEPT ![e][c] =
            [at |-> IF kind = "regenerate" THEN "mint" ELSE "stop", kind |-> kind, srv |-> None]]
    /\ history' = IF Quiet(e) THEN [history EXCEPT !.crossed = @ \ {e}]
                  ELSE [history EXCEPT !.crossed = @ \cup {e}]
    /\ UNCHANGED <<mode, server, bound, token, file, pid>>

(* RegenerateToken: the new token is stored; a server that runs is restarted.  *)
Mint(e, c) ==
    /\ call[e][c].at = "mint" /\ token' = token + 1
    /\ call' = Onto(e, c, "cycle")
    /\ UNCHANGED <<mode, server, bound, file, pid, done, history>>

Cycle(e, c) ==
    /\ call[e][c].at = "cycle" /\ Unlocked(e)
    /\ call' = IF server[e].running THEN Onto(e, c, "stop") ELSE Over(e, c)
    /\ UNCHANGED <<mode, server, bound, token, file, pid, done, history>>

-----------------------------------------------------------------------------
(* Host.Stop, under its lock.                                                  *)
Stop(e, c) ==
    /\ call[e][c].at = "stop" /\ Unlocked(e)
    /\ server' = [server EXCEPT ![e] = Off]
    /\ call' = [call EXCEPT ![e][c].at = IF server[e].running THEN "look" ELSE "start",
                            ![e][c].srv = server[e].port]
    /\ UNCHANGED <<mode, bound, token, file, pid, done, history>>

RetractsAny(e) == TRUE

(* removeDiscoveryFile: not what can be read and names another process.        *)
Retracts(e) == file.pid[1] = None \/ file.pid = Own(e)

Look(e, c) ==
    /\ call[e][c].at = "look"
    /\ call' = Onto(e, c, IF Retracts(e) THEN "remove" ELSE "shutdown")
    /\ UNCHANGED <<mode, server, bound, token, file, pid, done, history>>

(* os.Remove takes whatever is there by then; who has it open keeps writing to *)
(* a file nobody finds.                                                        *)
Remove(e, c) ==
    /\ call[e][c].at = "remove" /\ call' = Onto(e, c, "shutdown")
    /\ file' = NoFile
    /\ UNCHANGED <<mode, server, bound, token, pid, done, history>>

(* Shutdown closes the listener at once, and may give up waiting for requests; *)
(* then Restart does not start again.                                          *)
Shutdown(e, c) ==
    /\ call[e][c].at = "shutdown"
    /\ bound' = [bound EXCEPT ![call[e][c].srv] = None]
    /\ \/ call' = Onto(e, c, "start") /\ UNCHANGED done
       \/ call' = Over(e, c) /\ Fault
    /\ UNCHANGED <<mode, server, token, file, pid, history>>

(* Start: the mode is read first, the rest is done under the lock.             *)
ReadMode(e, c) ==
    /\ call[e][c].at = "start"
    /\ call' = IF call[e][c].kind = "disable" \/ ~mode[e].on THEN Over(e, c) ELSE Onto(e, c, "listen")
    /\ UNCHANGED <<mode, server, bound, token, file, pid, done, history>>

StoredToken == IF token = 0 THEN 1 ELSE token

(* EnsureMCPToken: the stored one, or a first one.                             *)
Served(e) == [running |-> TRUE, port |-> mode[e].port, token |-> StoredToken]

(* The lock, the listener, and the file opened for writing: who else runs is   *)
(* no longer in it.                                                            *)
Listen(e, c) ==
    /\ call[e][c].at = "listen" /\ Unlocked(e)
    /\ IF server[e].running
       THEN call' = Over(e, c) /\ UNCHANGED <<server, bound, token, file, done, history>>
       ELSE /\ token' = StoredToken
            /\ IF bound[mode[e].port] # None
               THEN call' = Over(e, c) /\ UNCHANGED <<server, bound, file, done, history>>
               ELSE /\ server' = [server EXCEPT ![e] = Served(e)]
                    /\ bound' = [bound EXCEPT ![mode[e].port] = e]
                    /\ \/ /\ call' = Onto(e, c, "write")
                          /\ file' = [NoFile EXCEPT !.open = file.open \cup {e}]
                          /\ history' = [history EXCEPT !.unsaid =
                                @ \cup {d \in Engines \ {e} : server[d].running}]
                          /\ UNCHANGED done
                       \/ /\ call' = Over(e, c) /\ Fault /\ UNCHANGED file
                          /\ history' = [history EXCEPT !.unsaid = @ \cup {e}]
    /\ UNCHANGED <<mode, pid>>

(* What was opened is written, if it is still there, perhaps over what another *)
(* engine wrote, and that may leave a mixture. The lock goes.                  *)
Written(e) == [pid |-> Own(e), port |-> server[e].port, token |-> server[e].token,
               open |-> file.open \ {e}]
Empty(e) == [file EXCEPT !.pid = NoFile.pid, !.port = None, !.token = 0, !.open = @ \ {e}]
Removing(e) == \E d \in Engines \ {e} : At(d, {"remove"})

Unsaid(e, said) ==
    LET others == {d \in Engines \ {e} : server[d].running} IN
    [history EXCEPT !.unsaid = IF said THEN (@ \cup others) \ {e} ELSE @ \cup others \cup {e}]

WriteFile(e, c) ==
    /\ call[e][c].at = "write" /\ call' = Over(e, c)
    /\ \/ /\ e \in file.open /\ file' = Written(e)
          /\ history' = Unsaid(e, ~Removing(e)) /\ UNCHANGED done
       \/ /\ e \in file.open /\ file.pid[1] # None /\ file' = Empty(e)
          /\ history' = Unsaid(e, FALSE) /\ UNCHANGED done
       \/ /\ e \notin file.open /\ UNCHANGED <<file, done>>
          /\ history' = [history EXCEPT !.unsaid = @ \cup {e}]
       \/ /\ Fault /\ file' = [file EXCEPT !.open = @ \ {e}]
          /\ history' = [history EXCEPT !.unsaid = @ \cup {e}]
    /\ UNCHANGED <<mode, server, bound, token, pid>>

-----------------------------------------------------------------------------
(* An engine ends without a Stop, and one begins; it starts its server first.  *)
Die(e) ==
    /\ pid[e].up /\ Fault
    /\ pid' = [pid EXCEPT ![e].up = FALSE]
    /\ server' = [server EXCEPT ![e] = Off]
    /\ bound' = [p \in Ports |-> IF bound[p] = e THEN None ELSE bound[p]]
    /\ call' = [call EXCEPT ![e] = [c \in Callers |-> NoCall]]
    /\ file' = [file EXCEPT !.open = @ \ {e}]
    /\ UNCHANGED <<mode, token, history>>

Launch(e, c) ==
    /\ ~pid[e].up
    /\ pid' = [pid EXCEPT ![e] = [up |-> TRUE, number |-> @.number + 1]]
    /\ call' = [call EXCEPT ![e][c] = [at |-> "start", kind |-> "enable", srv |-> None]]
    /\ history' = [history EXCEPT !.crossed = @ \ {e}]
    /\ UNCHANGED <<mode, server, bound, token, file, done>>

-----------------------------------------------------------------------------
Step(e, c) ==
    \/ Mint(e, c) \/ Cycle(e, c) \/ Stop(e, c) \/ Look(e, c) \/ Remove(e, c) \/ Shutdown(e, c)
    \/ ReadMode(e, c) \/ Listen(e, c) \/ WriteFile(e, c)

Next ==
    \E e \in Engines :
        \/ \E on \in BOOLEAN, port \in Ports : Choose(e, on, port)
        \/ \E c \in Callers :
            \/ \E kind \in {"enable", "disable", "regenerate"} : Begin(e, c, kind)
            \/ Step(e, c) \/ Launch(e, c)
        \/ Die(e)

Spec == Init /\ [][Next]_vars
FairSpec == Spec /\ \A e \in Engines, c \in Callers : WF_vars(Step(e, c))

-----------------------------------------------------------------------------
(* No stale endpoint is advertised: what the file says of a process that runs  *)
(* and is not about to take it back, that process serves, there, with that     *)
(* token - whichever calls crossed and whatever failed.                        *)
NothingStale ==
    \A e \in Engines :
        file.pid = Own(e) /\ pid[e].up /\ ~At(e, {"look", "remove"}) =>
            /\ server[e] = [running |-> TRUE, port |-> file.port, token |-> file.token]
            /\ bound[file.port] = e

(* A server that runs is found: no engine that looks at the file takes back    *)
(* another's endpoint. Left out are a file that was not written, or that       *)
(* another engine's Start emptied or replaced, a file written after another    *)
(* engine looked and before it removed (LiveEndpointStays), and a start that   *)
(* crossed a stop of the same engine, which does take it back.                 *)
RunningIsFound ==
    \A e \in Engines :
        server[e].running /\ Quiet(e) /\ e \notin history.crossed \cup history.unsaid =>
            file.pid = Own(e)

Advertised == NothingStale /\ RunningIsFound

(* removeDiscoveryFile's comment: an engine that shuts down does not retract a *)
(* live server's endpoint. Not so: it looks first and removes later, and what  *)
(* another engine wrote in between goes.                                       *)
LiveEndpointStays ==
    [][\A d, e \in Engines, c \in Callers :
        Remove(d, c) /\ file.pid = Own(e) /\ server[e].running => d = e]_vars

=============================================================================

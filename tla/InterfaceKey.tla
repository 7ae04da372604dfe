---------------------------- MODULE InterfaceKey ----------------------------
(***************************************************************************)
(* The private key of a node's interface.  The desired configuration that  *)
(* a worker renders has no private key, and awg syncconf takes a missing   *)
(* key for an empty one.  So the key is put back on the way to the         *)
(* interface: by the worker, by the node agent, and by the CLI executor,   *)
(* from the running interface or, failing that, from the bootstrap config. *)
(* Of a configuration only its PrivateKey line is modelled.                *)
(***************************************************************************)
EXTENDS Integers

CONSTANTS
    Workers,     \* workers that apply the node, and retry
    Executors,   \* the executors in use: "local" CLI, "remote" node agent
    BootKeys,    \* what the bootstrap config may hold
    FaultKinds,  \* the faults that may happen
    MaxFaults    \* bound on the number of faults in a behaviour

(* "own": the key of the node row's public key.  "": no key, or no file.   *)
PrivateKeys == {"own", "foreign"}
Redacted == "(redacted)"
Key == PrivateKeys \cup {""}

ASSUME KeyAssumption ==
    /\ BootKeys \subseteq Key
    /\ Executors \subseteq {"local", "remote"}
    /\ FaultKinds \subseteq {"showconf", "down", "exec"} /\ MaxFaults \in Nat

VARIABLES
    executor,  \* what the workers use to reach the node
    boot,      \* key in the bootstrap config
    up, key,   \* the interface, and the key it runs with
    wk,        \* workers: where they are, key in their config and in the one on
               \* the node's side, and whether they have called InterfaceUp
    wire,      \* all that has been sent between control plane and node as a key
    faults     \* number of faults so far

vars == <<executor, boot, up, key, wk, wire, faults>>

(* Every variable holds a value of its type.  In particular the            *)
(* placeholder of a redacted config never becomes a key, neither on the    *)
(* interface nor in a config (PreserveInterfacePrivateKey).                *)
TypeOK ==
    /\ executor \in Executors /\ boot \in BootKeys
    /\ up \in BOOLEAN /\ key \in Key
    /\ wk \in [Workers -> [pc : {"idle", "retry", "show", "send", "keep", "set", "up", "dump"},
                           cfg : Key, sent : Key, second : BOOLEAN]]
    /\ wire \subseteq Key \cup {Redacted}
    /\ faults \in 0 .. MaxFaults

(* A worker between two applies, the last of which succeeded or failed.    *)
Rest(phase) == [pc |-> phase, cfg |-> "", sent |-> "", second |-> FALSE]

(* The interface is down, or runs with the node's key.                     *)
Init ==
    /\ executor \in Executors /\ boot \in BootKeys
    /\ up \in BOOLEAN /\ key = IF up THEN "own" ELSE ""
    /\ wk = [w \in Workers |-> Rest("idle")]
    /\ wire = {}
    /\ faults = 0

-----------------------------------------------------------------------------
Fault(kind) ==
    /\ kind \in FaultKinds
    /\ faults < MaxFaults
    /\ faults' = faults + 1

Becomes(w, local) == wk' = [wk EXCEPT ![w] = local]

(* Mutated form of PreserveInterfacePrivateKey: a placeholder is copied.   *)
PreserveInterfacePrivateKey_AnyValue(config, current) ==
    IF config = "" THEN current ELSE config

PreserveInterfacePrivateKey(config, current) ==
    IF config = "" /\ current # Redacted THEN current ELSE config

(* Mutated form of redactConfigSecrets: the line is left alone.            *)
redactConfigSecrets_None(conf) == conf

(* A line that is there gets the placeholder.                              *)
redactConfigSecrets(conf) == IF conf = "" THEN "" ELSE Redacted

(* awg showconf on the node: the key, if the interface is there.  It fails *)
(* on a missing interface, and may fail at any time; then no key is        *)
(* learnt.                                                                 *)
ShowConf(current) ==
    \/ up /\ current = key /\ UNCHANGED faults
    \/ ~up /\ current = "" /\ UNCHANGED faults
    \/ up /\ current = "" /\ Fault("showconf")

-----------------------------------------------------------------------------
(* applyNode.                                                              *)

(* render.Server without a private key, for a new job or to retry a failed *)
(* one.                                                                    *)
Apply(w) ==
    /\ wk[w].pc \in {"idle", "retry"}
    /\ Becomes(w, Rest("show"))
    /\ UNCHANGED <<executor, boot, up, key, wire, faults>>

(* preserveRuntimePrivateKey: through a node agent the worker sees a       *)
(* redacted config.                                                        *)
PreserveRuntime(w) ==
    LET shown(current) == IF executor = "remote" THEN redactConfigSecrets(current) ELSE current
        next(config) == [wk[w] EXCEPT !.pc = "send", !.cfg = config] IN
    /\ wk[w].pc = "show"
    /\ \/ /\ wk[w].cfg # ""
          /\ Becomes(w, next(wk[w].cfg))
          /\ UNCHANGED <<wire, faults>>
       \/ /\ wk[w].cfg = ""
          /\ \E current \in {key, ""} :
                /\ ShowConf(current)
                /\ Becomes(w, next(PreserveInterfacePrivateKey("", shown(current))))
                /\ wire' = IF executor = "remote" THEN wire \cup {shown(current)} ELSE wire
    /\ UNCHANGED <<executor, boot, up, key>>

(* syncConfHandler of the agent; a local executor is called directly.      *)
SendConf(w) ==
    LET next(config) == [wk[w] EXCEPT !.pc = "keep", !.sent = config] IN
    /\ wk[w].pc = "send"
    /\ \/ /\ executor = "local"
          /\ Becomes(w, next(wk[w].cfg))
          /\ UNCHANGED <<wire, faults>>
       \/ /\ executor = "remote"
          /\ wire' = wire \cup {wk[w].cfg}
          /\ \E current \in {key, ""} :
                /\ ShowConf(current)
                /\ Becomes(w, next(PreserveInterfacePrivateKey(wk[w].cfg, current)))
    /\ UNCHANGED <<executor, boot, up, key>>

(* Mutated form of preservePrivateKey: no bootstrap config.                *)
preservePrivateKey_NoFile(config, current) == PreserveInterfacePrivateKey(config, current)

(* CLIExecutor.preservePrivateKey.                                         *)
preservePrivateKey(config, current) ==
    PreserveInterfacePrivateKey(PreserveInterfacePrivateKey(config, current), boot)

PreserveOnNode(w) ==
    /\ wk[w].pc = "keep"
    /\ \E current \in {key, ""} :
          /\ ShowConf(current)
          /\ Becomes(w, [wk[w] EXCEPT !.pc = "set", !.sent = preservePrivateKey(@, current)])
    /\ UNCHANGED <<executor, boot, up, key, wire>>

(* Mutated form of Missing: the error of a missing interface is not known. *)
Missing_Unknown(w) == Rest("retry")

(* isMissingInterfaceError: the first time the interface is brought up,    *)
(* the second time the apply fails.                                        *)
Missing(w) == IF wk[w].second THEN Rest("retry") ELSE [wk[w] EXCEPT !.pc = "up"]

(* awg syncconf.                                                           *)
SyncConf(w) ==
    /\ wk[w].pc = "set"
    /\ IF up THEN key' = wk[w].sent /\ Becomes(w, [wk[w] EXCEPT !.pc = "dump"])
             ELSE UNCHANGED key /\ Becomes(w, Missing(w))
    /\ UNCHANGED <<executor, boot, up, wire, faults>>

(* InterfaceUp: nothing if the link is there, else awg-quick up of the     *)
(* bootstrap config, which fails without a file.                           *)
InterfaceUp(w) ==
    /\ wk[w].pc = "up"
    /\ IF up \/ boot # ""
       THEN /\ up' = TRUE
            /\ key' = IF up THEN key ELSE boot
            /\ Becomes(w, [wk[w] EXCEPT !.pc = "show", !.second = TRUE])
       ELSE Becomes(w, Rest("retry")) /\ UNCHANGED <<up, key>>
    /\ UNCHANGED <<executor, boot, wire, faults>>

(* ShowDump, and the comparison with the public key of the node row.       *)
Dump(w) ==
    /\ wk[w].pc = "dump"
    /\ Becomes(w, Rest(IF up /\ key = "own" THEN "idle" ELSE "retry"))
    /\ UNCHANGED <<executor, boot, up, key, wire, faults>>

Step(w) ==
    Apply(w) \/ PreserveRuntime(w) \/ SendConf(w) \/ PreserveOnNode(w)
        \/ SyncConf(w) \/ InterfaceUp(w) \/ Dump(w)

(* The interface goes: host restart, InterfaceDown.                        *)
InterfaceDown ==
    /\ Fault("down")
    /\ up
    /\ up' = FALSE /\ key' = ""
    /\ UNCHANGED <<executor, boot, wk, wire>>

(* A command fails before it has changed the interface, or the worker      *)
(* dies: the apply is retried.                                             *)
ApplyFails(w) ==
    /\ Fault("exec")
    /\ wk[w].pc \notin {"idle", "retry"}
    /\ Becomes(w, Rest("retry"))
    /\ UNCHANGED <<executor, boot, up, key, wire>>

Next == InterfaceDown \/ \E w \in Workers : Step(w) \/ ApplyFails(w)

Spec == Init /\ [][Next]_vars

(* An apply under way goes on and a failed one is retried; nobody promises *)
(* a new one.                                                              *)
FairSpec == Spec /\ \A w \in Workers : WF_vars(wk[w].pc # "idle" /\ Step(w))

-----------------------------------------------------------------------------
(* No apply takes the node's key away from a running interface, whatever   *)
(* showconf calls fail and however applies and restarts interleave         *)
(* (preserveRuntimePrivateKey, syncConfHandler, preservePrivateKey).       *)
KeyIsKept == [][up /\ key = "own" /\ up' => key' = "own"]_vars

(* A private key never passes between node and control plane               *)
(* (redactConfigSecrets; the config a worker sends has none).              *)
KeyStaysOnNode == wire \cap PrivateKeys = {}

(* An apply succeeds in the end, also on a missing interface, and then the *)
(* interface answers with the key of the node row (applyNode).             *)
ApplySucceeds == \A w \in Workers : wk[w].pc # "idle" ~> wk[w].pc = "idle"

=============================================================================

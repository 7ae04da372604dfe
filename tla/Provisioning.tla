---------------------------- MODULE Provisioning ----------------------------
(***************************************************************************)
(* How nodes come into being: every starting API process seeds a blank     *)
(* database (RunIfEmpty, one statement at a time), and an operator adds    *)
(* parallel nodes with a command (ProvisionV31Node, one transaction under  *)
(* an advisory lock).  Both also write the interface's bootstrap config,   *)
(* which holds the private key that belongs to the node row's public key:  *)
(* rows and files carry the process that made them, which stands for the   *)
(* key pair it generated.                                                  *)
(***************************************************************************)
EXTENDS Integers

CONSTANTS
    Apis,        \* API processes, restarted when they exit
    Commands,    \* provisioning commands
    Options,     \* what a command may ask for: [profile, hostname, iface, port, cidr]
    Defaults,    \* what RunIfEmpty seeds, of the same form
    None,
    FaultKinds,  \* the faults that may happen
    MaxFaults    \* bound on the number of faults in a behaviour

(* A cidr is the set of address blocks it covers.                          *)
ASSUME ProvisioningAssumption ==
    /\ \A o \in Options \cup {Defaults} :
          DOMAIN o = {"profile", "hostname", "iface", "port", "cidr"}
    /\ Apis \cap Commands = {} /\ None \notin Apis \cup Commands \cup Options
    /\ FaultKinds \subseteq {"crash", "abort", "ambiguous"} /\ MaxFaults \in Nat

VARIABLES
    tenant,    \* whether the tenants table has a row
    profiles,  \* protocol_profiles: [name, by]
    nodes,     \* vpn_nodes: [hostname, iface, port, by]
    pools,     \* address_pools: [cidr, by]
    files,     \* bootstrap config of each interface: who wrote it, or None
    api,       \* where each API process is
    cmd,       \* where each command is, and its options
    lock,      \* holder of the advisory lock
    faults     \* number of faults so far

rows == <<tenant, profiles, nodes, pools>>
vars == <<rows, files, api, cmd, lock, faults>>

Makers == Apis \cup Commands
Ifaces == {o.iface : o \in Options \cup {Defaults}}

(* Every variable holds a value of its type; the lock is held by a command *)
(* inside its transaction and by no other (ProvisionV31Node).              *)
TypeOK ==
    /\ tenant \in BOOLEAN
    /\ \A x \in profiles \cup nodes \cup pools : x.by \in Makers
    /\ files \in [Ifaces -> Makers \cup {None}]
    /\ api \in [Apis -> {"down", "inspect", "tenant", "profile", "node", "pool", "conf", "serving"}]
    /\ cmd \in [Commands -> [pc : {"idle", "lock", "ensure", "insert", "write", "commit",
                                   "cleanup", "done", "failed", "dead"},
                             opts : Options \cup {None}]]
    /\ lock \in Commands \cup {None}
    /\ \A c \in Commands : lock = c <=> cmd[c].pc \in {"ensure", "insert", "write", "commit"}
    /\ faults \in 0 .. MaxFaults

Init ==
    /\ tenant = FALSE /\ profiles = {} /\ nodes = {} /\ pools = {}
    /\ files = [i \in Ifaces |-> None]
    /\ api = [b \in Apis |-> "down"]
    /\ cmd = [c \in Commands |-> [pc |-> "idle", opts |-> None]]
    /\ lock = None
    /\ faults = 0

Profile(o, by) == [name |-> o.profile, by |-> by]
Node(o, by) == [hostname |-> o.hostname, iface |-> o.iface, port |-> o.port, by |-> by]
AddressPool(o, by) == [cidr |-> o.cidr, by |-> by]

(* A command has inserted rows and not committed them: an insert of the    *)
(* same unique value, its profile name or hostname, waits for it.          *)
Uncommitted(column, o) ==
    \E c \in Commands :
        cmd[c].pc \in {"write", "commit"} /\ cmd[c].opts[column] = o[column]

ProfileTaken(o) == \E x \in profiles : x.name = o.profile
HostnameTaken(o) == \E x \in nodes : x.hostname = o.hostname

-----------------------------------------------------------------------------
(* RunIfEmpty.  Each statement commits by itself.  An error ends the       *)
(* process, which is then started again.                                   *)

StartApi(b) ==
    /\ api[b] = "down"
    /\ api' = [api EXCEPT ![b] = "inspect"]
    /\ UNCHANGED <<rows, files, cmd, lock, faults>>

Inspect(b) ==
    /\ api[b] = "inspect"
    /\ api' = [api EXCEPT ![b] = IF tenant THEN "serving" ELSE "tenant"]
    /\ UNCHANGED <<rows, files, cmd, lock, faults>>

UpsertTenant(b) ==
    /\ api[b] = "tenant"
    /\ tenant' = TRUE
    /\ api' = [api EXCEPT ![b] = "profile"]
    /\ UNCHANGED <<profiles, nodes, pools, files, cmd, lock, faults>>

SeedProfile(b) ==
    /\ api[b] = "profile" /\ ~Uncommitted("profile", Defaults)
    /\ IF ProfileTaken(Defaults)
       THEN api' = [api EXCEPT ![b] = "down"] /\ UNCHANGED profiles
       ELSE /\ profiles' = profiles \cup {Profile(Defaults, b)}
            /\ api' = [api EXCEPT ![b] = "node"]
    /\ UNCHANGED <<tenant, nodes, pools, files, cmd, lock, faults>>

SeedNode(b) ==
    /\ api[b] = "node" /\ ~Uncommitted("hostname", Defaults)
    /\ IF HostnameTaken(Defaults)
       THEN api' = [api EXCEPT ![b] = "down"] /\ UNCHANGED nodes
       ELSE /\ nodes' = nodes \cup {Node(Defaults, b)}
            /\ api' = [api EXCEPT ![b] = "pool"]
    /\ UNCHANGED <<tenant, profiles, pools, files, cmd, lock, faults>>

SeedPool(b) ==
    /\ api[b] = "pool"
    /\ pools' = pools \cup {AddressPool(Defaults, b)}
    /\ api' = [api EXCEPT ![b] = "conf"]
    /\ UNCHANGED <<tenant, profiles, nodes, files, cmd, lock, faults>>

(* writeBootstrapConf overwrites what is there.                            *)
WriteConf(b) ==
    /\ api[b] = "conf"
    /\ files' = [files EXCEPT ![Defaults.iface] = b]
    /\ api' = [api EXCEPT ![b] = "serving"]
    /\ UNCHANGED <<rows, cmd, lock, faults>>

ApiStep(b) ==
    StartApi(b) \/ Inspect(b) \/ UpsertTenant(b) \/ SeedProfile(b) \/ SeedNode(b)
        \/ SeedPool(b) \/ WriteConf(b)

-----------------------------------------------------------------------------
(* ProvisionV31Node.                                                       *)

Goto(c, label) == cmd' = [cmd EXCEPT ![c].pc = label]

(* What validateV31NodeOptions asks of the options modelled.               *)
validateV31NodeOptions(o) == o.port \in 1 .. 65535

(* The options must be valid and the tenant must exist.                    *)
Run(c, o) ==
    LET accepted == validateV31NodeOptions(o) /\ tenant IN
    /\ cmd[c].pc = "idle"
    /\ cmd' = [cmd EXCEPT ![c] = [pc |-> IF accepted THEN "lock" ELSE "failed", opts |-> o]]
    /\ UNCHANGED <<rows, files, api, lock, faults>>

(* pg_advisory_xact_lock.                                                  *)
TakeLock(c) ==
    /\ cmd[c].pc = "lock" /\ lock = None
    /\ lock' = c
    /\ Goto(c, "ensure")
    /\ UNCHANGED <<rows, files, api, faults>>

(* Mutated form of Rollback: the transaction stays open.                   *)
Rollback_KeepsLock(c, label) ==
    Goto(c, label) /\ UNCHANGED <<rows, files, api, lock>>

(* The transaction ends without effect, and releases the lock it holds.    *)
Rollback(c, label) ==
    /\ lock' = IF lock = c THEN None ELSE lock
    /\ Goto(c, label)
    /\ UNCHANGED <<rows, files, api>>

(* Mutated form of InUse: the port is not compared.                        *)
InUse_AnyPort(o) ==
    \/ ProfileTaken(o) \/ HostnameTaken(o)
    \/ \E x \in nodes : x.iface = o.iface
    \/ \E x \in pools : x.cidr \cap o.cidr # {}

InUse(o) ==
    \/ ProfileTaken(o) \/ HostnameTaken(o)
    \/ \E x \in nodes : x.iface = o.iface \/ x.port = o.port
    \/ \E x \in pools : x.cidr \cap o.cidr # {}

Ensure(c) ==
    /\ cmd[c].pc = "ensure"
    /\ IF InUse(cmd[c].opts)
       THEN Rollback(c, "failed")
       ELSE Goto(c, "insert") /\ UNCHANGED <<rows, files, api, lock>>
    /\ UNCHANGED faults

(* Profile, node and pool; seen by others once committed.                  *)
InsertRows(c) ==
    /\ cmd[c].pc = "insert"
    /\ IF ProfileTaken(cmd[c].opts) \/ HostnameTaken(cmd[c].opts)
       THEN Rollback(c, "failed")
       ELSE Goto(c, "write") /\ UNCHANGED <<rows, files, api, lock>>
    /\ UNCHANGED faults

(* Mutated form of WriteExclusive: an existing file is overwritten.        *)
WriteExclusive_Overwrites(c) ==
    /\ cmd[c].pc = "write"
    /\ files' = [files EXCEPT ![cmd[c].opts.iface] = c]
    /\ Goto(c, "commit")
    /\ UNCHANGED <<rows, api, lock, faults>>

(* writeBootstrapConfigExclusive: O_CREATE and O_EXCL.                     *)
WriteExclusive(c) ==
    LET i == cmd[c].opts.iface IN
    /\ cmd[c].pc = "write"
    /\ IF files[i] # None
       THEN Rollback(c, "failed")
       ELSE /\ files' = [files EXCEPT ![i] = c]
            /\ Goto(c, "commit")
            /\ UNCHANGED <<rows, api, lock>>
    /\ UNCHANGED faults

Inserted(c) ==
    LET o == cmd[c].opts IN
    /\ profiles' = profiles \cup {Profile(o, c)}
    /\ nodes' = nodes \cup {Node(o, c)}
    /\ pools' = pools \cup {AddressPool(o, c)}
    /\ lock' = None

Commit(c) ==
    /\ cmd[c].pc = "commit"
    /\ Inserted(c)
    /\ Goto(c, "done")
    /\ UNCHANGED <<tenant, files, api, faults>>

(* Mutated form of Cleanup: nothing is removed.                            *)
Cleanup_Keeps(c) ==
    /\ cmd[c].pc = "cleanup"
    /\ Goto(c, "failed")
    /\ UNCHANGED <<rows, files, api, lock, faults>>

(* os.Remove of the config path, after the transaction has ended and the   *)
(* lock is free again.                                                     *)
Cleanup(c) ==
    /\ cmd[c].pc = "cleanup"
    /\ files' = [files EXCEPT ![cmd[c].opts.iface] = None]
    /\ Goto(c, "failed")
    /\ UNCHANGED <<rows, api, lock, faults>>

CommandStep(c) ==
    TakeLock(c) \/ Ensure(c) \/ InsertRows(c) \/ WriteExclusive(c) \/ Commit(c) \/ Cleanup(c)

-----------------------------------------------------------------------------
(* Faults.                                                                 *)
Fault(kind) ==
    /\ kind \in FaultKinds
    /\ faults < MaxFaults
    /\ faults' = faults + 1

(* An API process dies, or a statement of RunIfEmpty fails.                *)
CrashApi(b) ==
    /\ Fault("crash")
    /\ api[b] # "down"
    /\ api' = [api EXCEPT ![b] = "down"]
    /\ UNCHANGED <<rows, files, cmd, lock>>

(* A command dies: its transaction is rolled back, its file stays.         *)
CrashCommand(c) ==
    /\ Fault("crash")
    /\ cmd[c].pc \notin {"idle", "done", "failed", "dead"}
    /\ Rollback(c, "dead")

(* A statement or the commit fails and the transaction is rolled back; a   *)
(* failed write removes its own file.                                      *)
Abort(c) ==
    /\ Fault("abort")
    /\ \/ cmd[c].pc \in {"lock", "ensure", "insert", "write"} /\ Rollback(c, "failed")
       \/ cmd[c].pc = "commit" /\ Rollback(c, "cleanup")

(* The commit takes effect but its confirmation is lost.                   *)
CommitLost(c) ==
    /\ Fault("ambiguous")
    /\ cmd[c].pc = "commit"
    /\ Inserted(c)
    /\ Goto(c, "cleanup")
    /\ UNCHANGED <<tenant, files, api>>

Next ==
    \/ \E b \in Apis : ApiStep(b) \/ CrashApi(b)
    \/ \E c \in Commands :
          \/ \E o \in Options : Run(c, o)
          \/ CommandStep(c) \/ CrashCommand(c) \/ Abort(c) \/ CommitLost(c)

Spec == Init /\ [][Next]_vars

(* Processes that can go on do, and API processes are started again.       *)
FairSpec ==
    /\ Spec
    /\ \A b \in Apis : WF_vars(ApiStep(b))
    /\ \A c \in Commands : WF_vars(CommandStep(c))

-----------------------------------------------------------------------------
(* Simultaneous operator commands never both claim an interface, a UDP     *)
(* port, or overlapping pools (the advisory lock and                       *)
(* ensureV31ProvisioningAvailable).                                        *)
NothingShared ==
    \A c, d \in Commands : c # d =>
        /\ \A x, y \in nodes : x.by = c /\ y.by = d => x.iface # y.iface /\ x.port # y.port
        /\ \A x, y \in pools : x.by = c /\ y.by = d => x.cidr \cap y.cidr = {}

(* A node whose command succeeded has the config file with its own private *)
(* key, and no node's interface has a config with the key of another:      *)
(* neither a competing process nor the clean-up of a failed one replaces   *)
(* or removes it (writeBootstrapConfigExclusive, os.Remove, RunIfEmpty).   *)
NodeHasConfig ==
    /\ \A c \in Commands : cmd[c].pc = "done" => files[cmd[c].opts.iface] = c
    /\ \A x \in nodes : files[x.iface] \in {x.by, None}

(* A command that reports failure has left no config file: a later command *)
(* for the interface is not refused because of it (ProvisionV31Node).      *)
FailureLeavesNoFile ==
    \A c \in Commands : cmd[c].pc = "failed" => \A i \in Ifaces : files[i] # c

(* All that RunIfEmpty seeds is there, and the node's config has the       *)
(* node's own key.                                                         *)
Seeded ==
    \E b \in Apis :
        /\ Profile(Defaults, b) \in profiles
        /\ Node(Defaults, b) \in nodes
        /\ AddressPool(Defaults, b) \in pools
        /\ files[Defaults.iface] = b

(* A blank database gets its default profile, node, pool and config,       *)
(* however many API processes start at once, and keeps them (RunIfEmpty).  *)
DatabaseGetsSeeded == <>[]Seeded

=============================================================================

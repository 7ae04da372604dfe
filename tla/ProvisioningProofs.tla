------------------------- MODULE ProvisioningProofs -------------------------
(***************************************************************************)
(* Operators' commands never share an interface, a port or an address, and *)
(* rows and config files stay together, for any number of commands and API *)
(* processes, whatever crashes or is lost on the way.                      *)
(*                                                                         *)
(* What the properties say of committed rows has to be known of a command  *)
(* before it commits: from its check on, while it holds the lock, no row   *)
(* of another command conflicts with what it is about to insert (Clear).   *)
(***************************************************************************)
EXTENDS Provisioning, TLAPS

Labels == {"idle", "lock", "ensure", "insert", "write", "commit",
           "cleanup", "done", "failed", "dead"}
Checked == {"insert", "write", "commit"}   \* past the check, and not committed
Locking == Checked \cup {"ensure"}
Ended == {"cleanup", "done", "failed", "dead"}
Kept == {"commit", "cleanup", "done", "dead"}  \* the file it wrote may be there

(* A command that was started has options.                                 *)
Asked == \A c \in Commands : cmd[c].pc # "idle" => cmd[c].opts \in Options

(* The rows of a command are those it was asked for, and it has ended.     *)
RowsAreAsked ==
    /\ \A x \in nodes : x.by \in Commands =>
          x = Node(cmd[x.by].opts, x.by) /\ cmd[x.by].pc \in Ended
    /\ \A x \in pools : x.by \in Commands =>
          x = AddressPool(cmd[x.by].opts, x.by) /\ cmd[x.by].pc \in Ended

(* What a command has checked stays so until it ends.                      *)
Clear ==
    \A c \in Commands : cmd[c].pc \in Checked =>
        /\ \A x \in nodes : x.by \in Commands =>
              x.iface # cmd[c].opts.iface /\ x.port # cmd[c].opts.port
        /\ \A x \in pools : x.by \in Commands => x.cidr \cap cmd[c].opts.cidr = {}

(* A command writes the file of its own interface only, and one that fails *)
(* has removed it.                                                         *)
FilesAreAsked ==
    \A i \in Ifaces : files[i] \in Commands =>
        cmd[files[i]].opts.iface = i /\ cmd[files[i]].pc \in Kept

IInv == TypeOK /\ Asked /\ RowsAreAsked /\ Clear /\ FilesAreAsked /\ NothingShared

-----------------------------------------------------------------------------
(* A command's place changes, and nothing else of any command (the         *)
(* statements of ProvisionV31Node).                                        *)
LEMMA GotoType ==
    ASSUME TypeOK, NEW c \in Commands, NEW label \in Labels, Goto(c, label)
    PROVE  /\ cmd' \in [Commands -> [pc : Labels, opts : Options \cup {None}]]
           /\ cmd'[c].pc = label /\ cmd'[c].opts = cmd[c].opts
           /\ \A d \in Commands \ {c} : cmd'[d] = cmd[d]
BY DEF TypeOK, Goto, Labels

(* TypeOK from its parts, when the rows and the API processes stay.        *)
LEMMA LockType ==
    ASSUME TypeOK, NEW c \in Commands, NEW label \in Labels, Goto(c, label),
           UNCHANGED <<rows, files, api>>, faults' \in 0 .. MaxFaults,
           \/ lock' = lock /\ (label \in Locking <=> cmd[c].pc \in Locking)
           \/ lock' = None /\ lock \in {c, None} /\ label \notin Locking
           \/ lock' = c /\ lock = None /\ label \in Locking
    PROVE  TypeOK'
<1>1. /\ cmd' \in [Commands -> [pc : Labels, opts : Options \cup {None}]]
      /\ cmd'[c].pc = label
      /\ \A d \in Commands \ {c} : cmd'[d] = cmd[d]
  BY GotoType
<1>2. \A d \in Commands : lock = d <=> cmd[d].pc \in Locking
  BY DEF TypeOK, Locking, Checked
<1>3. None \notin Commands /\ lock \in Commands \cup {None}
  BY ProvisioningAssumption DEF TypeOK
<1>4. \A d \in Commands : lock' = d <=> cmd'[d].pc \in Locking
  BY <1>1, <1>2, <1>3
<1>5. lock' \in Commands \cup {None}
  BY <1>3
<1> QED BY <1>1, <1>4, <1>5 DEF TypeOK, rows, Labels, Locking, Checked

(* A step that moves one command and writes nothing keeps the invariant,   *)
(* if the command does not come back from its end, and enters the checked  *)
(* part only with nothing in use (the statements of ProvisionV31Node).     *)
LEMMA MoveInv ==
    ASSUME IInv, NEW c \in Commands, NEW label \in Labels, Goto(c, label), TypeOK',
           cmd[c].pc # "idle", nodes' = nodes, pools' = pools, files' = files,
           cmd[c].pc \in Ended => label \in Ended,
           cmd[c].pc \in Kept => label \in Kept,
           label \in Checked => cmd[c].pc \in Checked \/ ~InUse(cmd[c].opts)
    PROVE  IInv'
<1>0. TypeOK /\ Asked /\ RowsAreAsked /\ Clear /\ FilesAreAsked /\ NothingShared
  BY DEF IInv
<1>1. /\ cmd'[c].pc = label /\ cmd'[c].opts = cmd[c].opts
      /\ \A d \in Commands \ {c} : cmd'[d] = cmd[d]
  BY <1>0, GotoType
<1>2. \A d \in Commands : cmd'[d].opts = cmd[d].opts
  BY <1>1
<1>3. Asked'
  BY <1>0, <1>1 DEF Asked
<1>4. RowsAreAsked'
  <2>1. \A d \in Commands : cmd[d].pc \in Ended => cmd'[d].pc \in Ended
    BY <1>1
  <2> QED BY <1>0, <1>2, <2>1 DEF RowsAreAsked, Node, AddressPool
<1>5. Clear'
  <2>1. cmd'[c].pc \in Checked /\ cmd[c].pc \notin Checked =>
          /\ \A x \in nodes : x.iface # cmd[c].opts.iface /\ x.port # cmd[c].opts.port
          /\ \A x \in pools : x.cidr \cap cmd[c].opts.cidr = {}
    BY <1>1 DEF InUse
  <2>2. \A d \in Commands \ {c} : cmd'[d].pc = cmd[d].pc
    BY <1>1
  <2> QED BY <1>0, <1>2, <2>1, <2>2 DEF Clear
<1>6. FilesAreAsked'
  <2>1. \A d \in Commands : cmd[d].pc \in Kept => cmd'[d].pc \in Kept
    BY <1>1
  <2> QED BY <1>0, <1>2, <2>1 DEF FilesAreAsked
<1>7. NothingShared'
  BY <1>0 DEF NothingShared
<1> QED BY <1>3, <1>4, <1>5, <1>6, <1>7 DEF IInv

(* A rolled back transaction leaves nothing, whatever it had done, and the *)
(* lock to others (the deferred Rollback of WithTx).                       *)
LEMMA RollbackInv ==
    ASSUME IInv, NEW c \in Commands, NEW label \in {"failed", "dead", "cleanup"}, Rollback(c, label),
           cmd[c].pc # "idle", faults' \in 0 .. MaxFaults,
           label = "failed" => cmd[c].pc \notin Kept
    PROVE  IInv'
<1>0. TypeOK /\ label \in Labels /\ label \notin Locking /\ label \notin Checked /\ label \in Ended
  BY DEF IInv, Labels, Locking, Checked, Ended
<1>1. lock = c \/ (lock # c /\ cmd[c].pc \notin Locking)
  BY <1>0 DEF TypeOK, Locking, Checked
<1>2. Goto(c, label) /\ UNCHANGED <<rows, files, api>> /\ lock' = IF lock = c THEN None ELSE lock
  BY DEF Rollback
<1>3. TypeOK'
  BY <1>0, <1>1, <1>2, LockType
<1>4. cmd[c].pc \in Kept => label \in Kept
  BY DEF Kept
<1> QED BY <1>0, <1>2, <1>3, <1>4, MoveInv DEF rows

-----------------------------------------------------------------------------
(* Each step of a command keeps the invariant (ProvisionV31Node).          *)
LEMMA RunInv ==
    ASSUME IInv, NEW c \in Commands, NEW o \in Options, Run(c, o)
    PROVE  IInv'
<1>0. TypeOK /\ Asked /\ RowsAreAsked /\ Clear /\ FilesAreAsked /\ NothingShared
  BY DEF IInv
<1>1. PICK label \in {"lock", "failed"} : cmd' = [cmd EXCEPT ![c] = [pc |-> label, opts |-> o]]
  BY DEF Run
<1>2. /\ cmd' \in [Commands -> [pc : Labels, opts : Options \cup {None}]]
      /\ cmd'[c].pc = label /\ cmd'[c].opts = o
      /\ \A d \in Commands \ {c} : cmd'[d] = cmd[d]
  BY <1>0, <1>1 DEF TypeOK, Labels
<1>3. cmd[c].pc = "idle" /\ UNCHANGED <<rows, files, api, lock, faults>>
  BY DEF Run
<1>4. TypeOK'
  <2>1. \A d \in Commands : lock' = d <=> cmd'[d].pc \in {"ensure", "insert", "write", "commit"}
    BY <1>0, <1>2, <1>3 DEF TypeOK
  <2> QED BY <1>0, <1>2, <1>3, <2>1 DEF TypeOK, rows, Labels
<1>5. Asked'
  BY <1>0, <1>2 DEF Asked
<1>6. RowsAreAsked'
  <2>1. \A d \in Commands : cmd[d].pc \in Ended => cmd'[d] = cmd[d]
    BY <1>2, <1>3 DEF Ended
  <2> QED BY <1>0, <1>3, <2>1 DEF RowsAreAsked, Node, AddressPool, rows
<1>7. Clear'
  <2>1. \A d \in Commands : cmd'[d].pc \in Checked => cmd'[d] = cmd[d]
    BY <1>2 DEF Checked
  <2> QED BY <1>0, <1>3, <2>1 DEF Clear, rows
<1>8. FilesAreAsked'
  <2>1. \A d \in Commands : cmd[d].pc \in Kept => cmd'[d] = cmd[d]
    BY <1>2, <1>3 DEF Kept
  <2> QED BY <1>0, <1>3, <2>1 DEF FilesAreAsked
<1>9. NothingShared'
  BY <1>0, <1>3 DEF NothingShared, rows
<1> QED BY <1>4, <1>5, <1>6, <1>7, <1>8, <1>9 DEF IInv

(* See RunInv.                                                             *)
LEMMA TakeLockInv ==
    ASSUME IInv, NEW c \in Commands, TakeLock(c)
    PROVE  IInv'
<1>1. /\ TypeOK /\ "ensure" \in Labels /\ "ensure" \in Locking /\ "ensure" \notin Checked
      /\ cmd[c].pc \notin Ended \cup Kept /\ cmd[c].pc # "idle"
  BY DEF TakeLock, IInv, Labels, Locking, Checked, Ended, Kept
<1>2. Goto(c, "ensure") /\ UNCHANGED <<rows, files, api>> /\ lock' = c /\ lock = None
  BY DEF TakeLock
<1>3. faults' \in 0 .. MaxFaults
  BY <1>1 DEF TakeLock, TypeOK
<1>4. TypeOK'
  BY <1>1, <1>2, <1>3, LockType
<1> QED BY <1>1, <1>2, <1>4, MoveInv DEF rows

(* See RunInv; the check itself, under the lock                            *)
(* (ensureV31ProvisioningAvailable).                                       *)
LEMMA EnsureInv ==
    ASSUME IInv, NEW c \in Commands, Ensure(c)
    PROVE  IInv'
<1>1. /\ TypeOK /\ "insert" \in Labels \cap Locking /\ cmd[c].pc \in Locking
      /\ cmd[c].pc \notin Ended \cup Kept /\ cmd[c].pc # "idle"
  BY DEF Ensure, IInv, Labels, Locking, Checked, Ended, Kept
<1>2. faults' \in 0 .. MaxFaults
  BY <1>1 DEF Ensure, TypeOK
<1>3. CASE InUse(cmd[c].opts)
  BY <1>1, <1>2, <1>3, RollbackInv DEF Ensure
<1>4. CASE ~InUse(cmd[c].opts)
  <2>1. Goto(c, "insert") /\ UNCHANGED <<rows, files, api, lock>>
    BY <1>4 DEF Ensure
  <2>2. TypeOK'
    BY <1>1, <1>2, <2>1, LockType
  <2> QED BY <1>1, <1>4, <2>1, <2>2, MoveInv DEF rows
<1> QED BY <1>3, <1>4

(* See RunInv.                                                             *)
LEMMA InsertRowsInv ==
    ASSUME IInv, NEW c \in Commands, InsertRows(c)
    PROVE  IInv'
<1>1. /\ TypeOK /\ "write" \in Labels \cap Locking /\ cmd[c].pc \in Locking \cap Checked
      /\ cmd[c].pc \notin Ended \cup Kept /\ cmd[c].pc # "idle"
  BY DEF InsertRows, IInv, Labels, Locking, Checked, Ended, Kept
<1>2. faults' \in 0 .. MaxFaults
  BY <1>1 DEF InsertRows, TypeOK
<1>3. CASE Rollback(c, "failed")
  BY <1>1, <1>2, <1>3, RollbackInv
<1>4. CASE Goto(c, "write") /\ UNCHANGED <<rows, files, api, lock>>
  <2>1. TypeOK'
    BY <1>1, <1>2, <1>4, LockType
  <2> QED BY <1>1, <1>4, <2>1, MoveInv DEF rows
<1> QED BY <1>3, <1>4 DEF InsertRows

(* See RunInv; the file is the command's own                               *)
(* (writeBootstrapConfigExclusive).                                        *)
LEMMA WriteExclusiveInv ==
    ASSUME IInv, NEW c \in Commands, WriteExclusive(c)
    PROVE  IInv'
<1> DEFINE i == cmd[c].opts.iface
<1>0. TypeOK /\ Asked /\ RowsAreAsked /\ Clear /\ FilesAreAsked /\ NothingShared
  BY DEF IInv
<1>1. /\ cmd[c].pc = "write" /\ faults' = faults /\ faults' \in 0 .. MaxFaults
      /\ cmd[c].opts \in Options
  BY <1>0 DEF WriteExclusive, TypeOK, Asked
<1>2. CASE files[i] # None
  BY <1>1, <1>2, RollbackInv DEF WriteExclusive, Kept
<1>3. CASE files[i] = None
  <2>1. files' = [files EXCEPT ![i] = c] /\ Goto(c, "commit") /\ UNCHANGED <<rows, api, lock>>
    BY <1>3 DEF WriteExclusive
  <2>2. /\ cmd' \in [Commands -> [pc : Labels, opts : Options \cup {None}]]
        /\ cmd'[c].pc = "commit" /\ cmd'[c].opts = cmd[c].opts
        /\ \A d \in Commands \ {c} : cmd'[d] = cmd[d]
    BY <1>0, <2>1, GotoType DEF Labels
  <2>3. TypeOK'
    <3>1. files' \in [Ifaces -> Makers \cup {None}]
      BY <1>0, <2>1 DEF TypeOK, Makers
    <3>2. \A d \in Commands : lock' = d <=> cmd'[d].pc \in {"ensure", "insert", "write", "commit"}
      BY <1>0, <1>1, <2>1, <2>2 DEF TypeOK
    <3> QED BY <1>0, <1>1, <2>1, <2>2, <3>1, <3>2 DEF TypeOK, rows, Labels
  <2>4. /\ \A d \in Commands : cmd'[d].opts = cmd[d].opts
        /\ \A d \in Commands : cmd'[d].pc \in Checked => cmd[d].pc \in Checked
        /\ \A d \in Commands : cmd[d].pc \in Ended => cmd'[d].pc \in Ended
        /\ \A d \in Commands : cmd[d].pc \in Kept => cmd'[d].pc \in Kept
    BY <1>1, <2>2 DEF Checked, Ended, Kept
  <2>5. Asked'
    BY <1>0, <1>1, <2>2 DEF Asked
  <2>6. RowsAreAsked'
    BY <1>0, <2>1, <2>4 DEF RowsAreAsked, Node, AddressPool, rows
  <2>7. Clear'
    BY <1>0, <2>1, <2>4 DEF Clear, rows
  <2>8. FilesAreAsked'
    <3> SUFFICES ASSUME NEW j \in Ifaces, files'[j] \in Commands
                 PROVE  cmd'[files'[j]].opts.iface = j /\ cmd'[files'[j]].pc \in Kept
      BY DEF FilesAreAsked
    <3>1. CASE j = i
      BY <1>0, <2>1, <2>2, <3>1 DEF TypeOK, Kept
    <3>2. CASE j # i
      BY <1>0, <2>1, <2>4, <3>2 DEF TypeOK, FilesAreAsked
    <3> QED BY <3>1, <3>2
  <2>9. NothingShared'
    BY <1>0, <2>1 DEF NothingShared, rows
  <2> QED BY <2>3, <2>5, <2>6, <2>7, <2>8, <2>9 DEF IInv
<1> QED BY <1>2, <1>3

(* See RunInv; what is inserted was checked, and the lock kept everyone    *)
(* else from inserting since.                                              *)
LEMMA InsertedInv ==
    ASSUME IInv, NEW c \in Commands, NEW label \in {"done", "cleanup"}, cmd[c].pc = "commit",
           Inserted(c), Goto(c, label), UNCHANGED <<tenant, files, api>>, faults' \in 0 .. MaxFaults
    PROVE  IInv'
<1> DEFINE o == cmd[c].opts
<1>0. TypeOK /\ Asked /\ RowsAreAsked /\ Clear /\ FilesAreAsked /\ NothingShared
  BY DEF IInv
<1>1. /\ cmd' \in [Commands -> [pc : Labels, opts : Options \cup {None}]]
      /\ cmd'[c].pc = label /\ cmd'[c].opts = o
      /\ \A d \in Commands \ {c} : cmd'[d] = cmd[d]
  BY <1>0, GotoType DEF Labels
<1>2. /\ profiles' = profiles \cup {Profile(o, c)} /\ nodes' = nodes \cup {Node(o, c)}
      /\ pools' = pools \cup {AddressPool(o, c)} /\ lock' = None
  BY DEF Inserted
<1>3. /\ Profile(o, c).by = c
      /\ Node(o, c).by = c /\ Node(o, c).iface = o.iface /\ Node(o, c).port = o.port
      /\ AddressPool(o, c).by = c /\ AddressPool(o, c).cidr = o.cidr
  BY DEF Profile, Node, AddressPool
<1>4. \A d \in Commands : cmd'[d].pc \notin Locking
  BY <1>0, <1>1 DEF TypeOK, Locking, Checked
<1>5. TypeOK'
  <2>1. \A x \in profiles' \cup nodes' \cup pools' : x.by \in Makers
    BY <1>0, <1>2, <1>3 DEF TypeOK, Makers
  <2>2. \A d \in Commands : lock' = d <=> cmd'[d].pc \in {"ensure", "insert", "write", "commit"}
    BY <1>2, <1>4, ProvisioningAssumption DEF Locking, Checked
  <2>3. lock' \in Commands \cup {None}
    BY <1>2
  <2> QED BY <1>0, <1>1, <2>1, <2>2, <2>3 DEF TypeOK, Labels
<1>6. Asked'
  BY <1>0, <1>1 DEF Asked
<1>7. RowsAreAsked'
  <2>1. \A d \in Commands : cmd'[d].opts = cmd[d].opts /\ (cmd[d].pc \in Ended => cmd'[d].pc \in Ended)
    BY <1>1 DEF Ended
  <2>2. cmd'[c].pc \in Ended
    BY <1>1 DEF Ended
  <2>3. \A x \in nodes' : x.by \in Commands =>
          x = Node(cmd'[x.by].opts, x.by) /\ cmd'[x.by].pc \in Ended
    BY <1>0, <1>2, <1>3, <2>1, <2>2 DEF RowsAreAsked
  <2>4. \A x \in pools' : x.by \in Commands =>
          x = AddressPool(cmd'[x.by].opts, x.by) /\ cmd'[x.by].pc \in Ended
    BY <1>0, <1>2, <1>3, <2>1, <2>2 DEF RowsAreAsked
  <2> QED BY <2>3, <2>4 DEF RowsAreAsked, Node, AddressPool
<1>8. Clear'
  BY <1>4 DEF Clear, Locking
<1>9. FilesAreAsked'
  <2>1. \A d \in Commands : cmd'[d].opts = cmd[d].opts /\ (cmd[d].pc \in Kept => cmd'[d].pc \in Kept)
    BY <1>1 DEF Kept
  <2> QED BY <1>0, <2>1 DEF FilesAreAsked
<1>10. NothingShared'
  <2>0. /\ \A x \in nodes : x.by \in Commands => x.iface # o.iface /\ x.port # o.port
        /\ \A x \in pools : x.by \in Commands => x.cidr \cap o.cidr = {}
    BY <1>0 DEF Clear, Checked
  <2> SUFFICES ASSUME NEW d \in Commands, NEW e \in Commands, d # e
               PROVE  /\ \A x, y \in nodes' : x.by = d /\ y.by = e => x.iface # y.iface /\ x.port # y.port
                      /\ \A x, y \in pools' : x.by = d /\ y.by = e => x.cidr \cap y.cidr = {}
    BY DEF NothingShared
  <2>1. ASSUME NEW x \in nodes', NEW y \in nodes', x.by = d, y.by = e
        PROVE  x.iface # y.iface /\ x.port # y.port
    <3>1. CASE x \in nodes /\ y \in nodes
      BY <1>0, <2>1, <3>1 DEF NothingShared
    <3>2. CASE x = Node(o, c) \/ y = Node(o, c)
      BY <1>2, <1>3, <2>0, <2>1, <3>2
    <3> QED BY <1>2, <3>1, <3>2
  <2>2. ASSUME NEW x \in pools', NEW y \in pools', x.by = d, y.by = e
        PROVE  x.cidr \cap y.cidr = {}
    <3>1. CASE x \in pools /\ y \in pools
      BY <1>0, <2>2, <3>1 DEF NothingShared
    <3>2. CASE x = AddressPool(o, c) \/ y = AddressPool(o, c)
      BY <1>2, <1>3, <2>0, <2>2, <3>2
    <3> QED BY <1>2, <3>1, <3>2
  <2> QED BY <2>1, <2>2
<1> QED BY <1>5, <1>6, <1>7, <1>8, <1>9, <1>10 DEF IInv

(* See RunInv; the clean-up removes the file of the command's interface,   *)
(* without the lock.                                                       *)
LEMMA CleanupInv ==
    ASSUME IInv, NEW c \in Commands, Cleanup(c)
    PROVE  IInv'
<1> DEFINE i == cmd[c].opts.iface
<1>0. TypeOK /\ Asked /\ RowsAreAsked /\ Clear /\ FilesAreAsked /\ NothingShared
  BY DEF IInv
<1>1. /\ cmd[c].pc = "cleanup" /\ files' = [files EXCEPT ![i] = None] /\ Goto(c, "failed")
      /\ UNCHANGED <<rows, api, lock, faults>>
  BY DEF Cleanup
<1>2. /\ cmd' \in [Commands -> [pc : Labels, opts : Options \cup {None}]]
      /\ cmd'[c].pc = "failed" /\ cmd'[c].opts = cmd[c].opts
      /\ \A d \in Commands \ {c} : cmd'[d] = cmd[d]
  BY <1>0, <1>1, GotoType DEF Labels
<1>3. TypeOK'
  <2>1. files' \in [Ifaces -> Makers \cup {None}]
    BY <1>0, <1>1 DEF TypeOK
  <2>2. \A d \in Commands : lock' = d <=> cmd'[d].pc \in {"ensure", "insert", "write", "commit"}
    BY <1>0, <1>1, <1>2 DEF TypeOK
  <2> QED BY <1>0, <1>1, <1>2, <2>1, <2>2 DEF TypeOK, rows, Labels
<1>4. /\ \A d \in Commands : cmd'[d].opts = cmd[d].opts
      /\ \A d \in Commands : cmd'[d].pc \in Checked => cmd[d].pc \in Checked
      /\ \A d \in Commands : cmd[d].pc \in Ended => cmd'[d].pc \in Ended
  BY <1>1, <1>2 DEF Checked, Ended
<1>5. Asked'
  BY <1>0, <1>1, <1>2 DEF Asked
<1>6. RowsAreAsked'
  BY <1>0, <1>1, <1>4 DEF RowsAreAsked, Node, AddressPool, rows
<1>7. Clear'
  BY <1>0, <1>1, <1>4 DEF Clear, rows
<1>8. FilesAreAsked'
  <2> SUFFICES ASSUME NEW j \in Ifaces, files'[j] \in Commands
               PROVE  cmd'[files'[j]].opts.iface = j /\ cmd'[files'[j]].pc \in Kept
    BY DEF FilesAreAsked
  <2>1. j # i /\ files'[j] = files[j]
    BY <1>0, <1>1, ProvisioningAssumption DEF TypeOK
  <2>2. cmd[files[j]].opts.iface = j /\ cmd[files[j]].pc \in Kept
    BY <1>0, <2>1 DEF FilesAreAsked
  <2>3. files[j] # c
    BY <2>1, <2>2
  <2> QED BY <1>2, <2>1, <2>2, <2>3
<1>9. NothingShared'
  BY <1>0, <1>1 DEF NothingShared, rows
<1> QED BY <1>3, <1>5, <1>6, <1>7, <1>8, <1>9 DEF IInv

(* See RunInv; each step of a command, and each fault in it.               *)
LEMMA CommandInv ==
    ASSUME IInv, NEW c \in Commands,
           CommandStep(c) \/ CrashCommand(c) \/ Abort(c) \/ CommitLost(c)
    PROVE  IInv'
<1>0. TypeOK
  BY DEF IInv
<1>1. \A kind : Fault(kind) => faults' \in 0 .. MaxFaults
  BY <1>0, ProvisioningAssumption DEF TypeOK, Fault
<1>2. CASE CommandStep(c)
  <2>1. CASE Commit(c)
    <3>1. faults' \in 0 .. MaxFaults
      BY <1>0, <2>1 DEF Commit, TypeOK
    <3> QED BY <2>1, <3>1, InsertedInv DEF Commit
  <2> QED BY <1>2, <2>1, TakeLockInv, EnsureInv, InsertRowsInv, WriteExclusiveInv, CleanupInv
          DEF CommandStep
<1>3. CASE CrashCommand(c)
  BY <1>1, <1>3, RollbackInv DEF CrashCommand
<1>4. CASE Abort(c)
  BY <1>1, <1>4, RollbackInv DEF Abort, Kept
<1>5. CASE CommitLost(c)
  BY <1>1, <1>5, InsertedInv DEF CommitLost
<1> QED BY <1>2, <1>3, <1>4, <1>5

-----------------------------------------------------------------------------
(* A step that leaves the commands and their rows alone, and writes no     *)
(* file in their name, keeps the invariant.                                *)
LEMMA OthersInv ==
    ASSUME IInv, TypeOK', cmd' = cmd,
           \A x \in nodes' : x.by \in Commands => x \in nodes,
           \A x \in pools' : x.by \in Commands => x \in pools,
           \A i \in Ifaces : files'[i] \in Commands => files'[i] = files[i]
    PROVE  IInv'
<1>0. Asked /\ RowsAreAsked /\ Clear /\ FilesAreAsked /\ NothingShared
  BY DEF IInv
<1>1. Asked'
  BY <1>0 DEF Asked
<1>2. RowsAreAsked'
  BY <1>0 DEF RowsAreAsked, Node, AddressPool
<1>3. Clear'
  BY <1>0 DEF Clear
<1>4. FilesAreAsked'
  BY <1>0 DEF FilesAreAsked
<1>5. NothingShared'
  BY <1>0 DEF NothingShared
<1> QED BY <1>1, <1>2, <1>3, <1>4, <1>5 DEF IInv

(* The types of what an API process changes: its place, the rows, one file *)
(* (RunIfEmpty).                                                           *)
LEMMA ApiType ==
    ASSUME TypeOK, NEW b \in Apis, ApiStep(b) \/ CrashApi(b)
    PROVE  TypeOK'
<1> DEFINE Places == {"down", "inspect", "tenant", "profile", "node", "pool", "conf", "serving"}
<1>1. cmd' = cmd /\ lock' = lock
  BY DEF ApiStep, StartApi, Inspect, UpsertTenant, SeedProfile, SeedNode, SeedPool, WriteConf, CrashApi
<1>2. \E place \in Places : api' = [api EXCEPT ![b] = place]
  BY DEF ApiStep, StartApi, Inspect, UpsertTenant, SeedProfile, SeedNode, SeedPool, WriteConf, CrashApi
<1>3. api' \in [Apis -> Places]
  BY <1>2 DEF TypeOK
<1>4. tenant' \in BOOLEAN
  BY DEF TypeOK, ApiStep, StartApi, Inspect, UpsertTenant, SeedProfile, SeedNode, SeedPool,
         WriteConf, CrashApi, rows
<1>5. files' \in [Ifaces -> Makers \cup {None}]
  BY DEF TypeOK, ApiStep, StartApi, Inspect, UpsertTenant, SeedProfile, SeedNode, SeedPool,
         WriteConf, CrashApi, Makers, Ifaces
<1>6. faults' \in 0 .. MaxFaults
  <2>1. faults' = faults \/ Fault("crash")
    BY DEF ApiStep, StartApi, Inspect, UpsertTenant, SeedProfile, SeedNode, SeedPool, WriteConf, CrashApi
  <2> QED BY <2>1, ProvisioningAssumption DEF TypeOK, Fault
<1>7. /\ \A x \in profiles' : x \in profiles \/ x = Profile(Defaults, b)
      /\ \A x \in nodes' : x \in nodes \/ x = Node(Defaults, b)
      /\ \A x \in pools' : x \in pools \/ x = AddressPool(Defaults, b)
  BY DEF ApiStep, StartApi, Inspect, UpsertTenant, SeedProfile, SeedNode, SeedPool, WriteConf,
         CrashApi, rows
<1>8. Profile(Defaults, b).by = b /\ Node(Defaults, b).by = b /\ AddressPool(Defaults, b).by = b
  BY DEF Profile, Node, AddressPool
<1>9. \A x \in profiles' \cup nodes' \cup pools' : x.by \in Makers
  BY <1>7, <1>8 DEF TypeOK, Makers
<1> QED BY <1>1, <1>3, <1>4, <1>5, <1>6, <1>9 DEF TypeOK

(* Each step of an API process, and its crash, keeps the invariant: what   *)
(* it writes is its own (RunIfEmpty).                                      *)
LEMMA ApiInv ==
    ASSUME IInv, NEW b \in Apis, ApiStep(b) \/ CrashApi(b)
    PROVE  IInv'
<1>0. TypeOK /\ TypeOK' /\ b \notin Commands
  BY ApiType, ProvisioningAssumption DEF IInv
<1>1. cmd' = cmd
  BY DEF ApiStep, StartApi, Inspect, UpsertTenant, SeedProfile, SeedNode, SeedPool, WriteConf, CrashApi
<1>2. \A x \in nodes' : x.by \in Commands => x \in nodes
  BY <1>0 DEF ApiStep, StartApi, Inspect, UpsertTenant, SeedProfile, SeedNode, SeedPool, WriteConf,
              CrashApi, rows, Node
<1>3. \A x \in pools' : x.by \in Commands => x \in pools
  BY <1>0 DEF ApiStep, StartApi, Inspect, UpsertTenant, SeedProfile, SeedNode, SeedPool, WriteConf,
              CrashApi, rows, AddressPool
<1>4. \A i \in Ifaces : files'[i] \in Commands => files'[i] = files[i]
  <2>1. files' = files \/ files' = [files EXCEPT ![Defaults.iface] = b]
    BY DEF ApiStep, StartApi, Inspect, UpsertTenant, SeedProfile, SeedNode, SeedPool, WriteConf, CrashApi
  <2> QED BY <1>0, <2>1 DEF TypeOK
<1> QED BY <1>0, <1>1, <1>2, <1>3, <1>4, OthersInv

(* The invariant holds of a blank database.                                *)
LEMMA InitInv ==
    ASSUME Init
    PROVE  IInv
<1>1. TypeOK
  <2>1. faults \in 0 .. MaxFaults
    BY ProvisioningAssumption DEF Init
  <2>2. /\ tenant \in BOOLEAN /\ files \in [Ifaces -> Makers \cup {None}]
        /\ cmd \in [Commands -> [pc : Labels, opts : Options \cup {None}]]
    BY DEF Init, Labels
  <2> QED BY <2>1, <2>2, ProvisioningAssumption DEF Init, TypeOK, Labels
<1>2. Asked /\ Clear
  BY DEF Init, Asked, Clear, Checked
<1>3. RowsAreAsked /\ NothingShared
  BY DEF Init, RowsAreAsked, NothingShared
<1>4. FilesAreAsked
  BY ProvisioningAssumption DEF Init, FilesAreAsked
<1> QED BY <1>1, <1>2, <1>3, <1>4 DEF IInv

(* Every step keeps the invariant.                                         *)
LEMMA NextInv ==
    ASSUME IInv, [Next]_vars
    PROVE  IInv'
<1>1. CASE Next
  BY <1>1, ApiInv, RunInv, CommandInv DEF Next
<1>2. CASE UNCHANGED vars
  <2>1. TypeOK'
    BY <1>2 DEF IInv, TypeOK, vars, rows
  <2> QED BY <1>2, <2>1, OthersInv DEF vars, rows
<1> QED BY <1>1, <1>2

(* The invariant holds in every state.                                     *)
THEOREM Invariant == Spec => []IInv
<1>1. Init => IInv
  BY InitInv
<1>2. IInv /\ [Next]_vars => IInv'
  BY NextInv
<1> QED BY <1>1, <1>2, PTL DEF Spec

(* Every variable holds a value of its type, and the advisory lock is held *)
(* by the command inside its transaction and by no other                   *)
(* (ProvisionV31Node).                                                     *)
THEOREM TypeCorrect == Spec => []TypeOK
<1>1. IInv => TypeOK
  BY DEF IInv
<1> QED BY <1>1, Invariant, PTL

(* However many commands run at once, and whatever is aborted, dies or     *)
(* commits without its confirmation: no two of them claim an interface, a  *)
(* UDP port or overlapping pools (ensureV31ProvisioningAvailable under the *)
(* advisory lock).                                                         *)
THEOREM CommandsShareNothing == Spec => []NothingShared
<1>1. IInv => NothingShared
  BY DEF IInv
<1> QED BY <1>1, Invariant, PTL

(* A command that reports failure has left no config file, whichever step  *)
(* failed (the clean-up of ProvisionV31Node, the exclusive create).        *)
THEOREM FailuresLeaveNoFile == Spec => []FailureLeavesNoFile
<1>1. IInv => FailureLeavesNoFile
  BY DEF IInv, FilesAreAsked, FailureLeavesNoFile, Kept
<1> QED BY <1>1, Invariant, PTL

-----------------------------------------------------------------------------
(* Rows and files.  RunIfEmpty overwrites the file of the interface it     *)
(* seeds, and a command for that interface that runs before the seed's     *)
(* node row is there passes the check: operators name other interfaces.    *)
OwnInterfaces == \A o \in Options : o.iface # Defaults.iface

Written == {"commit", "cleanup", "done"}

(* A command has the file that it wrote, until it removes it.              *)
HasFile == \A c \in Commands : cmd[c].pc \in Written => files[cmd[c].opts.iface] = c

FileIsNodes == \A x \in nodes : files[x.iface] \in {x.by, None}

(* The seed's node is inserted once, and whoever seeds on has inserted it. *)
SeededOnce ==
    /\ \A x \in nodes : x.by \in Apis => x = Node(Defaults, x.by)
    /\ \A x, y \in nodes : x.by \in Apis /\ y.by \in Apis => x = y
    /\ \A b \in Apis : api[b] \in {"pool", "conf"} => Node(Defaults, b) \in nodes
    /\ \A i \in Ifaces : files[i] \in Apis => i = Defaults.iface /\ Node(Defaults, files[i]) \in nodes

Config == HasFile /\ FileIsNodes /\ SeededOnce

(* The interface of a node row is one that someone asked for.              *)
LEMMA NodeIface ==
    ASSUME IInv, Config, NEW x \in nodes
    PROVE  x.iface \in Ifaces
<1>0. TypeOK /\ Asked /\ RowsAreAsked /\ SeededOnce
  BY DEF IInv, Config
<1>1. CASE x.by \in Apis
  BY <1>0, <1>1 DEF SeededOnce, Node, Ifaces
<1>2. CASE x.by \in Commands
  <2>1. x.iface = cmd[x.by].opts.iface /\ cmd[x.by].opts \in Options
    BY <1>0, <1>2 DEF RowsAreAsked, Asked, Node, Ended
  <2> QED BY <2>1 DEF Ifaces
<1> QED BY <1>0, <1>1, <1>2 DEF TypeOK, Makers

(* A step that moves one command, not to where its file must be there      *)
(* unless it was before, keeps rows and files together.                    *)
LEMMA MoveConfig ==
    ASSUME Config, NEW c \in Commands, nodes' = nodes, files' = files, api' = api,
           \A d \in Commands \ {c} : cmd'[d] = cmd[d],
           cmd'[c].pc \in Written => cmd[c].pc \in Written /\ cmd'[c].opts = cmd[c].opts
    PROVE  Config'
<1>1. HasFile'
  BY DEF Config, HasFile
<1>2. FileIsNodes' /\ SeededOnce'
  BY DEF Config, FileIsNodes, SeededOnce, Node
<1> QED BY <1>1, <1>2 DEF Config

(* See MoveConfig.                                                         *)
LEMMA RollbackConfig ==
    ASSUME IInv, Config, NEW c \in Commands, NEW label \in {"failed", "dead", "cleanup"},
           Rollback(c, label), label = "cleanup" => cmd[c].pc = "commit"
    PROVE  Config'
<1>1. Goto(c, label) /\ UNCHANGED <<rows, files, api>> /\ TypeOK /\ label \in Labels
  BY DEF Rollback, IInv, Labels
<1>2. /\ cmd'[c].pc = label /\ cmd'[c].opts = cmd[c].opts
      /\ \A d \in Commands \ {c} : cmd'[d] = cmd[d]
  BY <1>1, GotoType
<1> QED BY <1>1, <1>2, MoveConfig DEF rows, Written

(* A command that creates its file takes no one's: the file was not there, *)
(* and no node row has the interface (writeBootstrapConfigExclusive).      *)
LEMMA WriteExclusiveConfig ==
    ASSUME OwnInterfaces, IInv, Config, NEW c \in Commands, WriteExclusive(c)
    PROVE  Config'
<1> DEFINE i == cmd[c].opts.iface
<1>0. TypeOK /\ Asked /\ Clear /\ HasFile /\ FileIsNodes /\ SeededOnce
  BY DEF IInv, Config
<1>1. cmd[c].pc = "write" /\ cmd[c].opts \in Options /\ c \notin Apis /\ c # None
  BY <1>0, ProvisioningAssumption DEF WriteExclusive, Asked
<1>2. CASE files[i] # None
  BY <1>2, RollbackConfig DEF WriteExclusive
<1>3. CASE files[i] = None
  <2>1. files' = [files EXCEPT ![i] = c] /\ Goto(c, "commit") /\ UNCHANGED <<rows, api, lock>>
    BY <1>3 DEF WriteExclusive
  <2>2. /\ cmd'[c].pc = "commit" /\ cmd'[c].opts = cmd[c].opts
        /\ \A d \in Commands \ {c} : cmd'[d] = cmd[d]
    BY <1>0, <2>1, GotoType DEF Labels
  <2>3. i \in Ifaces /\ i # Defaults.iface
    BY <1>1 DEF Ifaces, OwnInterfaces
  <2>4. files'[i] = c /\ \A j \in Ifaces \ {i} : files'[j] = files[j]
    BY <1>0, <2>1, <2>3 DEF TypeOK
  <2>5. HasFile'
    <3> SUFFICES ASSUME NEW d \in Commands, cmd'[d].pc \in Written
                 PROVE  files'[cmd'[d].opts.iface] = d
      BY DEF HasFile
    <3>1. CASE d = c
      BY <2>2, <2>4, <3>1
    <3>2. CASE d # c
      <4>1. files[cmd[d].opts.iface] = d /\ cmd'[d] = cmd[d] /\ d # None
        BY <1>0, <2>2, <3>2, ProvisioningAssumption DEF HasFile
      <4>2. cmd[d].opts.iface \in Ifaces
        BY <1>0, <2>2, <3>2 DEF Asked, Written, Ifaces
      <4> QED BY <1>3, <2>4, <4>1, <4>2
    <3> QED BY <3>1, <3>2
  <2>6. FileIsNodes'
    <3> SUFFICES ASSUME NEW x \in nodes
                 PROVE  files'[x.iface] \in {x.by, None}
      BY <2>1 DEF FileIsNodes, rows
    <3>1. x.iface # i
      BY <1>0, <1>1, <2>3 DEF TypeOK, Makers, Clear, Checked, SeededOnce, Node
    <3>2. files'[x.iface] = files[x.iface]
      BY <2>4, <3>1, NodeIface
    <3> QED BY <1>0, <3>2 DEF FileIsNodes
  <2>7. SeededOnce'
    <3>1. \A j \in Ifaces : files'[j] \in Apis => files'[j] = files[j]
      BY <1>1, <2>4
    <3> QED BY <1>0, <2>1, <3>1 DEF SeededOnce, Node, rows
  <2> QED BY <2>5, <2>6, <2>7 DEF Config
<1> QED BY <1>2, <1>3

(* The row that a command commits has its file already.                    *)
LEMMA InsertedConfig ==
    ASSUME IInv, Config, NEW c \in Commands, NEW label \in {"done", "cleanup"},
           cmd[c].pc = "commit", Inserted(c), Goto(c, label), UNCHANGED <<tenant, files, api>>
    PROVE  Config'
<1> DEFINE n == Node(cmd[c].opts, c)
<1>0. TypeOK /\ HasFile /\ FileIsNodes /\ SeededOnce
  BY DEF IInv, Config
<1>1. /\ cmd'[c].pc = label /\ cmd'[c].opts = cmd[c].opts
      /\ \A d \in Commands \ {c} : cmd'[d] = cmd[d]
  BY <1>0, GotoType DEF Labels
<1>2. nodes' = nodes \cup {n} /\ n.by = c /\ n.iface = cmd[c].opts.iface /\ c \notin Apis
  BY ProvisioningAssumption DEF Inserted, Node
<1> HIDE DEF n
<1>3. HasFile'
  BY <1>0, <1>1 DEF HasFile, Written
<1>4. FileIsNodes'
  <2>1. files[n.iface] = n.by
    BY <1>0, <1>2 DEF HasFile, Written
  <2> QED BY <1>0, <1>2, <2>1 DEF FileIsNodes
<1>5. SeededOnce'
  <2>1. \A x \in nodes' : x.by \in Apis => x \in nodes
    BY <1>2
  <2> QED BY <1>0, <1>2, <2>1 DEF SeededOnce, Node
<1> QED BY <1>3, <1>4, <1>5 DEF Config

(* The file that a clean-up removes is its own, though it no longer holds  *)
(* the lock (os.Remove).                                                   *)
LEMMA CleanupConfig ==
    ASSUME IInv, Config, NEW c \in Commands, Cleanup(c)
    PROVE  Config'
<1> DEFINE i == cmd[c].opts.iface
<1>0. TypeOK /\ Asked /\ HasFile /\ FileIsNodes /\ SeededOnce
  BY DEF IInv, Config
<1>1. /\ cmd[c].pc = "cleanup" /\ files' = [files EXCEPT ![i] = None] /\ Goto(c, "failed")
      /\ nodes' = nodes /\ api' = api
  BY DEF Cleanup, rows
<1>2. /\ cmd'[c].pc = "failed"
      /\ \A d \in Commands \ {c} : cmd'[d] = cmd[d]
  BY <1>0, <1>1, GotoType DEF Labels
<1>3. files[i] = c /\ i \in Ifaces
  BY <1>0, <1>1 DEF HasFile, Written, Asked, Ifaces
<1>4. files'[i] = None /\ \A j \in Ifaces \ {i} : files'[j] = files[j]
  BY <1>0, <1>1, <1>3 DEF TypeOK
<1>5. HasFile'
  <2> SUFFICES ASSUME NEW d \in Commands, cmd'[d].pc \in Written
               PROVE  files'[cmd'[d].opts.iface] = d
    BY DEF HasFile
  <2>1. d # c /\ cmd'[d] = cmd[d]
    BY <1>2 DEF Written
  <2>2. files[cmd[d].opts.iface] = d
    BY <1>0, <2>1 DEF HasFile
  <2>3. cmd[d].opts.iface \in Ifaces
    BY <1>0, <2>1 DEF Asked, Written, Ifaces
  <2> QED BY <1>3, <1>4, <2>1, <2>2, <2>3
<1>6. FileIsNodes'
  BY <1>0, <1>1, <1>4, NodeIface DEF FileIsNodes
<1>7. SeededOnce'
  <2>1. \A j \in Ifaces : files'[j] \in Apis => files'[j] = files[j]
    BY <1>4, ProvisioningAssumption
  <2> QED BY <1>0, <1>1, <2>1 DEF SeededOnce, Node
<1> QED BY <1>5, <1>6, <1>7 DEF Config

(* The seed's file is the seed's node's, if operators leave its interface  *)
(* alone: the row is inserted once, and only who inserted it writes the    *)
(* file (RunIfEmpty, the unique hostname).                                 *)
LEMMA ApiConfig ==
    ASSUME OwnInterfaces, IInv, Config, NEW b \in Apis, ApiStep(b) \/ CrashApi(b)
    PROVE  Config'
<1>0. TypeOK /\ Asked /\ RowsAreAsked /\ FilesAreAsked /\ HasFile /\ FileIsNodes /\ SeededOnce
  BY DEF IInv, Config
<1>1. cmd' = cmd
  BY DEF ApiStep, StartApi, Inspect, UpsertTenant, SeedProfile, SeedNode, SeedPool, WriteConf, CrashApi
<1>2. /\ \A c \in Commands : cmd[c].opts \in Options =>
             cmd[c].opts.iface \in Ifaces \ {Defaults.iface}
      /\ Defaults.iface \in Ifaces
  BY DEF Ifaces, OwnInterfaces
<1>3. CASE /\ UNCHANGED <<nodes, files>>
           /\ \A a \in Apis : api'[a] \in {"pool", "conf"} => api[a] \in {"pool", "conf"}
  BY <1>0, <1>1, <1>3 DEF Config, HasFile, FileIsNodes, SeededOnce, Node
<1>4. CASE SeedNode(b) /\ ~HostnameTaken(Defaults)
  <2> DEFINE n == Node(Defaults, b)
  <2>1. nodes' = nodes \cup {n} /\ files' = files /\ api' = [api EXCEPT ![b] = "pool"]
    BY <1>4 DEF SeedNode
  <2>2. n.by = b /\ n.iface = Defaults.iface /\ b \notin Commands
    BY ProvisioningAssumption DEF Node
  <2>3. \A x \in nodes : x.by \notin Apis
    BY <1>0, <1>4 DEF SeededOnce, HostnameTaken, Node
  <2>4. files[Defaults.iface] = None
    <3>1. files[Defaults.iface] \notin Apis
      BY <1>0, <1>2, <2>3 DEF SeededOnce, Node
    <3>2. files[Defaults.iface] \notin Commands
      BY <1>0, <1>2 DEF FilesAreAsked, Asked, Kept
    <3> QED BY <1>0, <1>2, <3>1, <3>2 DEF TypeOK, Makers
  <2>5. HasFile'
    BY <1>0, <1>1, <2>1 DEF HasFile
  <2>6. FileIsNodes'
    BY <1>0, <2>1, <2>2, <2>4 DEF FileIsNodes
  <2>7. SeededOnce'
    <3>1. \A x \in nodes' : x.by \in Apis => x = n
      BY <2>1, <2>3
    <3>2. \A a \in Apis : api'[a] \in {"pool", "conf"} => a = b \/ api[a] \in {"pool", "conf"}
      BY <1>0, <2>1 DEF TypeOK
    <3>3. \A a \in Apis : Node(Defaults, a) \in nodes => FALSE
      BY <2>3 DEF Node
    <3>4. \A a \in Apis : api'[a] \in {"pool", "conf"} => Node(Defaults, a) \in nodes'
      BY <1>0, <2>1, <3>2, <3>3 DEF SeededOnce
    <3>5. \A i \in Ifaces : files'[i] \notin Apis
      BY <1>0, <2>1, <3>3 DEF SeededOnce
    <3> QED BY <2>2, <3>1, <3>4, <3>5 DEF SeededOnce, Node
  <2> QED BY <2>5, <2>6, <2>7 DEF Config
<1>5. CASE SeedPool(b)
  <2>1. nodes' = nodes /\ files' = files /\ api[b] = "pool" /\ api' = [api EXCEPT ![b] = "conf"]
    BY <1>5 DEF SeedPool
  <2>2. \A a \in Apis : api'[a] \in {"pool", "conf"} => api[a] \in {"pool", "conf"}
    BY <1>0, <2>1 DEF TypeOK
  <2> QED BY <1>3, <2>1, <2>2
<1>6. CASE WriteConf(b)
  <2>1. /\ nodes' = nodes /\ files' = [files EXCEPT ![Defaults.iface] = b]
        /\ api[b] = "conf" /\ api' = [api EXCEPT ![b] = "serving"]
    BY <1>6 DEF WriteConf, rows
  <2>2. Node(Defaults, b) \in nodes /\ Node(Defaults, b).by = b
    BY <1>0, <2>1 DEF SeededOnce, Node
  <2>3. files'[Defaults.iface] = b /\ \A i \in Ifaces \ {Defaults.iface} : files'[i] = files[i]
    BY <1>0, <1>2, <2>1 DEF TypeOK
  <2>4. HasFile'
    BY <1>0, <1>1, <1>2, <2>3 DEF HasFile, Asked, Written
  <2>5. FileIsNodes'
    <3> SUFFICES ASSUME NEW x \in nodes
                 PROVE  files'[x.iface] \in {x.by, None}
      BY <2>1 DEF FileIsNodes
    <3>1. CASE x.by \in Apis
      BY <1>0, <2>2, <2>3, <3>1 DEF SeededOnce, Node
    <3>2. CASE x.by \in Commands
      <4>1. x.iface = cmd[x.by].opts.iface /\ cmd[x.by].opts \in Options
        BY <1>0, <3>2 DEF RowsAreAsked, Asked, Node, Ended
      <4>2. files'[x.iface] = files[x.iface]
        BY <1>2, <2>3, <3>2, <4>1
      <4> QED BY <1>0, <4>2 DEF FileIsNodes
    <3> QED BY <1>0, <3>1, <3>2 DEF TypeOK, Makers
  <2>6. SeededOnce'
    <3>1. \A a \in Apis : api'[a] \in {"pool", "conf"} => api[a] \in {"pool", "conf"}
      BY <1>0, <2>1 DEF TypeOK
    <3>2. \A i \in Ifaces : files'[i] \in Apis =>
             i = Defaults.iface /\ Node(Defaults, files'[i]) \in nodes
      BY <1>0, <2>2, <2>3 DEF SeededOnce
    <3> QED BY <1>0, <2>1, <3>1, <3>2 DEF SeededOnce, Node
  <2> QED BY <2>4, <2>5, <2>6 DEF Config
<1>7. CASE StartApi(b) \/ Inspect(b) \/ UpsertTenant(b) \/ SeedProfile(b) \/ CrashApi(b)
           \/ (SeedNode(b) /\ HostnameTaken(Defaults))
  <2>1. /\ UNCHANGED <<nodes, files>>
        /\ \E place \in {"inspect", "serving", "tenant", "profile", "node", "down"} :
              api' = [api EXCEPT ![b] = place]
    BY <1>7 DEF StartApi, Inspect, UpsertTenant, SeedProfile, SeedNode, CrashApi, rows
  <2>2. \A a \in Apis : api'[a] \in {"pool", "conf"} => api[a] \in {"pool", "conf"}
    BY <1>0, <2>1 DEF TypeOK
  <2> QED BY <1>3, <2>1, <2>2
<1> QED BY <1>4, <1>5, <1>6, <1>7 DEF ApiStep

(* Every step keeps rows and files together.                               *)
LEMMA NextConfig ==
    ASSUME OwnInterfaces, IInv, Config, [Next]_vars
    PROVE  Config'
<1>0. TypeOK /\ Asked
  BY DEF IInv
<1>1. CASE \E b \in Apis : ApiStep(b) \/ CrashApi(b)
  BY <1>1, ApiConfig
<1>2. ASSUME NEW c \in Commands, NEW o \in Options, Run(c, o)
      PROVE  Config'
  <2>1. PICK label \in {"lock", "failed"} : cmd' = [cmd EXCEPT ![c] = [pc |-> label, opts |-> o]]
    BY <1>2 DEF Run
  <2>2. cmd'[c].pc = label /\ \A d \in Commands \ {c} : cmd'[d] = cmd[d]
    BY <1>0, <2>1 DEF TypeOK
  <2> QED BY <1>2, <2>2, MoveConfig DEF Run, rows, Written
<1>3. ASSUME NEW c \in Commands, NEW label \in {"ensure", "insert", "write"}, Goto(c, label),
             UNCHANGED <<rows, files, api>>
      PROVE  Config'
  <2>1. cmd'[c].pc = label /\ \A d \in Commands \ {c} : cmd'[d] = cmd[d]
    BY <1>0, <1>3, GotoType DEF Labels
  <2> QED BY <1>3, <2>1, MoveConfig DEF rows, Written
<1>4. ASSUME NEW c \in Commands, CommandStep(c)
      PROVE  Config'
  <2>1. CASE TakeLock(c)
    BY <1>3, <2>1 DEF TakeLock
  <2>2. CASE Ensure(c)
    BY <1>3, <2>2, RollbackConfig DEF Ensure
  <2>3. CASE InsertRows(c)
    BY <1>3, <2>3, RollbackConfig DEF InsertRows
  <2>4. CASE Commit(c)
    BY <2>4, InsertedConfig DEF Commit
  <2> QED BY <1>4, <2>1, <2>2, <2>3, <2>4, WriteExclusiveConfig, CleanupConfig DEF CommandStep
<1>5. ASSUME NEW c \in Commands, CrashCommand(c) \/ Abort(c) \/ CommitLost(c)
      PROVE  Config'
  BY <1>5, RollbackConfig, InsertedConfig DEF CrashCommand, Abort, CommitLost
<1>6. CASE UNCHANGED vars
  BY <1>6 DEF vars, rows, Config, HasFile, FileIsNodes, SeededOnce, Node
<1> QED BY <1>1, <1>2, <1>4, <1>5, <1>6 DEF Next

(* While operators name no interface that RunIfEmpty seeds: a node whose   *)
(* command succeeded has the config file with its own private key, and no  *)
(* node's interface has a config with another's key, whichever processes   *)
(* compete, die or clean up (writeBootstrapConfigExclusive, os.Remove,     *)
(* RunIfEmpty).                                                            *)
THEOREM NodesHaveConfigs ==
    ASSUME OwnInterfaces
    PROVE  Spec => []NodeHasConfig
<1>1. Init => Config
  BY ProvisioningAssumption DEF Init, Config, HasFile, FileIsNodes, SeededOnce, Written
<1>2. IInv /\ Config /\ [Next]_vars => Config'
  BY NextConfig
<1>3. Config => NodeHasConfig
  BY DEF Config, HasFile, FileIsNodes, Written, NodeHasConfig
<1> QED BY <1>1, <1>2, <1>3, Invariant, PTL DEF Spec

=============================================================================

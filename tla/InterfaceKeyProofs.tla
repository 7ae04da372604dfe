------------------------- MODULE InterfaceKeyProofs -------------------------
(***************************************************************************)
(* Proofs about module InterfaceKey, for any number of workers and faults. *)
(***************************************************************************)
EXTENDS InterfaceKey, TLAPS

Phases == {"idle", "retry", "show", "send", "keep", "set", "up", "dump"}
Local == [pc : Phases, cfg : Key, sent : Key, second : BOOLEAN]

(* A worker that reaches its node through an agent has no key in its       *)
(* config, and all that passes is the empty key and the placeholder.       *)
Guarded ==
    /\ executor = "remote" => \A w \in Workers : wk[w].cfg = ""
    /\ wire \subseteq {"", Redacted}

-----------------------------------------------------------------------------
(* A worker between two applies (applyNode).                               *)
LEMMA RestFields ==
    ASSUME NEW phase \in Phases
    PROVE  /\ Rest(phase) \in Local /\ Rest(phase).pc = phase
           /\ Rest(phase).cfg = "" /\ Rest(phase).sent = ""
BY DEF Rest, Local, Key

(* One worker steps at a time.                                             *)
LEMMA BecomesLocal ==
    ASSUME wk \in [Workers -> Local], NEW w \in Workers, NEW local \in Local, Becomes(w, local)
    PROVE  /\ wk' \in [Workers -> Local] /\ wk'[w] = local
           /\ \A v \in Workers \ {w} : wk'[v] = wk[v]
BY DEF Becomes

(* Faults stay within their bound.                                         *)
LEMMA FaultType ==
    ASSUME TypeOK, NEW k, Fault(k)
    PROVE  faults' \in 0 .. MaxFaults /\ k \in FaultKinds
<1>1. faults \in 0 .. MaxFaults /\ MaxFaults \in Nat
  BY KeyAssumption DEF TypeOK
<1>2. k \in FaultKinds /\ faults < MaxFaults /\ faults' = faults + 1
  BY DEF Fault
<1>. QED
  BY <1>1, <1>2

(* What showconf tells is the interface's key or nothing, and faults stay  *)
(* within their bound.                                                     *)
LEMMA ShowConfType ==
    ASSUME TypeOK, NEW current, ShowConf(current)
    PROVE  /\ current \in Key /\ faults' \in 0 .. MaxFaults
           /\ up => current = key \/ "showconf" \in FaultKinds
<1>1. key \in Key /\ "" \in Key
  BY DEF TypeOK, Key
<1>2. CASE up /\ current = key /\ UNCHANGED faults
  BY <1>1, <1>2 DEF TypeOK
<1>3. CASE ~up /\ current = "" /\ UNCHANGED faults
  BY <1>1, <1>3 DEF TypeOK
<1>4. CASE up /\ current = "" /\ Fault("showconf")
  BY <1>1, <1>4, FaultType
<1>. QED
  BY <1>2, <1>3, <1>4 DEF ShowConf

(* A key put back is the one of the config, or else the one shown; a       *)
(* placeholder never is (PreserveInterfacePrivateKey).                     *)
LEMMA Preserved ==
    ASSUME NEW config \in Key, NEW current \in Key \cup {Redacted}
    PROVE  /\ PreserveInterfacePrivateKey(config, current) \in Key
           /\ config # "" => PreserveInterfacePrivateKey(config, current) = config
           /\ config = "" /\ current # Redacted =>
                 PreserveInterfacePrivateKey(config, current) = current
           /\ config = "" /\ current = Redacted =>
                 PreserveInterfacePrivateKey(config, current) = ""
BY DEF PreserveInterfacePrivateKey, Key, PrivateKeys, Redacted

-----------------------------------------------------------------------------
(* The types, and no key where an agent could see it.                      *)
IInv == TypeOK /\ Guarded

(* A step of one worker that leaves the interface in its type and sends    *)
(* nothing but empty keys and placeholders keeps both.                     *)
LEMMA StepKeeps ==
    ASSUME IInv, NEW w \in Workers, NEW local \in Local, Becomes(w, local),
           executor = "remote" => local.cfg = "",
           UNCHANGED <<executor, boot>>, up' \in BOOLEAN, key' \in Key,
           wire' \subseteq {"", Redacted}, faults' \in 0 .. MaxFaults
    PROVE  IInv'
<1>1. wk \in [Workers -> Local]
  BY DEF IInv, TypeOK, Local, Phases
<1>2. /\ wk' \in [Workers -> Local] /\ wk'[w] = local
      /\ \A v \in Workers \ {w} : wk'[v] = wk[v]
  BY <1>1, BecomesLocal
<1>3. TypeOK'
  BY <1>2 DEF IInv, TypeOK, Local, Phases, Key
<1>4. Guarded'
  BY <1>2 DEF IInv, Guarded
<1>. QED
  BY <1>3, <1>4 DEF IInv

(* What a worker has, and what it reads.                                   *)
LEMMA WorkerType ==
    ASSUME IInv, NEW w \in Workers
    PROVE  /\ wk[w] \in Local /\ wk[w].cfg \in Key /\ wk[w].sent \in Key
           /\ executor = "remote" => wk[w].cfg = ""
           /\ wire \subseteq {"", Redacted}
           /\ up \in BOOLEAN /\ key \in Key /\ boot \in Key /\ "" \in Key
           /\ faults \in 0 .. MaxFaults
<1>1. wk[w] \in Local
  BY DEF IInv, TypeOK, Local, Phases
<1>2. boot \in Key /\ "" \in Key
  BY KeyAssumption DEF IInv, TypeOK, Key
<1>. QED
  BY <1>1, <1>2 DEF IInv, TypeOK, Guarded, Local

(* preserveRuntimePrivateKey.                                              *)
LEMMA PreserveRuntimeKeeps ==
    ASSUME IInv, NEW w \in Workers, PreserveRuntime(w)
    PROVE  IInv'
<1>0. "send" \in Phases /\ UNCHANGED <<executor, boot, up, key>>
  BY DEF Phases, PreserveRuntime
<1>1. ASSUME NEW k \in Key, Becomes(w, [wk[w] EXCEPT !.pc = "send", !.cfg = k]),
             executor = "remote" => k = "",
             wire' \subseteq {"", Redacted}, faults' \in 0 .. MaxFaults
      PROVE  IInv'
  <2>1. /\ [wk[w] EXCEPT !.pc = "send", !.cfg = k] \in Local
        /\ [wk[w] EXCEPT !.pc = "send", !.cfg = k].cfg = k
    BY <1>0, WorkerType DEF Local
  <2>2. up' \in BOOLEAN /\ key' \in Key
    BY <1>0, WorkerType
  <2>. QED
    BY <1>0, <1>1, <2>1, <2>2, StepKeeps
<1>2. ASSUME NEW current, ShowConf(current)
      PROVE  current \in Key /\ faults' \in 0 .. MaxFaults
  BY <1>2, ShowConfType DEF IInv
<1>3. CASE /\ Becomes(w, [wk[w] EXCEPT !.pc = "send", !.cfg = wk[w].cfg])
           /\ UNCHANGED <<wire, faults>>
  BY <1>1, <1>3, WorkerType
<1>4. ASSUME executor = "local", NEW current, ShowConf(current),
             Becomes(w, [wk[w] EXCEPT !.pc = "send",
                                      !.cfg = PreserveInterfacePrivateKey("", current)]),
             UNCHANGED wire
      PROVE  IInv'
  <2>1. PreserveInterfacePrivateKey("", current) \in Key
    BY <1>2, <1>4, WorkerType, Preserved
  <2>. QED
    BY <1>1, <1>2, <1>4, <2>1, WorkerType
<1>5. ASSUME executor = "remote", NEW current, ShowConf(current),
             Becomes(w, [wk[w] EXCEPT !.pc = "send",
                 !.cfg = PreserveInterfacePrivateKey("", redactConfigSecrets(current))]),
             wire' = wire \cup {redactConfigSecrets(current)}
      PROVE  IInv'
  <2>1. redactConfigSecrets(current) \in {"", Redacted}
    BY DEF redactConfigSecrets
  <2>2. PreserveInterfacePrivateKey("", redactConfigSecrets(current)) = ""
    BY <2>1, WorkerType, Preserved
  <2>3. wire' \subseteq {"", Redacted}
    BY <1>5, <2>1, WorkerType
  <2>. QED
    BY <1>1, <1>2, <1>5, <2>2, <2>3, WorkerType
<1>. QED
  BY <1>3, <1>4, <1>5, KeyAssumption DEF PreserveRuntime, IInv, TypeOK

(* syncConfHandler: what a worker sends through an agent has no key.       *)
LEMMA SendConfKeeps ==
    ASSUME IInv, NEW w \in Workers, SendConf(w)
    PROVE  IInv'
<1>0. "keep" \in Phases /\ UNCHANGED <<executor, boot, up, key>>
  BY DEF Phases, SendConf
<1>1. ASSUME NEW k \in Key, Becomes(w, [wk[w] EXCEPT !.pc = "keep", !.sent = k]),
             wire' \subseteq {"", Redacted}, faults' \in 0 .. MaxFaults
      PROVE  IInv'
  <2>1. /\ [wk[w] EXCEPT !.pc = "keep", !.sent = k] \in Local
        /\ [wk[w] EXCEPT !.pc = "keep", !.sent = k].cfg = wk[w].cfg
    BY <1>0, WorkerType DEF Local
  <2>2. up' \in BOOLEAN /\ key' \in Key /\ (executor = "remote" => wk[w].cfg = "")
    BY <1>0, WorkerType
  <2>. QED
    BY <1>0, <1>1, <2>1, <2>2, StepKeeps
<1>2. CASE Becomes(w, [wk[w] EXCEPT !.pc = "keep", !.sent = wk[w].cfg]) /\ UNCHANGED <<wire, faults>>
  BY <1>1, <1>2, WorkerType
<1>3. ASSUME executor = "remote", wire' = wire \cup {wk[w].cfg}, NEW current, ShowConf(current),
             Becomes(w, [wk[w] EXCEPT !.pc = "keep",
                 !.sent = PreserveInterfacePrivateKey(wk[w].cfg, current)])
      PROVE  IInv'
  <2>1. current \in Key /\ faults' \in 0 .. MaxFaults
    BY <1>3, ShowConfType DEF IInv
  <2>2. PreserveInterfacePrivateKey(wk[w].cfg, current) \in Key
    BY <2>1, WorkerType, Preserved
  <2>3. wire' \subseteq {"", Redacted}
    BY <1>3, WorkerType
  <2>. QED
    BY <1>1, <1>3, <2>1, <2>2, <2>3
<1>. QED
  BY <1>2, <1>3 DEF SendConf

(* CLIExecutor.preservePrivateKey: a key is still a key.                   *)
LEMMA PreserveOnNodeKeeps ==
    ASSUME IInv, NEW w \in Workers, PreserveOnNode(w)
    PROVE  IInv'
<1>0. "set" \in Phases /\ UNCHANGED <<executor, boot, up, key, wire>>
  BY DEF Phases, PreserveOnNode
<1>1. PICK current \in {key, ""} :
         /\ ShowConf(current)
         /\ Becomes(w, [wk[w] EXCEPT !.pc = "set", !.sent = preservePrivateKey(@, current)])
  BY DEF PreserveOnNode
<1>2. current \in Key /\ faults' \in 0 .. MaxFaults
  BY <1>1, ShowConfType DEF IInv
<1>3. preservePrivateKey(wk[w].sent, current) \in Key
  BY <1>2, WorkerType, Preserved DEF preservePrivateKey
<1>. DEFINE local == [wk[w] EXCEPT !.pc = "set", !.sent = preservePrivateKey(@, current)]
<1>4. local \in Local /\ local.cfg = wk[w].cfg
  BY <1>0, <1>3, WorkerType DEF Local
<1>5. /\ up' \in BOOLEAN /\ key' \in Key /\ wire' \subseteq {"", Redacted}
      /\ executor = "remote" => wk[w].cfg = ""
  BY <1>0, WorkerType
<1>. QED
  BY <1>0, <1>1, <1>2, <1>4, <1>5, StepKeeps

(* The other steps of applyNode neither read nor send a key.               *)
LEMMA OtherStepsKeep ==
    ASSUME IInv, NEW w \in Workers,
           Apply(w) \/ SyncConf(w) \/ InterfaceUp(w) \/ Dump(w) \/ ApplyFails(w)
    PROVE  IInv'
<1>1. /\ UNCHANGED <<executor, boot, wire>> /\ faults' \in 0 .. MaxFaults
      /\ up' \in BOOLEAN /\ key' \in Key
  <2>1. CASE Apply(w) \/ Dump(w)
    BY <2>1, WorkerType DEF Apply, Dump
  <2>2. CASE SyncConf(w)
    BY <2>2, WorkerType DEF SyncConf
  <2>3. CASE InterfaceUp(w)
    BY <2>3, WorkerType DEF InterfaceUp
  <2>4. CASE ApplyFails(w)
    BY <2>4, WorkerType, FaultType DEF ApplyFails, IInv
  <2>. QED
    BY <2>1, <2>2, <2>3, <2>4
<1>2. ASSUME NEW local \in Local, Becomes(w, local), local.cfg \in {"", wk[w].cfg}
      PROVE  IInv'
  BY <1>1, <1>2, WorkerType, StepKeeps
<1>3. ASSUME NEW phase \in Phases, Becomes(w, Rest(phase))
      PROVE  IInv'
  BY <1>2, <1>3, RestFields
<1>4. ASSUME NEW phase \in Phases, Becomes(w, [wk[w] EXCEPT !.pc = phase])
      PROVE  IInv'
  <2>1. [wk[w] EXCEPT !.pc = phase] \in Local /\ [wk[w] EXCEPT !.pc = phase].cfg = wk[w].cfg
    BY WorkerType DEF Local
  <2>. QED
    BY <1>2, <1>4, <2>1
<1>5. ASSUME NEW phase \in Phases, Becomes(w, [wk[w] EXCEPT !.pc = phase, !.second = TRUE])
      PROVE  IInv'
  <2>1. /\ [wk[w] EXCEPT !.pc = phase, !.second = TRUE] \in Local
        /\ [wk[w] EXCEPT !.pc = phase, !.second = TRUE].cfg = wk[w].cfg
    BY WorkerType DEF Local
  <2>. QED
    BY <1>2, <1>5, <2>1
<1>6. {"show", "retry", "idle", "up", "dump"} \subseteq Phases
  BY DEF Phases
<1>7. CASE Apply(w) \/ Dump(w) \/ ApplyFails(w)
  BY <1>3, <1>6, <1>7 DEF Apply, Dump, ApplyFails
<1>8. CASE SyncConf(w)
  BY <1>3, <1>4, <1>6, <1>8 DEF SyncConf, Missing
<1>9. CASE InterfaceUp(w)
  BY <1>3, <1>5, <1>6, <1>9 DEF InterfaceUp
<1>. QED
  BY <1>7, <1>8, <1>9

(* Every step keeps the types, and keys out of an agent's sight.           *)
LEMMA NextKeeps == IInv /\ [Next]_vars => IInv'
<1>. SUFFICES ASSUME IInv, [Next]_vars PROVE IInv'
  OBVIOUS
<1>1. ASSUME NEW w \in Workers, Step(w) \/ ApplyFails(w) PROVE IInv'
  BY <1>1, PreserveRuntimeKeeps, SendConfKeeps, PreserveOnNodeKeeps, OtherStepsKeep DEF Step
<1>2. CASE InterfaceDown
  <2>1. faults' \in 0 .. MaxFaults
    BY <1>2, FaultType DEF InterfaceDown, IInv
  <2>2. TypeOK'
    BY <1>2, <2>1 DEF InterfaceDown, IInv, TypeOK, Key
  <2>3. Guarded'
    BY <1>2 DEF InterfaceDown, IInv, Guarded
  <2>. QED
    BY <2>2, <2>3 DEF IInv
<1>3. CASE UNCHANGED vars
  BY <1>3 DEF vars, IInv, TypeOK, Guarded
<1>. QED
  BY <1>1, <1>2, <1>3 DEF Next

(* The invariant holds in every state of every behaviour.                  *)
LEMMA Invariance == Spec => []IInv
<1>1. Init => IInv
  <2>. SUFFICES ASSUME Init PROVE IInv
    OBVIOUS
  <2>1. wk = [w \in Workers |-> Rest("idle")] /\ Rest("idle") \in Local /\ Rest("idle").cfg = ""
    BY RestFields DEF Init, Phases
  <2>2. TypeOK
    <3>1. wk \in [Workers -> Local]
      BY <2>1
    <3>f. faults = 0
      BY DEF Init
    <3>2. faults \in 0 .. MaxFaults
      BY <3>f, KeyAssumption
    <3>3. key \in {"own", ""}
      BY DEF Init
    <3>5. key \in Key
      BY <3>3 DEF Key, PrivateKeys
    <3>4. executor \in Executors /\ boot \in BootKeys /\ up \in BOOLEAN /\ wire \subseteq Key \cup {Redacted}
      BY DEF Init
    <3>. QED
      BY <3>1, <3>2, <3>4, <3>5 DEF TypeOK, Local, Phases
  <2>3. Guarded
    BY <2>1 DEF Init, Guarded
  <2>. QED
    BY <2>2, <2>3 DEF IInv
<1>. QED
  BY <1>1, NextKeeps, PTL DEF Spec

(* Every variable keeps its type: the placeholder of a redacted config is  *)
(* never taken for a key (PreserveInterfacePrivateKey).                    *)
THEOREM TypeCorrect == Spec => []TypeOK
<1>1. IInv => TypeOK
  BY DEF IInv
<1>. QED
  BY <1>1, Invariance, PTL

(* No private key passes between node and control plane, whatever keys the *)
(* bootstrap config and the interface have (redactConfigSecrets on the     *)
(* way up; a config without a key on the way down).                        *)
THEOREM KeysStayOnNode == Spec => []KeyStaysOnNode
<1>1. IInv => KeyStaysOnNode
  BY DEF IInv, Guarded, KeyStaysOnNode, PrivateKeys, Redacted
<1>. QED
  BY <1>1, Invariance, PTL

-----------------------------------------------------------------------------
(* Where the node's key can be had from when it is needed: the bootstrap   *)
(* config holds it or, on a node without that file, showconf answers.      *)
KeyAtHand ==
    /\ BootKeys \subseteq {"own", ""}
    /\ "" \in BootKeys => "showconf" \notin FaultKinds

(* The interface runs with the node's key, and no config has another one.  *)
(* A config about to be set has it, unless the interface is gone for good. *)
Keyed ==
    /\ up => key = "own"
    /\ \A w \in Workers : wk[w].cfg \in {"", "own"} /\ wk[w].sent \in {"", "own"}
    /\ \A w \in Workers : wk[w].pc = "set" => wk[w].sent = "own" \/ (boot = "" /\ ~up)

(* A step of one worker that leaves the interface alone and gives the      *)
(* worker no other key.                                                    *)
LEMMA KeyedStep ==
    ASSUME IInv, Keyed, NEW w \in Workers, NEW local \in Local, Becomes(w, local),
           UNCHANGED <<boot, up, key>>,
           local.cfg \in {"", "own"}, local.sent \in {"", "own"},
           local.pc = "set" => local.sent = "own" \/ (boot = "" /\ ~up)
    PROVE  Keyed'
<1>1. wk'[w] = local /\ \A v \in Workers \ {w} : wk'[v] = wk[v]
  BY BecomesLocal DEF IInv, TypeOK, Local, Phases
<1>. QED
  BY <1>1 DEF Keyed

(* What a key put back can be: the node's or none.                         *)
LEMMA PreservedOwn ==
    ASSUME NEW config \in {"", "own"}, NEW current \in {"", "own", Redacted}
    PROVE  /\ PreserveInterfacePrivateKey(config, current) \in {"", "own"}
           /\ config = "own" \/ current = "own" => PreserveInterfacePrivateKey(config, current) = "own"
BY DEF PreserveInterfacePrivateKey, Redacted

(* What showconf tells a worker of a keyed interface.                      *)
LEMMA ShownOwn ==
    ASSUME IInv, Keyed, NEW current, ShowConf(current)
    PROVE  /\ current \in {"", "own"}
           /\ up => current = "own" \/ "showconf" \in FaultKinds
<1>1. up \in BOOLEAN
  BY DEF IInv, TypeOK
<1>. QED
  BY <1>1, FaultType DEF IInv, Keyed, ShowConf

(* The steps that put a key back.                                          *)
LEMMA KeyedPreserve ==
    ASSUME KeyAtHand, IInv, Keyed, NEW w \in Workers,
           PreserveRuntime(w) \/ SendConf(w) \/ PreserveOnNode(w)
    PROVE  Keyed'
<1>0. wk[w] \in Local /\ wk[w].cfg \in {"", "own"} /\ wk[w].sent \in {"", "own"}
  BY WorkerType DEF Keyed
<1>k. {"", "own"} \subseteq Key
  BY DEF Key, PrivateKeys
<1>1. CASE PreserveRuntime(w)
  <2>0. UNCHANGED <<boot, up, key>>
    BY <1>1 DEF PreserveRuntime
  <2>1. ASSUME NEW k \in {"", "own"}, Becomes(w, [wk[w] EXCEPT !.pc = "send", !.cfg = k])
        PROVE  Keyed'
    <3>. DEFINE local == [wk[w] EXCEPT !.pc = "send", !.cfg = k]
    <3>1. local \in Local /\ local.cfg = k /\ local.sent = wk[w].sent /\ local.pc = "send"
      BY <1>0, <1>k DEF Local, Phases
    <3>. QED
      BY <1>0, <2>0, <2>1, <3>1, KeyedStep
  <2>2. ASSUME NEW current, ShowConf(current)
        PROVE  /\ PreserveInterfacePrivateKey("", current) \in {"", "own"}
               /\ PreserveInterfacePrivateKey("", redactConfigSecrets(current)) \in {"", "own"}
    <3>1. current \in {"", "own"} /\ redactConfigSecrets(current) \in {"", Redacted}
      BY <2>2, ShownOwn DEF redactConfigSecrets
    <3>. QED
      BY <3>1, PreservedOwn
  <2>. QED
    BY <1>0, <1>1, <2>1, <2>2 DEF PreserveRuntime
<1>2. CASE SendConf(w)
  <2>0. UNCHANGED <<boot, up, key>>
    BY <1>2 DEF SendConf
  <2>1. ASSUME NEW k \in {"", "own"}, Becomes(w, [wk[w] EXCEPT !.pc = "keep", !.sent = k])
        PROVE  Keyed'
    <3>. DEFINE local == [wk[w] EXCEPT !.pc = "keep", !.sent = k]
    <3>1. local \in Local /\ local.cfg = wk[w].cfg /\ local.sent = k /\ local.pc = "keep"
      BY <1>0, <1>k DEF Local, Phases
    <3>. QED
      BY <1>0, <2>0, <2>1, <3>1, KeyedStep
  <2>2. ASSUME NEW current, ShowConf(current)
        PROVE  PreserveInterfacePrivateKey(wk[w].cfg, current) \in {"", "own"}
    BY <1>0, <2>2, ShownOwn, PreservedOwn
  <2>. QED
    BY <1>0, <1>2, <2>1, <2>2 DEF SendConf
<1>3. CASE PreserveOnNode(w)
  <2>0. UNCHANGED <<boot, up, key>>
    BY <1>3 DEF PreserveOnNode
  <2>1. PICK current \in {key, ""} :
           /\ ShowConf(current)
           /\ Becomes(w, [wk[w] EXCEPT !.pc = "set", !.sent = preservePrivateKey(@, current)])
    BY <1>3 DEF PreserveOnNode
  <2>. DEFINE k == preservePrivateKey(wk[w].sent, current)
              local == [wk[w] EXCEPT !.pc = "set", !.sent = preservePrivateKey(@, current)]
  <2>2. boot \in {"own", ""} /\ (boot = "" => "showconf" \notin FaultKinds) /\ up \in BOOLEAN
    BY DEF KeyAtHand, IInv, TypeOK
  <2>3. current \in {"", "own"} /\ (up => current = "own" \/ "showconf" \in FaultKinds)
    BY <2>1, ShownOwn
  <2>4. /\ k \in {"", "own"}
        /\ boot = "own" \/ current = "own" => k = "own"
    <3>. DEFINE first == PreserveInterfacePrivateKey(wk[w].sent, current)
    <3>1. first \in {"", "own"} /\ (current = "own" => first = "own")
      BY <1>0, <2>3, PreservedOwn
    <3>2. k = PreserveInterfacePrivateKey(first, boot)
      BY DEF preservePrivateKey
    <3>. HIDE DEF first, k
    <3>. QED
      BY <2>2, <3>1, <3>2, PreservedOwn
  <2>5. k = "own" \/ (boot = "" /\ ~up)
    BY <2>2, <2>3, <2>4
  <2>6. local \in Local /\ local.cfg = wk[w].cfg /\ local.sent = k /\ local.pc = "set"
    BY <1>0, <1>k, <2>4 DEF Local, Phases
  <2>. QED
    BY <1>0, <2>0, <2>1, <2>4, <2>5, <2>6, KeyedStep
<1>. QED
  BY <1>1, <1>2, <1>3

(* The steps that touch the interface.                                     *)
LEMMA KeyedOther ==
    ASSUME KeyAtHand, IInv, Keyed, NEW w \in Workers,
           Apply(w) \/ SyncConf(w) \/ InterfaceUp(w) \/ Dump(w) \/ ApplyFails(w)
    PROVE  Keyed' /\ (up /\ up' => key' = "own")
<1>0. wk[w] \in Local /\ wk[w].cfg \in {"", "own"} /\ wk[w].sent \in {"", "own"}
  BY WorkerType DEF Keyed
<1>b. boot \in {"own", ""} /\ up \in BOOLEAN /\ (up => key = "own")
  BY DEF KeyAtHand, IInv, TypeOK, Keyed
<1>1. ASSUME NEW phase \in Phases \ {"set"}, Becomes(w, Rest(phase)), UNCHANGED <<boot, up, key>>
      PROVE  Keyed' /\ (up /\ up' => key' = "own")
  <2>1. Keyed'
    BY <1>1, RestFields, KeyedStep
  <2>2. up' = up /\ key' = key
    BY <1>1
  <2>. QED
    BY <1>b, <2>1, <2>2
<1>2. {"show", "retry", "idle", "up", "dump"} \subseteq Phases \ {"set"}
  BY DEF Phases
<1>3. CASE Apply(w) \/ Dump(w) \/ ApplyFails(w)
  BY <1>1, <1>2, <1>3 DEF Apply, Dump, ApplyFails
<1>4. CASE SyncConf(w)
  <2>1. CASE up
    <3>. DEFINE local == [wk[w] EXCEPT !.pc = "dump"]
    <3>1. UNCHANGED <<boot, up>> /\ key' = wk[w].sent /\ Becomes(w, local)
      BY <1>4, <2>1 DEF SyncConf
    <3>2. wk[w].sent = "own"
      BY <1>4, <2>1 DEF SyncConf, Keyed
    <3>3. UNCHANGED key
      BY <1>b, <2>1, <3>1, <3>2
    <3>4. local \in Local /\ local.cfg = wk[w].cfg /\ local.sent = wk[w].sent /\ local.pc = "dump"
      BY <1>0, <1>2 DEF Local
    <3>5. Keyed'
      BY <1>0, <3>1, <3>3, <3>4, KeyedStep
    <3>. QED
      BY <3>1, <3>2, <3>5
  <2>2. CASE ~up
    <3>. DEFINE local == [wk[w] EXCEPT !.pc = "up"]
    <3>1. UNCHANGED <<boot, up, key>> /\ Becomes(w, Missing(w))
      BY <1>4, <2>2 DEF SyncConf
    <3>2. CASE Becomes(w, Rest("retry"))
      BY <1>1, <1>2, <3>1, <3>2
    <3>3. CASE Becomes(w, local)
      <4>1. local \in Local /\ local.cfg = wk[w].cfg /\ local.sent = wk[w].sent /\ local.pc = "up"
        BY <1>0, <1>2 DEF Local
      <4>2. Keyed'
        BY <1>0, <3>1, <3>3, <4>1, KeyedStep
      <4>. QED
        BY <2>2, <4>2
    <3>. QED
      BY <3>1, <3>2, <3>3 DEF Missing
  <2>. QED
    BY <2>1, <2>2
<1>5. CASE InterfaceUp(w)
  <2>1. CASE up \/ boot # ""
    <3>. DEFINE local == [wk[w] EXCEPT !.pc = "show", !.second = TRUE]
    <3>1. boot' = boot /\ up' = TRUE /\ key' = (IF up THEN key ELSE boot) /\ Becomes(w, local)
      BY <1>5, <2>1 DEF InterfaceUp
    <3>2. key' = "own"
      BY <1>b, <2>1, <3>1
    <3>3. local \in Local /\ local.cfg = wk[w].cfg /\ local.sent = wk[w].sent /\ local.pc = "show"
      BY <1>0, <1>2 DEF Local
    <3>4. wk'[w] = local /\ \A v \in Workers \ {w} : wk'[v] = wk[v]
      BY <3>1, <3>3, BecomesLocal DEF IInv, TypeOK, Local, Phases
    <3>5. \A v \in Workers : wk[v].pc = "set" => wk[v].sent = "own"
      BY <2>1 DEF Keyed
    <3>. HIDE DEF local
    <3>6. \A v \in Workers : wk'[v].cfg \in {"", "own"} /\ wk'[v].sent \in {"", "own"}
      BY <1>0, <3>3, <3>4 DEF Keyed
    <3>7. \A v \in Workers : wk'[v].pc = "set" => wk'[v].sent = "own"
      <4>1. ASSUME NEW v \in Workers, wk'[v].pc = "set" PROVE wk'[v].sent = "own"
        <5>1. v # w
          BY <3>3, <3>4, <4>1
        <5>. QED
          BY <3>4, <3>5, <4>1, <5>1
      <4>. QED
        BY <4>1
    <3>8. Keyed'
      BY <3>2, <3>6, <3>7 DEF Keyed
    <3>. QED
      BY <3>2, <3>8
  <2>2. CASE ~(up \/ boot # "")
    BY <1>1, <1>2, <1>5, <2>2 DEF InterfaceUp
  <2>. QED
    BY <2>1, <2>2
<1>. QED
  BY <1>3, <1>4, <1>5

(* Every step keeps the key where it is.                                   *)
LEMMA KeyedNext ==
    ASSUME KeyAtHand, IInv, Keyed, [Next]_vars
    PROVE  Keyed' /\ (up /\ key = "own" /\ up' => key' = "own")
<1>0. up \in BOOLEAN
  BY DEF IInv, TypeOK
<1>1. ASSUME NEW w \in Workers, PreserveRuntime(w) \/ SendConf(w) \/ PreserveOnNode(w)
      PROVE  Keyed' /\ UNCHANGED <<up, key>>
  BY <1>1, KeyedPreserve DEF PreserveRuntime, SendConf, PreserveOnNode
<1>2. ASSUME NEW w \in Workers,
             Apply(w) \/ SyncConf(w) \/ InterfaceUp(w) \/ Dump(w) \/ ApplyFails(w)
      PROVE  Keyed' /\ (up /\ up' => key' = "own")
  BY <1>2, KeyedOther
<1>3. CASE InterfaceDown
  BY <1>3 DEF InterfaceDown, Keyed
<1>4. CASE UNCHANGED vars
  BY <1>4 DEF vars, Keyed
<1>. QED
  BY <1>1, <1>2, <1>3, <1>4 DEF Next, Step

(* No apply takes the node's key away from a running interface while the   *)
(* key can be had from the bootstrap config or, without one, from          *)
(* showconf: whichever calls fail, however many workers and restarts       *)
(* interleave, with a local executor or an agent                           *)
(* (preserveRuntimePrivateKey, syncConfHandler, preservePrivateKey).       *)
THEOREM KeyIsNeverLost ==
    ASSUME KeyAtHand
    PROVE  Spec => KeyIsKept
<1>1. Init => Keyed
  <2>. SUFFICES ASSUME Init PROVE Keyed
    OBVIOUS
  <2>1. /\ \A w \in Workers : wk[w] = Rest("idle")
        /\ Rest("idle").pc = "idle" /\ Rest("idle").cfg = "" /\ Rest("idle").sent = ""
    BY RestFields DEF Init, Phases
  <2>2. up => key = "own"
    BY DEF Init
  <2>. QED
    BY <2>1, <2>2 DEF Keyed
<1>2. IInv /\ Keyed /\ [Next]_vars => Keyed' /\ [up /\ key = "own" /\ up' => key' = "own"]_vars
  BY KeyedNext
<1>. QED
  BY <1>1, <1>2, Invariance, PTL DEF Spec, KeyIsKept

=============================================================================

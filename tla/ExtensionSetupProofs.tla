------------------------ MODULE ExtensionSetupProofs ------------------------
(***************************************************************************)
(* The extension set-up, for any number of set-ups, services started,      *)
(* tests, deaths and late answers: what the config names is complete, an   *)
(* InstructionSender speaks for its own extension, and a test that passes  *)
(* has tested the chain it is about.  And verify-deploy's report is exact  *)
(* in every state that the scripts reach: its checks of the chain add to   *)
(* the inductive invariant only the grant that pre-build.sh lets fail.     *)
(***************************************************************************)
EXTENDS VerifyDeploy, SequenceTheorems, FiniteSetTheorems, TLAPS

\* The half-done set-up of pre-build.sh: which extension it has registered,
\* and which of the steps on it are done.
AfterRegister == {"machineOwner", "projectOwner", "keyType", "write"}
DraftInv ==
    /\ at = "register" =>
          draft.sender \in 1..Len(senders) /\ Registered(draft.sender) = {}
    /\ at \in AfterRegister =>
          /\ draft.sender \in 1..Len(senders)
          /\ draft.id \in Extensions
          /\ Registered(draft.sender) = {draft.id}
    /\ at \in {"keyType", "write"} => Extension(draft.id).projectOwner
    /\ at = "write" => Extension(draft.id).keyType

\* A test has a config, and waits for a machine of its sender's active set; a
\* machine that gets as far as sign and still runs has the key.
Testing == {"setExtensionId", "update", "pollUpdate", "sign", "pollSign"}
TestInv ==
    /\ at \in Testing => config # NoConfig
    /\ at \in {"pollUpdate", "pollSign"} =>
          senders[config.sender] # 0 /\ sent \in Active(senders[config.sender])
    /\ at \in {"sign", "pollSign"} => tee = 0 \/ hasKey

\* post-build.sh has a machine before it, and the registry knows only
\* machines of an allowed version and owner.
MachineInv ==
    /\ at \in {"version", "preRegister", "promote"} => proxy # 0
    /\ at = "promote" => machines[proxy].status # "none"
    /\ \A m \in 1..Len(machines) : machines[m].status # "none" =>
          Extension(machines[m].ext).machineOwner /\ Extension(machines[m].ext).version

IInv ==
    /\ TypeOK /\ DraftInv /\ TestInv /\ MachineInv
    /\ ConfigIsComplete /\ SendersKnowTheirExtension

------------------------------------------------------------------------------
\* What the type invariant says of an entry of each sequence.
LEMMA Entries ==
    ASSUME TypeOK
    PROVE  /\ Len(registry) \in Nat /\ Len(senders) \in Nat /\ Len(machines) \in Nat
           /\ \A id \in Extensions : Extension(id) \in ExtensionRecord
           /\ \A s \in 1..Len(senders) : senders[s] \in {0} \cup Extensions
           /\ \A m \in 1..Len(machines) : machines[m] \in MachineRecord
<1>1. registry \in Seq(ExtensionRecord) /\ senders \in Seq({0} \cup Extensions)
      /\ machines \in Seq(MachineRecord)
  BY DEF TypeOK
<1>2. Len(registry) \in Nat /\ Len(senders) \in Nat /\ Len(machines) \in Nat
  BY <1>1, LenProperties
<1>3. ASSUME NEW id \in Extensions PROVE Extension(id) \in ExtensionRecord
  <2>1. id + 1 \in 1..Len(registry)
    BY <1>2 DEF Extensions
  <2> QED
    BY <1>1, <2>1, ElementOfSeq DEF Extension
<1>4. \A s \in 1..Len(senders) : senders[s] \in {0} \cup Extensions
  BY <1>1, ElementOfSeq
<1>5. \A m \in 1..Len(machines) : machines[m] \in MachineRecord
  BY <1>1, ElementOfSeq
<1> QED
  BY <1>2, <1>3, <1>4, <1>5

\* What the steps on one extension keep: they only ever grant, and an
\* extension keeps its sender.
LEMMA Granting ==
    ASSUME IInv, NEW id \in Extensions, NEW e \in ExtensionRecord,
           e.sender = Extension(id).sender,
           Extension(id).machineOwner => e.machineOwner,
           Extension(id).projectOwner => e.projectOwner,
           Extension(id).keyType => e.keyType,
           Extension(id).version => e.version,
           registry' = [registry EXCEPT ![id + 1] = e],
           UNCHANGED <<senders, machines, config>>
    PROVE  /\ (registry \in Seq(ExtensionRecord))'
           /\ Extensions' = Extensions /\ ExtensionRecord' = ExtensionRecord
           /\ \A i \in Extensions : Extension(i)' = IF i = id THEN e ELSE Extension(i)
           /\ \A s : Registered(s)' = Registered(s)
           /\ ConfigIsComplete' /\ SendersKnowTheirExtension'
           /\ (\A m \in 1..Len(machines) : machines[m].status # "none" =>
                 /\ Extension(machines[m].ext).machineOwner
                 /\ Extension(machines[m].ext).version)'
<1>1. /\ TypeOK /\ registry \in Seq(ExtensionRecord)
      /\ Len(registry) \in Nat /\ id + 1 \in 1..Len(registry)
  BY Entries DEF IInv, TypeOK, Extensions
<1>2. ExtensionRecord' = ExtensionRecord
  BY DEF ExtensionRecord
<1>3. /\ registry' \in Seq(ExtensionRecord) /\ Len(registry') = Len(registry)
      /\ \A i \in 1..Len(registry) : registry'[i] = IF i = id + 1 THEN e ELSE registry[i]
  BY <1>1, ExceptSeq
<1>4. Extensions' = Extensions
  BY <1>3 DEF Extensions
<1>5. ASSUME NEW i \in Extensions
      PROVE  Extension(i)' = IF i = id THEN e ELSE Extension(i)
  BY <1>1, <1>3 DEF Extension, Extensions
<1>6. \A s : Registered(s)' = Registered(s)
  BY <1>4, <1>5 DEF Registered
<1>7. ConfigIsComplete'
  BY <1>1, <1>5, <1>6 DEF IInv, ConfigIsComplete, TypeOK
<1>8. SendersKnowTheirExtension'
  BY <1>1, <1>5, Entries DEF IInv, SendersKnowTheirExtension
<1>9. (\A m \in 1..Len(machines) : machines[m].status # "none" =>
          /\ Extension(machines[m].ext).machineOwner
          /\ Extension(machines[m].ext).version)'
  BY <1>1, <1>5, Entries DEF IInv, MachineInv, MachineRecord
<1> QED
  BY <1>2, <1>3, <1>4, <1>5, <1>6, <1>7, <1>8, <1>9

\* A step that leaves the chain, the machines and the config alone.
ChainInv ==
    /\ registry \in Seq(ExtensionRecord)
    /\ senders \in Seq({0} \cup Extensions)
    /\ machines \in Seq(MachineRecord)
    /\ config = NoConfig \/ (config.id \in Extensions /\ config.sender \in 1..Len(senders))
    /\ \A m \in 1..Len(machines) : machines[m].status # "none" =>
          Extension(machines[m].ext).machineOwner /\ Extension(machines[m].ext).version
    /\ ConfigIsComplete /\ SendersKnowTheirExtension

LEMMA Keeping ==
    ASSUME IInv, UNCHANGED <<chain, machines, config>>
    PROVE  /\ ChainInv'
           /\ UNCHANGED <<registry, senders, machines, config, Extensions>>
           /\ \A id : Extension(id)' = Extension(id) /\ Active(id)' = Active(id)
           /\ \A s : Registered(s)' = Registered(s)
BY DEF IInv, TypeOK, MachineInv, ConfigIsComplete, SendersKnowTheirExtension, ChainInv,
       chain, Extensions, Extension, ExtensionRecord, MachineRecord, Registered, Active,
       NoConfig

\* The rest of IInv: the services and the running script.
Rest ==
    /\ draft \in [id : {0} \cup Extensions, sender : 0..Len(senders)]
    /\ mode \in Modes /\ {tee, proxy, sent} \subseteq 0..Len(machines)
    /\ hasKey \in BOOLEAN /\ at \in Steps
    /\ result \in {"none", "passed", "failed"}
    /\ mishaps \in 0..MaxMishaps /\ whims \in 0..MaxWhims
Scripts ==
    /\ DraftInv /\ TestInv
    /\ at \in {"version", "preRegister", "promote"} => proxy # 0
    /\ at = "promote" => machines[proxy].status # "none"

LEMMA Parts ==
    /\ IInv => ChainInv /\ Rest /\ Scripts
    /\ ChainInv' /\ Rest' /\ Scripts' => IInv'
BY DEF IInv, TypeOK, MachineInv, ChainInv, Rest, Scripts

------------------------------------------------------------------------------
LEMMA Initially == Init => IInv
<1> SUFFICES ASSUME Init PROVE IInv
  OBVIOUS
<1>1. Reserved \in Nat /\ MaxMishaps \in Nat /\ MaxWhims \in Nat
  BY ExtensionSetupAssumption DEF ExtensionSetupAssumption
<1>2. senders = <<>> /\ Len(senders) = 0 /\ machines = <<>> /\ Len(machines) = 0
  BY DEF Init
<1>3. registry \in Seq(ExtensionRecord)
  BY <1>1, <1>2 DEF Init, ExtensionRecord, Foreign
<1>4. TypeOK
  <2>1. senders \in Seq({0} \cup Extensions) /\ machines \in Seq(MachineRecord)
    BY <1>2, EmptySeq
  <2>2. hasKey \in BOOLEAN
    BY DEF Init
  <2>3. {tee, proxy, sent} \subseteq 0..Len(machines)
    BY <1>2 DEF Init
  <2>4. /\ config = NoConfig /\ draft = NoConfig /\ mode \in Modes
        /\ at = "idle" /\ result = "none" /\ mishaps = 0 /\ whims = 0
    BY DEF Init
  <2> QED
    BY <1>1, <1>2, <1>3, <2>1, <2>2, <2>3, <2>4 DEF TypeOK, Steps, NoConfig
<1>5. DraftInv /\ TestInv /\ MachineInv /\ ConfigIsComplete /\ SendersKnowTheirExtension
  BY <1>2 DEF Init, DraftInv, AfterRegister, TestInv, Testing, MachineInv,
              ConfigIsComplete, SendersKnowTheirExtension
<1> QED
  BY <1>4, <1>5 DEF IInv

------------------------------------------------------------------------------
\* The steps of a script that leave the chain, the machines and the config
\* alone: the starts, the ends, and the waits for an answer.
LEMMA QuietSteps ==
    ASSUME IInv, UNCHANGED <<chain, machines, config, mode>>,
           \/ \E force \in BOOLEAN : PreBuild(force)
           \/ PostBuild \/ Test \/ StopServices \/ StartProxy
           \/ SendUpdateKey \/ PollUpdate \/ SendSign \/ PollSign
           \/ TeeDies,
           mishaps' \in 0..MaxMishaps, whims' \in 0..MaxWhims
    PROVE  IInv'
<1>1. /\ ChainInv'
      /\ UNCHANGED <<registry, senders, machines, config, mode, Extensions>>
      /\ \A id : Extension(id)' = Extension(id) /\ Active(id)' = Active(id)
      /\ \A s : Registered(s)' = Registered(s)
  BY Keeping
<1>2. Rest /\ Scripts
  BY Parts
<1>3. SUFFICES Rest' /\ Scripts'
  BY <1>1, Parts
<1> USE DEF Rest, Scripts
<1>4. CASE \E force \in BOOLEAN : PreBuild(force)
  BY <1>1, <1>2, <1>4 DEF PreBuild, Step, Steps, DraftInv, TestInv, AfterRegister, Testing, services
<1>5. CASE PostBuild
  BY <1>1, <1>2, <1>5 DEF PostBuild, Step, Steps, DraftInv, TestInv, AfterRegister, Testing, services
<1>6. CASE Test
  BY <1>1, <1>2, <1>6, Entries DEF IInv, Test, Step, Steps, DraftInv, TestInv, AfterRegister, Testing, services
<1>7. CASE StopServices
  <2>1. Rest'
    <3>1. hasKey' \in BOOLEAN
      BY <1>7 DEF StopServices
    <3>2. tee' \in 0..Len(machines) /\ proxy' \in 0..Len(machines)
      BY <1>2, <1>7, Entries DEF IInv, StopServices
    <3>3. at' \in Steps /\ UNCHANGED <<draft, sent, result>>
      BY <1>2, <1>7 DEF StopServices, Step, Steps
    <3> QED
      BY <1>1, <1>2, <3>1, <3>2, <3>3
  <2>2. Scripts'
    BY <1>1, <1>2, <1>7 DEF StopServices, Step, DraftInv, TestInv, AfterRegister, Testing
  <2> QED
    BY <2>1, <2>2
<1>8. CASE StartProxy
  BY <1>1, <1>2, <1>8 DEF StartProxy, Step, Steps, DraftInv, TestInv, AfterRegister, Testing
<1>9. CASE SendUpdateKey
  <2>1. CASE at' = "idle"
    BY <1>1, <1>2, <1>9, <2>1 DEF SendUpdateKey, Send, Fail, Steps, DraftInv, TestInv,
                                  AfterRegister, Testing, services, Active
  <2>2. CASE at' # "idle"
    <3>1. /\ senders[config.sender] # 0
          /\ sent' \in Active(senders[config.sender])
          /\ at' = (IF at = "update" THEN "pollUpdate" ELSE "pollSign")
          /\ at \in {"update", "sign"}
          /\ UNCHANGED <<draft, tee, proxy, hasKey, result>>
      BY <1>9, <2>2 DEF SendUpdateKey, Send, Fail, services
    <3>2. sent' \in 1..Len(machines)
      BY <3>1 DEF Active
    <3>3. Rest'
      BY <1>1, <1>2, <3>1, <3>2 DEF Steps
    <3>4. Scripts'
      BY <1>1, <1>2, <3>1 DEF DraftInv, TestInv, AfterRegister, Testing
    <3> QED
      BY <3>3, <3>4
  <2> QED
    BY <2>1, <2>2
<1>10. CASE PollUpdate
  BY <1>1, <1>2, <1>10 DEF PollUpdate, GiveUp, Fail, Steps, DraftInv, TestInv, AfterRegister, Testing, services
<1>11. CASE SendSign
  <2>1. CASE at' = "idle"
    BY <1>1, <1>2, <1>11, <2>1 DEF SendSign, Send, Fail, Steps, DraftInv, TestInv,
                                  AfterRegister, Testing, services, Active
  <2>2. CASE at' # "idle"
    <3>1. /\ senders[config.sender] # 0
          /\ sent' \in Active(senders[config.sender])
          /\ at' = (IF at = "update" THEN "pollUpdate" ELSE "pollSign")
          /\ at \in {"update", "sign"}
          /\ UNCHANGED <<draft, tee, proxy, hasKey, result>>
      BY <1>11, <2>2 DEF SendSign, Send, Fail, services
    <3>2. sent' \in 1..Len(machines)
      BY <3>1 DEF Active
    <3>3. Rest'
      BY <1>1, <1>2, <3>1, <3>2 DEF Steps
    <3>4. Scripts'
      BY <1>1, <1>2, <3>1 DEF DraftInv, TestInv, AfterRegister, Testing
    <3> QED
      BY <3>3, <3>4
  <2> QED
    BY <2>1, <2>2
<1>12. CASE PollSign
  BY <1>1, <1>2, <1>12 DEF PollSign, GiveUp, Fail, Steps, DraftInv, TestInv, AfterRegister, Testing, services
<1>13. CASE TeeDies
  <2>1. Rest'
    <3>1. hasKey' \in BOOLEAN
      BY <1>13 DEF TeeDies
    <3>2. tee' \in 0..Len(machines) /\ proxy' \in 0..Len(machines)
      BY <1>2, <1>13, Entries DEF IInv, TeeDies
    <3>3. at' \in Steps /\ UNCHANGED <<draft, sent, result>>
      BY <1>2, <1>13 DEF TeeDies, Step, Steps
    <3> QED
      BY <1>1, <1>2, <3>1, <3>2, <3>3
  <2>2. Scripts'
    BY <1>1, <1>2, <1>13 DEF TeeDies, Step, DraftInv, TestInv, AfterRegister, Testing
  <2> QED
    BY <2>1, <2>2
<1> QED
  BY <1>4, <1>5, <1>6, <1>7, <1>8, <1>9, <1>10, <1>11, <1>12, <1>13

\* pre-build.sh's and allow-tee-version's steps on an extension.
LEMMA GrantSteps ==
    ASSUME IInv, AllowMachineOwner \/ AllowProjectOwner \/ AddKeyType \/ AllowTeeVersion
    PROVE  IInv'
<1>1. TypeOK /\ ChainInv /\ Rest /\ Scripts
  BY Parts DEF IInv
<1>2. ASSUME UNCHANGED <<chain, machines, config, mode, services, draft, sent, result, whims>>,
             at = "machineOwner", at' = "projectOwner", mishaps' \in 0..MaxMishaps
      PROVE  IInv'
  BY <1>1, <1>2, Keeping, Parts
     DEF Rest, Scripts, Steps, DraftInv, TestInv, AfterRegister, Testing, services
<1>3. ASSUME NEW id \in Extensions, NEW e \in ExtensionRecord,
             \/ e = [Extension(id) EXCEPT !.machineOwner = TRUE]
             \/ e = [Extension(id) EXCEPT !.projectOwner = TRUE]
             \/ e = [Extension(id) EXCEPT !.keyType = TRUE]
             \/ e = [Extension(id) EXCEPT !.version = TRUE],
             registry' = [registry EXCEPT ![id + 1] = e],
             UNCHANGED <<senders, machines, config, mode, services, draft, sent, result,
                         counts>>
      PROVE  /\ ChainInv' /\ UNCHANGED Extensions
             /\ \A i \in Extensions : Extension(i)' = IF i = id THEN e ELSE Extension(i)
             /\ \A s : Registered(s)' = Registered(s)
             /\ at' \in Steps => Rest'
  <2>1. e.sender = Extension(id).sender
    BY <1>1, <1>3, Entries DEF ExtensionRecord
  <2>2. /\ Extension(id).machineOwner => e.machineOwner
        /\ Extension(id).projectOwner => e.projectOwner
        /\ Extension(id).keyType => e.keyType
        /\ Extension(id).version => e.version
    BY <1>1, <1>3, Entries DEF ExtensionRecord
  <2>3. /\ (registry \in Seq(ExtensionRecord))' /\ Extensions' = Extensions
        /\ \A i \in Extensions : Extension(i)' = IF i = id THEN e ELSE Extension(i)
        /\ \A s : Registered(s)' = Registered(s)
        /\ ConfigIsComplete' /\ SendersKnowTheirExtension'
        /\ (\A m \in 1..Len(machines) : machines[m].status # "none" =>
              /\ Extension(machines[m].ext).machineOwner
              /\ Extension(machines[m].ext).version)'
    BY <1>3, <2>1, <2>2, Granting
  <2>4. ChainInv'
    BY <1>1, <1>3, <2>3 DEF ChainInv, MachineRecord, NoConfig
  <2>5. at' \in Steps => Rest'
    BY <1>1, <1>3, <2>3 DEF Rest, services, counts
  <2> QED
    BY <2>3, <2>4, <2>5
<1>4. ASSUME at \in AfterRegister
      PROVE  draft.id \in Extensions /\ Extension(draft.id) \in ExtensionRecord
  BY <1>1, <1>4, Entries DEF Scripts, DraftInv
<1>5. CASE AllowMachineOwner
  <2> DEFINE e == [Extension(draft.id) EXCEPT !.machineOwner = TRUE]
  <2>1. /\ at = "machineOwner" /\ at' = "projectOwner" /\ at \in AfterRegister
        /\ at' \in Steps
    BY <1>5 DEF AllowMachineOwner, Step, AfterRegister, Steps
  <2>2. CASE Grant(e) /\ UNCHANGED mishaps
    <3>1. e \in ExtensionRecord
      BY <1>4, <2>1 DEF ExtensionRecord
    <3>2. ChainInv' /\ Rest' /\ UNCHANGED Extensions /\ \A s : Registered(s)' = Registered(s)
      BY <1>3, <1>4, <2>1, <2>2, <3>1 DEF Grant, counts
    <3>3. Scripts'
      BY <1>1, <2>1, <2>2, <3>2 DEF Grant, Scripts, DraftInv, TestInv, AfterRegister, Testing
    <3> QED
      BY <3>2, <3>3, Parts
  <2>3. CASE Mishap /\ UNCHANGED <<chain, machines, config, mode, services, draft, sent,
                                   result, whims>>
    <3>1. mishaps' \in 0..MaxMishaps
      BY <1>1, <2>3, ExtensionSetupAssumption DEF Mishap, Rest, ExtensionSetupAssumption
    <3> QED
      BY <1>2, <2>1, <2>3, <3>1
  <2> QED
    BY <1>5, <2>2, <2>3 DEF AllowMachineOwner
<1>6. CASE AllowProjectOwner
  <2> DEFINE e == [Extension(draft.id) EXCEPT !.projectOwner = TRUE]
  <2>1. /\ at = "projectOwner" /\ at' = "keyType" /\ at \in AfterRegister
        /\ Grant(e) /\ UNCHANGED mishaps /\ at' \in Steps
    BY <1>6 DEF AllowProjectOwner, Step, AfterRegister, Steps
  <2>2. e \in ExtensionRecord /\ e.projectOwner
    BY <1>4, <2>1 DEF ExtensionRecord
  <2>3. /\ ChainInv' /\ Rest' /\ UNCHANGED Extensions
        /\ \A s : Registered(s)' = Registered(s)
        /\ Extension(draft.id)' = e
    BY <1>3, <1>4, <2>1, <2>2 DEF Grant, counts
  <2>4. Scripts'
    BY <1>1, <2>1, <2>2, <2>3 DEF Grant, Scripts, DraftInv, TestInv, AfterRegister, Testing
  <2> QED
    BY <2>3, <2>4, Parts
<1>7. CASE AddKeyType
  <2> DEFINE e == [Extension(draft.id) EXCEPT !.keyType = TRUE]
  <2>1. /\ at = "keyType" /\ at' = "write" /\ at \in AfterRegister
        /\ Grant(e) /\ UNCHANGED mishaps /\ at' \in Steps
    BY <1>7 DEF AddKeyType, Step, AfterRegister, Steps
  <2>2. e \in ExtensionRecord /\ e.keyType /\ e.projectOwner
    BY <1>1, <1>4, <2>1 DEF ExtensionRecord, Scripts, DraftInv
  <2>3. /\ ChainInv' /\ Rest' /\ UNCHANGED Extensions
        /\ \A s : Registered(s)' = Registered(s)
        /\ Extension(draft.id)' = e
    BY <1>3, <1>4, <2>1, <2>2 DEF Grant, counts
  <2>4. Scripts'
    BY <1>1, <2>1, <2>2, <2>3 DEF Grant, Scripts, DraftInv, TestInv, AfterRegister, Testing
  <2> QED
    BY <2>3, <2>4, Parts
<1>8. CASE AllowTeeVersion
  <2> DEFINE id == machines[proxy].ext
             e  == [Extension(id) EXCEPT !.version = TRUE]
  <2>1. /\ at = "version" /\ at' = "preRegister" /\ at' \in Steps /\ proxy # 0
    BY <1>1, <1>8 DEF AllowTeeVersion, Step, Steps, Scripts
  <2>2. id \in Extensions
    BY <1>1, <2>1, Entries DEF Rest, MachineRecord
  <2>3. e \in ExtensionRecord
    BY <1>1, <2>2, Entries DEF ExtensionRecord
  <2>4. registry' = [registry EXCEPT ![id + 1] = e]
    BY <1>8 DEF AllowTeeVersion, Extension
  <2>5. /\ ChainInv' /\ Rest' /\ UNCHANGED Extensions
        /\ \A s : Registered(s)' = Registered(s)
    BY <1>3, <1>8, <2>1, <2>2, <2>3, <2>4 DEF AllowTeeVersion, counts
  <2>6. Scripts'
    BY <1>1, <1>8, <2>1, <2>5
       DEF AllowTeeVersion, Scripts, DraftInv, TestInv, AfterRegister, Testing, services
  <2> QED
    BY <2>5, <2>6, Parts
<1> QED
  BY <1>5, <1>6, <1>7, <1>8

\* A new InstructionSender has no extension yet.
LEMMA DeployStep == ASSUME IInv, DeployInstructionSender PROVE IInv'
<1> DEFINE new == Len(senders) + 1
<1>1. TypeOK /\ ChainInv /\ Rest /\ Scripts
  BY Parts DEF IInv
<1>2. /\ at' = "register" /\ senders' = Append(senders, 0)
      /\ draft' = [id |-> 0, sender |-> new]
      /\ UNCHANGED <<registry, machines, config, mode, tee, proxy, hasKey, sent, result,
                     mishaps, whims>>
  BY DEF DeployInstructionSender, Step, services, counts
<1>3. /\ senders' \in Seq({0} \cup Extensions) /\ Len(senders') = new /\ new \in Nat
      /\ Len(senders) \in Nat /\ \A s \in 1..Len(senders) : senders'[s] = senders[s]
      /\ senders'[new] = 0
  BY <1>1, <1>2, AppendProperties, Entries DEF TypeOK
<1>4. Extensions' = Extensions /\ \A id : Extension(id)' = Extension(id)
  BY <1>2 DEF Extensions, Extension
<1>5. ExtensionRecord \subseteq ExtensionRecord'
  BY <1>3 DEF ExtensionRecord
<1>6. registry' \in Seq(ExtensionRecord')
  BY <1>1, <1>2, <1>5, SeqMonotonic DEF TypeOK
<1>7. \A s : Registered(s)' = Registered(s)
  BY <1>4 DEF Registered
<1>8. Registered(new) = {}
  BY <1>1, <1>3, Entries DEF Registered, ExtensionRecord
<1>9a. ConfigIsComplete'
  BY <1>1, <1>2, <1>4, <1>7 DEF ChainInv, ConfigIsComplete
<1>9b. \A s \in 1..new : s = new \/ s \in 1..Len(senders)
  BY <1>3
<1>9c. SendersKnowTheirExtension'
  <2> SUFFICES ASSUME NEW s \in 1..new, senders'[s] # 0
               PROVE  registry'[senders'[s] + 1].sender = s
    BY <1>3 DEF SendersKnowTheirExtension, Extension
  <2>1. s \in 1..Len(senders) /\ senders'[s] = senders[s]
    BY <1>3, <1>9b
  <2>2. Extension(senders[s]).sender = s
    BY <1>1, <2>1 DEF ChainInv, SendersKnowTheirExtension
  <2> QED
    BY <1>2, <2>1, <2>2 DEF Extension
<1>9. ConfigIsComplete' /\ SendersKnowTheirExtension'
  BY <1>9a, <1>9c
<1>10. ChainInv'
  BY <1>1, <1>2, <1>3, <1>4, <1>6, <1>9 DEF ChainInv, MachineRecord
<1>11. Rest'
  BY <1>1, <1>2, <1>3, <1>4 DEF Rest, Steps
<1>12. Scripts'
  BY <1>2, <1>3, <1>7, <1>8 DEF Scripts, DraftInv, TestInv, AfterRegister, Testing
<1> QED
  BY <1>10, <1>11, <1>12, Parts

\* The new extension is its sender's first and only one.
LEMMA RegisterStep == ASSUME IInv, RegisterExtension PROVE IInv'
<1> PICK new : new = Len(registry)
  OBVIOUS
<1> PICK e : e = [sender |-> draft.sender, machineOwner |-> FALSE,
                  projectOwner |-> FALSE, keyType |-> FALSE, version |-> FALSE]
  OBVIOUS
<1>1. TypeOK /\ ChainInv /\ Rest /\ Scripts
  BY Parts DEF IInv
<1>2. /\ at = "register" /\ at' = "machineOwner" /\ registry' = Append(registry, e)
      /\ draft' = [draft EXCEPT !.id = new]
      /\ UNCHANGED <<senders, machines, config, mode, tee, proxy, hasKey, sent, result,
                     mishaps, whims>>
  BY DEF RegisterExtension, Step, services, counts
<1>3. draft.sender \in 1..Len(senders) /\ Registered(draft.sender) = {}
  BY <1>1, <1>2 DEF Scripts, DraftInv
<1>4. e \in ExtensionRecord /\ e.sender = draft.sender
  BY <1>3, <1>1, Entries DEF ExtensionRecord
<1>5. /\ registry' \in Seq(ExtensionRecord) /\ Len(registry') = new + 1 /\ new \in Nat
      /\ \A i \in 1..new : registry'[i] = registry[i]
      /\ registry'[new + 1] = e
  BY <1>1, <1>2, <1>4, AppendProperties, Entries DEF TypeOK
<1>6. /\ Extensions' = Extensions \cup {new} /\ new \notin Extensions
      /\ \A id \in Extensions : Extension(id)' = Extension(id)
      /\ Extension(new)' = e
  <2>1. Extensions' = Extensions \cup {new} /\ new \notin Extensions
    BY <1>5 DEF Extensions
  <2>2. \A id \in Extensions : id + 1 \in 1..new
    BY <1>5 DEF Extensions
  <2>3. /\ \A id \in Extensions : Extension(id)' = Extension(id)
        /\ Extension(new)' = e
    BY <1>5, <2>2 DEF Extension
  <2> QED
    BY <2>1, <2>3
<1>7. \A s : Registered(s)' = Registered(s) \cup (IF s = e.sender THEN {new} ELSE {})
  BY <1>6 DEF Registered
<1>8. ExtensionRecord' = ExtensionRecord /\ MachineRecord \subseteq MachineRecord'
  BY <1>2, <1>6 DEF ExtensionRecord, MachineRecord
<1>9. senders' \in Seq({0} \cup Extensions') /\ machines' \in Seq(MachineRecord')
  BY <1>1, <1>2, <1>6, <1>8, SeqMonotonic DEF TypeOK
<1>10. ConfigIsComplete'
  BY <1>1, <1>2, <1>3, <1>4, <1>6, <1>7 DEF ChainInv, ConfigIsComplete, NoConfig
<1>11. SendersKnowTheirExtension'
  BY <1>1, <1>2, <1>6, Entries DEF ChainInv, SendersKnowTheirExtension
<1>12. \A m \in 1..Len(machines) : machines[m].ext \in Extensions
  BY <1>1, Entries DEF MachineRecord
<1>13. ChainInv'
  BY <1>1, <1>2, <1>5, <1>6, <1>8, <1>9, <1>10, <1>11, <1>12 DEF ChainInv
<1>14. draft'.id = new /\ draft'.sender = draft.sender
  BY <1>2, <1>1 DEF RegisterExtension, TypeOK
<1>15. Rest'
  BY <1>1, <1>2, <1>6, <1>14 DEF Rest, Steps
<1>16. Scripts'
  BY <1>2, <1>3, <1>4, <1>6, <1>7, <1>14 DEF Scripts, DraftInv, TestInv, AfterRegister, Testing
<1> QED
  BY <1>13, <1>15, <1>16, Parts

\* What the config says is finished when it is written, and stays finished;
\* a script that dies loses at most the config.
LEMMA ConfigSteps == ASSUME IInv, WriteConfig \/ ScriptDies PROVE IInv'
<1>1. TypeOK /\ ChainInv /\ Rest /\ Scripts
  BY Parts DEF IInv
<1>2. /\ UNCHANGED <<registry, senders, machines, mode, tee, proxy, hasKey, draft, sent,
                     result, whims>>
      /\ at' = "idle" /\ at # "idle"
  BY DEF WriteConfig, ScriptDies, Step, services, chain, counts
<1>3. config' = config \/ (at = "write" /\ config' = draft) \/ config' = NoConfig
  BY DEF WriteConfig, ScriptDies, Step
<1>4. mishaps' \in 0..MaxMishaps
  BY <1>1, ExtensionSetupAssumption
     DEF WriteConfig, ScriptDies, Mishap, counts, Rest, ExtensionSetupAssumption
<1>5. /\ Extensions' = Extensions /\ ExtensionRecord' = ExtensionRecord
      /\ MachineRecord' = MachineRecord
      /\ (\A id : Extension(id)' = Extension(id))
      /\ (\A s : Registered(s)' = Registered(s))
  BY <1>2 DEF Extensions, Extension, ExtensionRecord, MachineRecord, Registered
<1>6. /\ config' = NoConfig \/ (config'.id \in Extensions /\ config'.sender \in 1..Len(senders))
      /\ ConfigIsComplete'
  <2>1. CASE config' = config
    BY <1>1, <1>5, <2>1 DEF ChainInv, ConfigIsComplete
  <2>2. CASE at = "write" /\ config' = draft
    BY <1>1, <1>5, <2>2 DEF Scripts, DraftInv, AfterRegister, ConfigIsComplete
  <2>3. CASE config' = NoConfig
    BY <2>3 DEF ConfigIsComplete
  <2> QED
    BY <1>3, <2>1, <2>2, <2>3
<1>7. ChainInv'
  BY <1>1, <1>2, <1>5, <1>6 DEF ChainInv, SendersKnowTheirExtension, NoConfig
<1>8. Rest'
  BY <1>1, <1>2, <1>4, <1>5 DEF Rest, Steps
<1>9. Scripts'
  BY <1>2 DEF Scripts, DraftInv, TestInv, AfterRegister, Testing
<1> QED
  BY <1>7, <1>8, <1>9, Parts

\* A machine that is started is for the extension of the config, and the
\* registry does not know it yet.
LEMMA StartStep ==
    ASSUME IInv, StartServices, mishaps' \in 0..MaxMishaps, whims' \in 0..MaxWhims
    PROVE  IInv'
<1>1. TypeOK /\ ChainInv /\ Rest /\ Scripts
  BY Parts DEF IInv
<1>2. /\ UNCHANGED <<registry, senders, config, mode, draft, sent, result>>
      /\ config # NoConfig /\ at = "idle" /\ at' \in {"idle", "startProxy"}
  BY DEF StartServices, Recreate, StartTee, Step, chain
<1>3. CASE UNCHANGED <<machines, tee, proxy, hasKey>>
  <2>1. ChainInv' /\ UNCHANGED Extensions
    BY <1>2, <1>3, Keeping DEF chain
  <2>2. Rest'
    BY <1>1, <1>2, <1>3, <2>1 DEF Rest, Steps
  <2>3. Scripts'
    BY <1>2 DEF Scripts, DraftInv, TestInv, AfterRegister, Testing
  <2> QED
    BY <2>1, <2>2, <2>3, Parts
<1>4. CASE /\ machines' = Append(machines, NewMachine(config.id))
           /\ tee' = Len(machines) + 1 /\ proxy' \in {proxy, tee'} /\ hasKey' = FALSE
  <2>1. NewMachine(config.id) \in MachineRecord /\ NewMachine(config.id).status = "none"
    BY <1>1, <1>2 DEF ChainInv, NewMachine, MachineRecord
  <2>2. /\ machines' \in Seq(MachineRecord) /\ Len(machines') = Len(machines) + 1
        /\ Len(machines) \in Nat
        /\ \A m \in 1..Len(machines) : machines'[m] = machines[m]
        /\ machines'[Len(machines) + 1].status = "none"
    BY <1>1, <1>4, <2>1, AppendProperties, Entries DEF TypeOK
  <2>3. /\ Extensions' = Extensions /\ ExtensionRecord' = ExtensionRecord
        /\ MachineRecord' = MachineRecord
        /\ (\A id : Extension(id)' = Extension(id))
        /\ (\A s : Registered(s)' = Registered(s))
    BY <1>2 DEF Extensions, Extension, ExtensionRecord, MachineRecord, Registered
  <2>4. (\A m \in 1..Len(machines) : machines[m].status # "none" =>
            Extension(machines[m].ext).machineOwner /\ Extension(machines[m].ext).version)'
    <3>1. \A m \in 1..Len(machines') :
             machines'[m].status # "none" =>
                m \in 1..Len(machines) /\ machines'[m] = machines[m]
      BY <2>2
    <3> QED
      BY <1>1, <1>2, <3>1 DEF ChainInv, Extension
  <2>5. ConfigIsComplete' /\ SendersKnowTheirExtension'
    BY <1>1, <1>2, <2>3 DEF ChainInv, ConfigIsComplete, SendersKnowTheirExtension
  <2>6. ChainInv'
    BY <1>1, <1>2, <2>2, <2>3, <2>4, <2>5 DEF ChainInv, NoConfig
  <2>7. hasKey' \in BOOLEAN
    BY <1>4
  <2>8. {tee', proxy', sent'} \subseteq 0..Len(machines')
    BY <1>1, <1>2, <1>4, <2>2 DEF Rest
  <2>9. Rest'
    BY <1>1, <1>2, <2>3, <2>7, <2>8 DEF Rest, Steps
  <2>10. Scripts'
    BY <1>2 DEF Scripts, DraftInv, TestInv, AfterRegister, Testing
  <2> QED
    BY <2>6, <2>9, <2>10, Parts
<1> QED
  BY <1>3, <1>4 DEF StartServices, Recreate, StartTee

\* post-build.sh's steps on the machine: to get a record it must have an
\* allowed version and owner; to be promoted it must have a record.
LEMMA MachineSteps == ASSUME IInv, PreRegister \/ Promote PROVE IInv'
<1>1. TypeOK /\ ChainInv /\ Rest /\ Scripts
  BY Parts DEF IInv
<1>2. /\ UNCHANGED <<registry, senders, config, mode, tee, proxy, hasKey, draft, sent,
                     result, mishaps, whims>>
      /\ at \in {"preRegister", "promote"} /\ at' \in {"promote", "idle"}
      /\ proxy \in 1..Len(machines) /\ Len(machines) \in Nat
      /\ machines \in Seq(MachineRecord)
  BY <1>1, Entries DEF PreRegister, Promote, Step, services, chain, counts, Scripts, Rest,
                       TypeOK
<1>3. CASE UNCHANGED machines /\ (at' = "promote" => machines[proxy].status # "none")
  <2>1. ChainInv' /\ UNCHANGED Extensions
    BY <1>2, <1>3, Keeping DEF chain
  <2>2. Rest'
    BY <1>1, <1>2, <1>3, <2>1 DEF Rest, Steps
  <2>3. Scripts'
    BY <1>2, <1>3 DEF Scripts, DraftInv, TestInv, AfterRegister, Testing
  <2> QED
    BY <2>1, <2>2, <2>3, Parts
<1>4. ASSUME NEW status \in {"initialized", "production"},
             machines' = [machines EXCEPT ![proxy].status = status],
             Extension(machines[proxy].ext).machineOwner,
             Extension(machines[proxy].ext).version
      PROVE  IInv'
  <2> DEFINE m1 == [machines[proxy] EXCEPT !.status = status]
  <2>1. machines[proxy] \in MachineRecord
    BY <1>1, <1>2, Entries
  <2>2. m1 \in MachineRecord /\ m1.ext = machines[proxy].ext /\ m1.status = status
    BY <1>4, <2>1 DEF MachineRecord
  <2>3. machines' = [machines EXCEPT ![proxy] = m1]
    BY <1>4
  <2> HIDE DEF m1
  <2>4. /\ machines' \in Seq(MachineRecord) /\ Len(machines') = Len(machines)
        /\ \A m \in 1..Len(machines) : machines'[m] = IF m = proxy THEN m1 ELSE machines[m]
    BY <1>2, <2>2, <2>3, ExceptSeq
  <2>5. /\ Extensions' = Extensions /\ ExtensionRecord' = ExtensionRecord
        /\ MachineRecord' = MachineRecord
        /\ (\A id : Extension(id)' = Extension(id))
        /\ (\A s : Registered(s)' = Registered(s))
    BY <1>2 DEF Extensions, Extension, ExtensionRecord, MachineRecord, Registered
  <2>6. (\A m \in 1..Len(machines) : machines[m].status # "none" =>
            Extension(machines[m].ext).machineOwner /\ Extension(machines[m].ext).version)'
    BY <1>1, <1>4, <2>2, <2>4, <2>5 DEF ChainInv
  <2>7. ConfigIsComplete' /\ SendersKnowTheirExtension'
    BY <1>1, <1>2, <2>5 DEF ChainInv, ConfigIsComplete, SendersKnowTheirExtension
  <2>8. ChainInv'
    BY <1>1, <1>2, <2>4, <2>5, <2>6, <2>7 DEF ChainInv, NoConfig
  <2>9. Rest'
    BY <1>1, <1>2, <2>4, <2>5 DEF Rest, Steps
  <2>10. machines'[proxy].status # "none"
    BY <1>2, <1>4, <2>2, <2>4
  <2>11. Scripts'
    BY <1>2, <2>10 DEF Scripts, DraftInv, TestInv, AfterRegister, Testing
  <2> QED
    BY <2>8, <2>9, <2>11, Parts
<1>5. CASE PreRegister
  BY <1>3, <1>4, <1>5 DEF PreRegister
<1>6. CASE Promote
  <2>1. machines[proxy].status # "none" /\ at' = "idle"
    BY <1>1, <1>6 DEF Promote, Step, Scripts
  <2>2. /\ Extension(machines[proxy].ext).machineOwner
        /\ Extension(machines[proxy].ext).version
    BY <1>1, <1>2, <2>1 DEF ChainInv
  <2> QED
    BY <1>3, <1>4, <1>6, <2>1, <2>2 DEF Promote
<1> QED
  BY <1>5, <1>6

\* setExtensionId() finds the extension that the sender was registered with:
\* the config's, the only one there is.
LEMMA SetExtensionIdStep == ASSUME IInv, SetExtensionId PROVE IInv'
<1>1. TypeOK /\ ChainInv /\ Rest /\ Scripts
  BY Parts DEF IInv
<1>2. /\ UNCHANGED <<registry, machines, config, mode, tee, proxy, hasKey, draft, sent,
                     mishaps, whims>>
      /\ at = "setExtensionId" /\ at' \in {"update", "idle"}
      /\ result' \in {result, "failed"}
  BY DEF SetExtensionId, Fail, services, counts
<1>3. /\ config # NoConfig /\ config.id \in Extensions
      /\ config.sender \in 1..Len(senders) /\ Registered(config.sender) = {config.id}
  BY <1>1, <1>2 DEF Scripts, TestInv, Testing, ChainInv, ConfigIsComplete
<1>4. CASE UNCHANGED senders
  <2>1. ChainInv' /\ UNCHANGED Extensions
    BY <1>2, <1>4, Keeping DEF chain
  <2>2. Rest'
    BY <1>1, <1>2, <1>4, <2>1 DEF Rest, Steps
  <2>3. Scripts'
    BY <1>2, <1>3 DEF Scripts, DraftInv, TestInv, AfterRegister, Testing
  <2> QED
    BY <2>1, <2>2, <2>3, Parts
<1>5. CASE senders' = [senders EXCEPT ![config.sender] = ExtensionFound(config.sender)]
  <2>1. ExtensionFound(config.sender) = config.id
    <3>1. config.id <= config.id
      BY <1>1, <1>3, Entries DEF Extensions
    <3> QED
      BY <1>3, <3>1 DEF ExtensionFound, First
  <2>2. /\ senders' \in Seq({0} \cup Extensions) /\ Len(senders') = Len(senders)
        /\ \A s \in 1..Len(senders) :
              senders'[s] = IF s = config.sender THEN config.id ELSE senders[s]
    BY <1>1, <1>3, <1>5, <2>1, ExceptSeq DEF TypeOK
  <2>3. /\ Extensions' = Extensions /\ ExtensionRecord' = ExtensionRecord
        /\ MachineRecord' = MachineRecord
        /\ (\A id : Extension(id)' = Extension(id))
        /\ (\A s : Registered(s)' = Registered(s))
    BY <1>2, <2>2 DEF Extensions, Extension, ExtensionRecord, MachineRecord, Registered
  <2>4. Extension(config.id).sender = config.sender
    BY <1>3 DEF Registered
  <2>5. SendersKnowTheirExtension'
    BY <1>1, <2>2, <2>3, <2>4 DEF ChainInv, SendersKnowTheirExtension
  <2>6. ConfigIsComplete'
    BY <1>1, <1>2, <2>3 DEF ChainInv, ConfigIsComplete
  <2>7. ChainInv'
    BY <1>1, <1>2, <2>2, <2>3, <2>5, <2>6 DEF ChainInv, NoConfig
  <2>8. Rest'
    BY <1>1, <1>2, <2>2, <2>3 DEF Rest, Steps
  <2>9. Scripts'
    BY <1>2, <1>3 DEF Scripts, DraftInv, TestInv, AfterRegister, Testing
  <2> QED
    BY <2>7, <2>8, <2>9, Parts
<1> QED
  BY <1>4, <1>5 DEF SetExtensionId

------------------------------------------------------------------------------
\* Every step of the set-up keeps the invariant.
LEMMA Stepwise == ASSUME IInv, [Next]_vars PROVE IInv'
<1>1. Rest
  BY Parts
<1>2. CASE Operate
  <2>1. mishaps' \in 0..MaxMishaps /\ whims' \in 0..MaxWhims
    BY <1>1, <1>2, ExtensionSetupAssumption
       DEF Operate, counts, Rest, ExtensionSetupAssumption
  <2>2. \/ \E force \in BOOLEAN : PreBuild(force)
        \/ StartServices \/ StopServices \/ PostBuild \/ Test
    <3>1. ASSUME Needed
          PROVE  \/ \E force \in BOOLEAN : PreBuild(force)
                 \/ StartServices \/ StopServices \/ PostBuild \/ Test
      <4>1. (config # NoConfig) \in BOOLEAN
        OBVIOUS
      <4> QED
        BY <3>1, <4>1 DEF Needed
    <3> QED
      BY <1>2, <3>1 DEF Operate, Whim
  <2>3. CASE StartServices
    BY <2>1, <2>3, StartStep
  <2>4. CASE \E force \in BOOLEAN : PreBuild(force)
    BY <2>1, <2>4, QuietSteps DEF PreBuild
  <2>5. CASE StopServices \/ PostBuild \/ Test
    BY <2>1, <2>5, QuietSteps DEF StopServices, PostBuild, Test
  <2> QED
    BY <2>2, <2>3, <2>4, <2>5
<1>3. CASE Run
  <2>1. CASE PollUpdate \/ PollSign
    <3>1. mishaps' \in 0..MaxMishaps /\ whims' \in 0..MaxWhims
      BY <1>1, <2>1, ExtensionSetupAssumption
         DEF PollUpdate, PollSign, GiveUp, Mishap, Rest, ExtensionSetupAssumption
    <3> QED
      BY <2>1, <3>1, QuietSteps DEF PollUpdate, PollSign
  <2>2. CASE StartProxy \/ SendUpdateKey \/ SendSign
    BY <1>1, <2>2, QuietSteps DEF StartProxy, SendUpdateKey, SendSign, Send, counts, Rest
  <2> QED
    BY <1>3, <2>1, <2>2, DeployStep, RegisterStep, GrantSteps, ConfigSteps, MachineSteps,
       SetExtensionIdStep DEF Run
<1>4. CASE ScriptDies
  BY <1>4, ConfigSteps
<1>5. CASE TeeDies
  <2>1. mishaps' \in 0..MaxMishaps /\ whims' \in 0..MaxWhims
    BY <1>1, <1>5, ExtensionSetupAssumption
       DEF TeeDies, Mishap, Rest, ExtensionSetupAssumption
  <2> QED
    BY <1>5, <2>1, QuietSteps DEF TeeDies
<1>6. CASE UNCHANGED vars
  <2>1. /\ UNCHANGED <<chain, machines, config>>
        /\ UNCHANGED <<mode, tee, proxy, hasKey, at, draft, sent, result, mishaps, whims>>
    BY <1>6 DEF vars, services, counts
  <2>2. /\ ChainInv' /\ UNCHANGED <<senders, machines, config, Extensions>>
        /\ \A id : Extension(id)' = Extension(id) /\ Active(id)' = Active(id)
        /\ \A s : Registered(s)' = Registered(s)
    BY <2>1, Keeping
  <2>3. Rest'
    BY <1>1, <2>1, <2>2 DEF Rest
  <2>4. Scripts'
    BY <2>1, <2>2, Parts DEF Scripts, DraftInv, TestInv, AfterRegister, Testing
  <2> QED
    BY <2>2, <2>3, <2>4, Parts
<1> QED
  BY <1>2, <1>3, <1>4, <1>5, <1>6 DEF Next

\* The inductive invariant holds in every state of every run of the scripts.
THEOREM Inductive == Spec => []IInv
BY Initially, Stepwise, PTL DEF Spec

\* Type correctness, for every number of set-ups, machines, deaths and tests.
THEOREM TypeCorrect == Spec => []TypeOK
<1>1. IInv => TypeOK
  BY DEF IInv
<1> QED
  BY Inductive, <1>1, PTL

\* Whatever pre-build.sh dies of, a config that is there names a finished
\* extension, the only one of its InstructionSender.
THEOREM ConfigSafety == Spec => []ConfigIsComplete
<1>1. IInv => ConfigIsComplete
  BY DEF IInv
<1> QED
  BY Inductive, <1>1, PTL

\* setExtensionId() never binds a sender to another sender's extension.
THEOREM SenderSafety == Spec => []SendersKnowTheirExtension
<1>1. IInv => SendersKnowTheirExtension
  BY DEF IInv
<1> QED
  BY Inductive, <1>1, PTL

\* A test passes only when config, sender and machine agree and the machine
\* that answered is in production and has the key.
THEOREM TestSafety == Spec => TestsTellTheTruth
<1> DEFINE Passes == result # "passed" /\ result' = "passed"
           Chain == /\ hasKey /\ tee = proxy
                    /\ machines[tee].status = "production"
                    /\ machines[tee].ext = config.id
                    /\ senders[config.sender] = config.id
                    /\ Extension(config.id).machineOwner /\ Extension(config.id).version
<1>1. ASSUME IInv, [Next]_vars, Passes PROVE Chain
  <2>1. TypeOK /\ ChainInv /\ Rest /\ Scripts
    BY <1>1, Parts DEF IInv
  <2>2. PollSign
    <3>1. ~ UNCHANGED result
      BY <1>1
    <3>2. result' # "failed" /\ result' # "none"
      BY <1>1
    <3>3. CASE Operate
      <4>1. \/ \E force \in BOOLEAN : PreBuild(force)
            \/ StartServices \/ StopServices \/ PostBuild \/ Test
        <5>1. (config # NoConfig) \in BOOLEAN
          OBVIOUS
        <5> QED
          BY <3>3, <5>1 DEF Operate, Whim, Needed
      <4> QED
        BY <3>1, <3>2, <4>1 DEF PreBuild, StartServices, StopServices, PostBuild, Test
    <3>4. CASE Run
      <4>1. ~ (AllowMachineOwner \/ AllowProjectOwner \/ AddKeyType)
        BY <3>1 DEF AllowMachineOwner, AllowProjectOwner, AddKeyType, Grant
      <4>2. ~ (DeployInstructionSender \/ RegisterExtension \/ WriteConfig \/ StartProxy)
        BY <3>1 DEF DeployInstructionSender, RegisterExtension, WriteConfig, StartProxy
      <4>3. ~ (AllowTeeVersion \/ PreRegister \/ Promote)
        BY <3>1 DEF AllowTeeVersion, PreRegister, Promote
      <4>4. ~ (SetExtensionId \/ SendUpdateKey \/ SendSign \/ PollUpdate)
        BY <3>1, <3>2 DEF SetExtensionId, SendUpdateKey, SendSign, Send, PollUpdate, GiveUp,
                          Fail
      <4> QED
        BY <3>4, <4>1, <4>2, <4>3, <4>4 DEF Run
    <3>5. ~ (ScriptDies \/ TeeDies)
      BY <3>1 DEF ScriptDies, TeeDies
    <3>6. ~ UNCHANGED vars
      BY <3>1 DEF vars
    <3> QED
      BY <1>1, <3>3, <3>4, <3>5, <3>6 DEF Next
  <2>3. at = "pollSign" /\ Answered
    BY <1>1, <2>2 DEF PollSign, GiveUp, Fail
  <2>4. /\ config # NoConfig /\ senders[config.sender] # 0
        /\ sent \in Active(senders[config.sender]) /\ (tee = 0 \/ hasKey)
    BY <2>1, <2>3 DEF Scripts, TestInv, Testing
  <2>5. /\ sent = tee /\ sent = proxy /\ tee \in 1..Len(machines) /\ tee # 0
        /\ machines[tee].ext = senders[config.sender]
        /\ machines[tee].status = "production"
    BY <2>3, <2>4 DEF Answered, Active
  <2>6. senders[config.sender] = config.id
    <3>1. config.sender \in 1..Len(senders) /\ Registered(config.sender) = {config.id}
      BY <2>1, <2>4 DEF ChainInv, ConfigIsComplete
    <3>2. /\ Extension(senders[config.sender]).sender = config.sender
          /\ senders[config.sender] \in Extensions
      BY <2>1, <2>4, <3>1, Entries DEF ChainInv, SendersKnowTheirExtension
    <3> QED
      BY <3>1, <3>2 DEF Registered
  <2>7. Extension(machines[tee].ext).machineOwner /\ Extension(machines[tee].ext).version
    BY <2>1, <2>5 DEF ChainInv
  <2> QED
    BY <2>4, <2>5, <2>6, <2>7
<1>2. ASSUME IInv, [Next]_vars PROVE [Passes => Chain]_vars
  BY <1>1, <1>2
<1> QED
  BY Inductive, <1>2, PTL DEF Spec, TestsTellTheTruth

------------------------------------------------------------------------------
\* R1, R2, R4 and R7 pass whenever there is a config.
LEMMA ConfigPasses ==
    ASSUME IInv, config # NoConfig
    PROVE  RegistrationChecks("written") =
              {Check("R1", "PASS"), Check("R2", "PASS"), OwnerCheck(config),
               Check("R4", "PASS"), Check("R7", "PASS")}
<1>1. /\ TypeOK /\ config.id \in Extensions /\ Extension(config.id).keyType
      /\ Registered(config.sender) = {config.id}
  BY DEF IInv, TypeOK, ConfigIsComplete
<1>2. Len(registry) \in Nat /\ Len(registry) # 0
  BY <1>1, Entries DEF Extensions
<1>3. Extension(config.id).sender = config.sender
  BY <1>1 DEF Registered
<1>4. Cardinality(Registered(config.sender)) = 1
  BY <1>1, FS_Singleton
<1>5. CounterCheck = Check("R1", "PASS")
  BY <1>2 DEF CounterCheck
<1>6. SenderCheck(config) = Check("R2", "PASS") /\ KeyTypeCheck(config) = Check("R4", "PASS")
  BY <1>1, <1>3 DEF SenderCheck, KeyTypeCheck
<1>7. UniqueSenderCheck(config) = {Check("R7", "PASS")}
  BY <1>2, <1>4 DEF UniqueSenderCheck
<1>8. Parsed("written") = {config}
  BY DEF Parsed
<1> QED
  BY <1>5, <1>6, <1>7, <1>8 DEF RegistrationChecks

\* With a config only the owner's check fails, and only the ports warn.
LEMMA WrittenReport ==
    ASSUME IInv, config # NoConfig
    PROVE  /\ OwnerCheck(config) \in Report("written")
           /\ \A c \in Report("written") :
                 /\ c.status = "FAIL" => c = OwnerCheck(config) /\ c.id = "R3"
                 /\ c.status = "WARN" => c.id \in {"S5", "S9", "V6", "T10", "E3"}
<1>1. /\ EnvFormatChecks("written") = {Check("D7", "PASS")}
      /\ IdCheck("written") = Check("S2", "PASS")
      /\ VersionIdCheck("written") = Check("V4", "PASS")
      /\ TestSenderCheck("written") = Check("E1", "PASS")
  BY DEF EnvFormatChecks, IdCheck, VersionIdCheck, TestSenderCheck, MissingOrEmpty, Parsed
<1>2. Report("written") =
         {Check("D7", "PASS"), Check("R1", "PASS"), Check("R2", "PASS"), OwnerCheck(config),
          Check("R4", "PASS"), Check("R7", "PASS"), Check("S2", "PASS"), PortCheck,
          ProxyCheck("S9"), Check("V4", "PASS"), ProxyCheck("V6"), ProxyCheck("T10"),
          Check("E1", "PASS"), ProxyCheck("E3")}
  BY <1>1, ConfigPasses
     DEF Report, ServicesChecks, TeeVersionChecks, TeeMachineChecks, TestChecks
<1>3. \A id, status : Check(id, status).id = id /\ Check(id, status).status = status
  BY DEF Check
<1>4. PortCheck \in {Check("S5", "WARN"), Check("S5", "PASS")}
  BY DEF PortCheck
<1>5. \A id : ProxyCheck(id) \in {Check(id, "WARN"), Check(id, "PASS")}
  BY DEF ProxyCheck
<1>6. OwnerCheck(config) \in {Check("R3", "PASS"), Check("R3", "FAIL")}
  BY DEF OwnerCheck
<1> QED
  BY <1>2, <1>3, <1>4, <1>5, <1>6

\* Without one the report fails: S2 does not find the id.
LEMMA UnwrittenReport ==
    ASSUME NEW file \in {"missing", "empty"}
    PROVE  HasFailures(Report(file))
<1>1. IdCheck(file) = Check("S2", "FAIL")
  BY DEF IdCheck, Parsed
<1>2. Check("S2", "FAIL") \in Report(file) /\ Check("S2", "FAIL").status = "FAIL"
  BY <1>1 DEF Report, ServicesChecks, Check
<1> QED
  BY <1>2 DEF HasFailures, With

LEMMA ReportIsExact == IInv => VerifyIsExact
<1> SUFFICES ASSUME IInv, NEW file \in Files
             PROVE  /\ ~ HasFailures(Report(file)) <=>
                          config # NoConfig /\ Extension(config.id).machineOwner
                    /\ config # NoConfig =>
                          /\ With("FAIL", Report(file)) \subseteq {"R3"}
                          /\ With("WARN", Report(file)) \cap {"R1", "R7"} = {}
  BY DEF VerifyIsExact
<1>1. CASE config = NoConfig
  BY <1>1, UnwrittenReport DEF Files
<1>2. CASE config # NoConfig
  <2>1. file = "written"
    BY <1>2 DEF Files
  <2>2. /\ With("FAIL", Report(file)) \subseteq {"R3"}
        /\ With("WARN", Report(file)) \cap {"R1", "R7"} = {}
    BY <1>2, <2>1, WrittenReport DEF With
  <2>3. CASE Extension(config.id).machineOwner
    <3>1. OwnerCheck(config).status = "PASS"
      BY <2>3 DEF OwnerCheck, Check
    <3> QED
      BY <1>2, <2>1, <2>2, <2>3, <3>1, WrittenReport DEF HasFailures, With
  <2>4. CASE ~ Extension(config.id).machineOwner
    <3>1. OwnerCheck(config).status = "FAIL"
      BY <2>4 DEF OwnerCheck, Check
    <3> QED
      BY <1>2, <2>1, <2>2, <2>4, <3>1, WrittenReport DEF HasFailures, With
  <2> QED
    BY <2>3, <2>4
<1> QED
  BY <1>1, <1>2

\* verify-deploy's exit code, for every number of set-ups, machines, deaths and
\* tests: right about the config, and about the grant that may be missing.
THEOREM VerifySafety == Spec => []VerifyIsExact
BY Inductive, ReportIsExact, PTL
=============================================================================

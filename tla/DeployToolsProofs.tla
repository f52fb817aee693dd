---------------------------- MODULE DeployToolsProofs ----------------------------
(***************************************************************************)
(* The deployment tools, for any number of runs, transactions, mishaps and *)
(* calls of others, on every kind of node and in every environment: the    *)
(* config names what its own run registered, the grants of what it names   *)
(* are final, step 1 of run-test is right about the sender, and the        *)
(* reasons that the tools give are true.                                   *)
(***************************************************************************)
EXTENDS DeployTools, SequenceTheorems, TLAPS

Places == {"data", "bytes", "short", "bare", "result"}

LEMMA ReplyFields ==
    ASSUME NEW failed, NEW text, NEW carries, NEW data
    PROVE  /\ Reply(failed, text, carries, data).failed = failed
           /\ Reply(failed, text, carries, data).text = text
           /\ Reply(failed, text, carries, data).carries = carries
           /\ Reply(failed, text, carries, data).data = data
BY Zenon DEF Reply

\* The answer to a call that passes, and to a refusal by the place of its cause.
LEMMA PassedAnswer ==
    ASSUME NEW place, NEW text
    PROVE  ~ Answer({}, place, text).failed /\ Answer({}, place, text).data = {}
           /\ Answer({}, place, text).carries = "none" /\ Answer({}, place, text).text = {}
<1>1. Answer({}, place, text) = Reply(FALSE, {}, "none", {})
  BY Zenon DEF Answer
<1>2. LET reply == Reply(FALSE, {}, "none", {})
      IN  reply.failed = FALSE /\ reply.data = {} /\ reply.carries = "none" /\ reply.text = {}
  BY Zenon DEF Reply
<1> QED
  BY <1>1, <1>2

LEMMA AnswerValues ==
    ASSUME NEW c, NEW text
    PROVE  LET says == IF text THEN Texts({c}) ELSE {}
           IN  /\ Answer({c}, "data", text) = Reply(TRUE, says, "string", {c})
               /\ Answer({c}, "bytes", text) = Reply(TRUE, says, "bytes", {c})
               /\ Answer({c}, "short", text) = Reply(TRUE, says, "string", {Short})
               /\ Answer({c}, "bare", text) = Reply(TRUE, says, "none", {})
               /\ Answer({c}, "result", text) = Reply(FALSE, {}, "none", {c})
<1> {c} # {}
  OBVIOUS
<1> QED
  BY Zenon DEF Answer

\* What an answer to a refusal for the cause c can be.
IsAnswer(reply, c) ==
    /\ reply.failed \in BOOLEAN /\ reply.text \in {{}, Texts({c})}
    /\ reply.carries \in {"string", "bytes", "none"}
    /\ reply.data \in {{}, {Short}, {c}}
    /\ ~ reply.failed => reply.data = {c} /\ reply.carries = "none"

LEMMA AnswerByPlace ==
    ASSUME NEW c, NEW text \in BOOLEAN, NEW place \in Places,
           NEW reply, reply = Answer({c}, place, text)
    PROVE  /\ IsAnswer(reply, c)
           /\ place = "data" => reply.failed /\ reply.data = {c} /\ reply.carries = "string"
           /\ place = "result" => ~ reply.failed
           /\ text /\ place # "result" => reply.failed /\ reply.text = Texts({c})
<1>1. PICK says : says = IF text THEN Texts({c}) ELSE {}
  OBVIOUS
<1>2. says \in {{}, Texts({c})} /\ (text => says = Texts({c}))
  BY <1>1
<1>3. CASE place = "data"
  <2>1. reply = Reply(TRUE, says, "string", {c})
    BY <1>1, <1>3, AnswerValues, Zenon
  <2>2. reply.failed = TRUE /\ reply.text = says /\ reply.carries = "string" /\ reply.data = {c}
    BY <2>1 DEF Reply
  <2> QED
    BY <1>2, <1>3, <2>2 DEF IsAnswer
<1>4. CASE place = "bytes"
  <2>1. reply = Reply(TRUE, says, "bytes", {c})
    BY <1>1, <1>4, AnswerValues, Zenon
  <2>2. reply.failed = TRUE /\ reply.text = says /\ reply.carries = "bytes" /\ reply.data = {c}
    BY <2>1 DEF Reply
  <2> QED
    BY <1>2, <1>4, <2>2 DEF IsAnswer
<1>5. CASE place = "short"
  <2>1. reply = Reply(TRUE, says, "string", {Short})
    BY <1>1, <1>5, AnswerValues, Zenon
  <2>2. reply.failed = TRUE /\ reply.text = says /\ reply.carries = "string" /\ reply.data = {Short}
    BY <2>1 DEF Reply
  <2> QED
    BY <1>2, <1>5, <2>2 DEF IsAnswer
<1>6. CASE place = "bare"
  <2>1. reply = Reply(TRUE, says, "none", {})
    BY <1>1, <1>6, AnswerValues, Zenon
  <2>2. reply.failed = TRUE /\ reply.text = says /\ reply.carries = "none" /\ reply.data = {}
    BY <2>1 DEF Reply
  <2> QED
    BY <1>2, <1>6, <2>2 DEF IsAnswer
<1>7. CASE place = "result"
  <2>1. reply = Reply(FALSE, {}, "none", {c})
    BY <1>1, <1>7, AnswerValues, Zenon
  <2>2. reply.failed = FALSE /\ reply.text = {} /\ reply.carries = "none" /\ reply.data = {c}
    BY <2>1 DEF Reply
  <2> QED
    BY <1>2, <1>7, <2>2 DEF IsAnswer
<1> QED
  BY <1>3, <1>4, <1>5, <1>6, <1>7 DEF Places

\* The two calls of a node of some kind.
LEMMA NodeAnswers ==
    ASSUME NEW n \in Habits, NEW c
    PROVE  /\ IsAnswer(EstimateGas(n, {c}), c) /\ IsAnswer(CallContract(n, {c}), c)
           /\ n.call = "data" =>
                 /\ CallContract(n, {c}).failed /\ CallContract(n, {c}).data = {c}
                 /\ CallContract(n, {c}).carries = "string"
           /\ n.call = "result" => ~ CallContract(n, {c}).failed
           /\ n.text /\ n.call # "result" =>
                 CallContract(n, {c}).failed /\ CallContract(n, {c}).text = Texts({c})
<1> n.text \in BOOLEAN /\ n.call \in Places /\ n.estimate \in Places
  BY DEF Habits, Places
<1>1. /\ EstimateGas(n, {c}) = Answer({c}, n.estimate, n.text)
      /\ CallContract(n, {c}) = Answer({c}, n.call, n.text)
  BY DEF EstimateGas, CallContract
<1>2. IsAnswer(Answer({c}, n.estimate, n.text), c)
  BY AnswerByPlace
<1> QED
  BY <1>1, <1>2, AnswerByPlace

------------------------------------------------------------------------------
\* What the tools read out of revert data.
LEMMA Decoded ==
    ASSUME NEW c \in Causes
    PROVE  /\ c \in Reasons => DecodeRevertHex({c}) = Texts({c}) /\ UnpackRevert({c}) = Texts({c})
           /\ c \in Customs => DecodeRevertHex({c}) = Hexes({c}) /\ UnpackRevert({c}) = {}
           /\ DecodeRevertHex({Short}) = {} /\ UnpackRevert({Short}) = {}
           /\ DecodeRevertHex({}) = {} /\ UnpackRevert({}) = {}
           /\ Texts({c}) # {} /\ Hexes({c}) # {}
BY RevertReasonsAssumption DEF RevertReasonsAssumption, Causes, DecodeRevertHex, UnpackRevert, Texts, Hexes

\* The messages that are about one cause.
About(c) == {Texts({c}), Hexes({c}), Texts({c}) \cup Hexes({c})}

LEMMA Naming ==
    ASSUME NEW c \in Causes
    PROVE  /\ \A message \in About(c) : CausesIn(message) = {c}
           /\ CausesIn({}) = {} /\ CausesIn(Hexes({Short})) = {}
<1>1. c # Short
  BY RevertReasonsAssumption DEF RevertReasonsAssumption, Causes
<1>2. Texts({c}) = {[cause |-> c, by |-> "text"]} /\ Hexes({c}) = {[cause |-> c, by |-> "hex"]}
      /\ Hexes({Short}) = {[cause |-> Short, by |-> "hex"]}
  BY DEF Texts, Hexes
<1>3. \A message, x : x \in CausesIn(message) <=> x # Short /\ \E said \in message : x = said.cause
  BY DEF CausesIn
<1>4. /\ Texts({c}) # {} /\ \A said \in Texts({c}) : said.cause = c
      /\ Hexes({c}) # {} /\ \A said \in Hexes({c}) : said.cause = c
  <2>1. \A said \in Texts({c}) : said.cause = c
    BY DEF Texts
  <2>2. \A said \in Hexes({c}) : said.cause = c
    BY DEF Hexes
  <2> QED
    BY <2>1, <2>2, Decoded
<1>5. \A message \in About(c) : \A x : x \in CausesIn(message) <=> x = c
  <2>1. \A message \in About(c) : message # {} /\ \A said \in message : said.cause = c
    BY <1>4 DEF About
  <2> QED
    BY <1>1, <1>3, <2>1
<1>6. CausesIn({}) = {} /\ CausesIn(Hexes({Short})) = {}
  BY <1>2 DEF CausesIn
<1>7. \A message \in About(c) : CausesIn(message) = {c}
  BY <1>5
<1> QED
  BY <1>6, <1>7

LEMMA LineSays == ASSUME NEW kind, NEW message PROVE Line(kind, message).message = message
BY DEF Line

LEMMA Chosen ==
    ASSUME NEW c \in Causes, NEW abis, abis \subseteq Customs
    PROVE  Selected({c}, abis).message \in {Texts({c}), Hexes({c})}
<1>1. CASE c \in Reasons
  <2>1. {c} \subseteq Reasons /\ ~ ({c} \subseteq abis) /\ ~ ({c} \subseteq Customs \ abis)
    BY <1>1, RevertReasonsAssumption DEF RevertReasonsAssumption
  <2>2. Selected({c}, abis) = Line("reason", UnpackRevert({c}))
    BY <2>1, Zenon DEF Selected
  <2>3. UnpackRevert({c}) = Texts({c})
    BY <1>1, Decoded
  <2> QED
    BY <2>2, <2>3, LineSays
<1>2. CASE c \in abis
  <2>1. ~ ({c} \subseteq Reasons) /\ {c} \subseteq abis /\ ~ ({c} \subseteq Customs \ abis)
    BY <1>2, RevertReasonsAssumption DEF RevertReasonsAssumption
  <2>2. Selected({c}, abis) = Line("custom error", Texts({c}))
    BY <2>1, Zenon DEF Selected
  <2> QED
    BY <2>2, LineSays
<1>3. CASE c \in Customs \ abis
  <2>1. ~ ({c} \subseteq Reasons) /\ ~ ({c} \subseteq abis) /\ {c} \subseteq Customs \ abis
    BY <1>3, RevertReasonsAssumption DEF RevertReasonsAssumption
  <2>2. Selected({c}, abis) = Line("unknown selector", Hexes({c}))
    BY <2>1, Zenon DEF Selected
  <2> QED
    BY <2>2, LineSays
<1> QED
  BY <1>1, <1>2, <1>3 DEF Causes

\* Each account of a refusal for c is about c, or names no cause.
Silent == {{}, Hexes({Short})}

LEMMA Simulated ==
    ASSUME NEW c \in Causes, NEW reply, IsAnswer(reply, c)
    PROVE  /\ SimulateAndDecodeRevert(reply) \in {{}, Texts({c}), Hexes({c})}
           /\ DecodeRevertReason(reply) \in {{}, Texts({c}), Hexes({c})}
           /\ reply.data = {c} /\ (reply.failed => reply.carries = "string") =>
                 SimulateAndDecodeRevert(reply) \in {Texts({c}), Hexes({c})}
           /\ reply.data = {c} /\ reply.carries = "string" => DecodeRevertReason(reply) # {}
BY Decoded DEF Causes, IsAnswer, SimulateAndDecodeRevert, DecodeRevertReason

LEMMA Sent ==
    ASSUME NEW c \in Causes, NEW n \in Habits
    PROVE  /\ SendMessage(n, {c}, {c}) \in {{}} \cup About(c)
           /\ n.call = "data" => SendMessage(n, {c}, {c}) \in About(c)
<1> DEFINE estimate == EstimateGas(n, {c})
           reply == CallContract(n, {c})
<1>1. IsAnswer(estimate, c) /\ IsAnswer(reply, c)
  BY NodeAnswers
<1>2. estimate.text \in {{}, Texts({c})}
  BY <1>1 DEF IsAnswer
<1>3. n.call = "data" => SimulateAndDecodeRevert(reply) \in {Texts({c}), Hexes({c})}
  BY <1>1, NodeAnswers, Simulated
<1>4. /\ DecodeRevertReason(estimate) \in {{}, Texts({c}), Hexes({c})}
      /\ SimulateAndDecodeRevert(reply) \in {{}, Texts({c}), Hexes({c})}
  BY <1>1, Simulated
<1>5. SendMessage(n, {c}, {c}) =
         estimate.text \cup (IF DecodeRevertReason(estimate) # {} THEN DecodeRevertReason(estimate)
                             ELSE SimulateAndDecodeRevert(reply))
  BY DEF SendMessage
<1> HIDE DEF estimate, reply
<1> QED
  BY <1>2, <1>3, <1>4, <1>5 DEF About

LEMMA Failing ==
    ASSUME NEW c \in Causes, NEW n \in Habits
    PROVE  /\ GetFailingMessage(n, {c}) \in {{}, Texts({c}), Hexes({c})}
           /\ n.call = "data" /\ n.fees # "dynamic" /\ c \in Reasons =>
                 GetFailingMessage(n, {c}) = Texts({c})
<1> DEFINE reply == CallContract(n, {c})
<1>1. /\ IsAnswer(reply, c)
      /\ n.call = "data" => reply.failed /\ reply.data = {c} /\ reply.carries = "string"
  BY NodeAnswers
<1>2. DecodeRevertFromError(reply) \in {{}, Texts({c})}
  BY <1>1, Decoded DEF IsAnswer, DecodeRevertFromError, Causes
<1>3. n.call = "data" /\ c \in Reasons => DecodeRevertFromError(reply) = Texts({c})
  BY <1>1, Decoded DEF DecodeRevertFromError
<1>4. ~ reply.failed => UnpackRevert(reply.data) \in {{}, Texts({c})} /\ reply.data = {c}
  BY <1>1, Decoded DEF IsAnswer, Causes
<1>5. reply.text \in {{}, Texts({c})}
  BY <1>1 DEF IsAnswer
<1>6. Texts({c}) # {}
  BY Decoded
<1>7. GetFailingMessage(n, {c}) =
         IF n.fees = "dynamic" THEN {}
         ELSE IF reply.failed
              THEN IF DecodeRevertFromError(reply) # {} THEN DecodeRevertFromError(reply)
                   ELSE reply.text
              ELSE IF UnpackRevert(reply.data) # {} THEN UnpackRevert(reply.data)
                   ELSE Hexes(reply.data)
  BY DEF GetFailingMessage
<1> HIDE DEF reply
<1> QED
  BY <1>1, <1>2, <1>3, <1>4, <1>5, <1>6, <1>7

LEMMA Diagnosed ==
    ASSUME NEW c \in Causes, NEW reply, IsAnswer(reply, c)
    PROVE  /\ Diagnose(reply).message \in Silent \cup {Texts({c}), Hexes({c})}
           /\ reply.failed /\ reply.data = {c} /\ reply.carries = "string" =>
                 Diagnose(reply).message \in {Texts({c}), Hexes({c})}
<1> DEFINE data == ExtractRevertData(reply)
<1>1. /\ data \in {{}, {Short}, {c}}
      /\ reply.data = {c} /\ reply.carries = "string" => data = {c}
  BY DEF IsAnswer, ExtractRevertData
<1>2. {c} # {} /\ {c} # {Short} /\ {Short} # {}
  BY RevertReasonsAssumption DEF RevertReasonsAssumption, Causes
<1>3. Selected({c}, KnownErrors).message \in {Texts({c}), Hexes({c})}
  BY Chosen, RevertReasonsAssumption DEF RevertReasonsAssumption
<1>4. reply.text \in {{}, Texts({c})}
  BY DEF IsAnswer
<1>5. Diagnose(reply) =
         IF ~ reply.failed THEN Line("succeeded", {})
         ELSE IF data = {} THEN Line("no data", reply.text)
         ELSE IF data = {Short} THEN Line("too short", Hexes(data))
         ELSE Selected(data, KnownErrors)
  BY DEF Diagnose
<1> HIDE DEF data
<1>6. CASE ~ reply.failed
  BY <1>5, <1>6, LineSays DEF Silent
<1>7. CASE reply.failed /\ data = {}
  <2>1. Diagnose(reply).message = reply.text
    BY <1>5, <1>7, LineSays
  <2> QED
    BY <1>1, <1>2, <1>4, <1>7, <2>1 DEF Silent
<1>8. CASE reply.failed /\ data = {Short}
  <2>1. Diagnose(reply).message = Hexes({Short})
    BY <1>2, <1>5, <1>8, LineSays
  <2> QED
    BY <1>1, <1>2, <1>8, <2>1 DEF Silent
<1>9. CASE reply.failed /\ data = {c}
  BY <1>2, <1>3, <1>5, <1>9
<1> QED
  BY <1>1, <1>6, <1>7, <1>8, <1>9

LEMMA Replayed ==
    ASSUME NEW c \in Causes, NEW n \in Habits
    PROVE  /\ ReplayAddTeeVersion(n, {c}).message \in Silent \cup {Texts({c}), Hexes({c})}
           /\ n.call = "data" =>
                 ReplayAddTeeVersion(n, {c}).message \in {Texts({c}), Hexes({c})}
<1> DEFINE reply == CallContract(n, {c})
           data == ExtractRevertData(reply)
<1>0. /\ IsAnswer(reply, c)
      /\ n.call = "data" => reply.failed /\ reply.data = {c} /\ reply.carries = "string"
  BY NodeAnswers
<1>1. /\ data \in {{}, {Short}, {c}}
      /\ n.call = "data" => data = {c}
  BY <1>0 DEF IsAnswer, ExtractRevertData
<1>2. /\ ~ ({c} \subseteq {Short}) /\ {} \subseteq {Short} /\ {Short} \subseteq {Short}
      /\ {c} \notin {{}, {Short}}
  BY RevertReasonsAssumption DEF RevertReasonsAssumption, Causes
<1>3. Selected({c}, AuditErrors).message \in {Texts({c}), Hexes({c})}
  BY Chosen, RevertReasonsAssumption DEF RevertReasonsAssumption
<1>4. reply.text \in {{}, Texts({c})}
  BY <1>0 DEF IsAnswer
<1>5. ReplayAddTeeVersion(n, {c}) =
         IF ~ reply.failed THEN Line("succeeded", {})
         ELSE IF data \subseteq {Short} THEN Line("no data", reply.text)
         ELSE Selected(data, AuditErrors)
  BY DEF ReplayAddTeeVersion
<1> HIDE DEF data, reply
<1>6. CASE ~ reply.failed
  BY <1>0, <1>5, <1>6, LineSays DEF Silent
<1>7. CASE reply.failed /\ data \in {{}, {Short}}
  BY <1>1, <1>2, <1>4, <1>5, <1>7, LineSays DEF Silent
<1>8. CASE reply.failed /\ data = {c}
  BY <1>2, <1>3, <1>5, <1>8
<1> QED
  BY <1>1, <1>6, <1>7, <1>8

\* The reasons that the tools give are the contract's, on every kind of node.
LEMMA ReasonsAlwaysTrue == ASSUME NEW n \in Habits PROVE ReasonsAreTrue(n)
<1> SUFFICES ASSUME NEW c \in Causes
             PROVE  /\ \A account \in Accounts(n, {c}) : CausesIn(account) \subseteq {c}
                    /\ n.call = "data" =>
                          /\ \A account \in Searches(n, {c}) : CausesIn(account) = {c}
                          /\ c \in Reasons /\ n.fees = "legacy" =>
                                CausesIn(GetFailingMessage(n, {c})) = {c}
  BY DEF ReasonsAreTrue
<1>1. ASSUME NEW account \in Searches(n, {c})
      PROVE  account \in Silent \cup About(c) /\ (n.call = "data" => account \in About(c))
  <2>1. CASE account = SendMessage(n, {c}, {c})
    BY <2>1, Sent DEF Silent
  <2>2. CASE account = MinedMessage(n, {c})
    BY <2>2, Simulated, NodeAnswers DEF MinedMessage, Silent, About
  <2>3. CASE account \in {DiagAvailabilityCheckRevert(n, {c}).message,
                          DiagToProductionRevert(n, {c}).message}
    BY <2>3, Diagnosed, NodeAnswers
       DEF DiagAvailabilityCheckRevert, DiagToProductionRevert, About
  <2>4. CASE account = ReplayAddTeeVersion(n, {c}).message
    BY <2>4, Replayed DEF About
  <2> QED
    BY <1>1, <2>1, <2>2, <2>3, <2>4 DEF Searches
<1>2. /\ GetFailingMessage(n, {c}) \in Silent \cup About(c)
      /\ n.call = "data" /\ c \in Reasons /\ n.fees = "legacy" =>
            GetFailingMessage(n, {c}) \in About(c)
  BY Failing, RevertReasonsAssumption DEF Silent, About, Causes
<1>3. \A account \in Silent \cup About(c) : CausesIn(account) \subseteq {c}
  BY Naming DEF Silent
<1>4. \A account \in About(c) : CausesIn(account) = {c}
  BY Naming DEF Silent
<1> QED
  BY <1>1, <1>2, <1>3, <1>4 DEF Accounts

------------------------------------------------------------------------------
\* DeployEnvironment: which keys sign.
LEMMA KeyValues ==
    ASSUME NEW e \in Environment
    PROVE  /\ e.deploymentKey = "" => DefaultPrivateKey(e) = {"dev"}
           /\ e.deploymentKey = "deployer" => DefaultPrivateKey(e) = {"deployer"}
           /\ e.deploymentKey = "malformed" => DefaultPrivateKey(e) = {}
           /\ e.ownerKey = "" => OwnerKey(e) = DefaultPrivateKey(e)
           /\ e.ownerKey = "owner" => OwnerKey(e) = {"owner"}
           /\ e.ownerKey = "malformed" => OwnerKey(e) = {}
BY Zenon DEF DefaultPrivateKey, OwnerKey

LEMMA KeyTypes ==
    ASSUME NEW e \in Environment
    PROVE  /\ DefaultPrivateKey(e) \in {{}, {"dev"}, {"deployer"}}
           /\ OwnerKey(e) \in {{}, {"dev"}, {"deployer"}, {"owner"}}
           /\ e.deploymentKey \in {"", "deployer", "malformed"}
           /\ e.ownerKey \in {"", "owner", "malformed"}
<1>1. e.deploymentKey \in {"", "deployer", "malformed"} /\ e.ownerKey \in {"", "owner", "malformed"}
  BY DEF Environment
<1> QED
  BY <1>1, KeyValues

------------------------------------------------------------------------------
\* The log of transactions against the chain.
N == 1..Len(txs)
Ids == 0..Len(extensions) - 1
Grants == {"machineOwner", "projectOwner", "keyType"}

Mined(n, op) == n \in N /\ txs[n].call.op = op /\ txs[n].fate = "mined"

\* The transaction n deployed the sender s; n registered the extension id for s.
Deployed(n, s)       == Mined(n, "deploy") /\ txs[n].made = s
RegisteredBy(n, s, id) == Mined(n, "register") /\ txs[n].call.on = s /\ txs[n].made = id

Words == {"", "machineOwner", "projectOwner", "keyType"} \cup Images
Keys  == {"dev", "deployer", "owner"}

Extensions == Seq([sender : Nat, owner : SUBSET Keys, granted : SUBSET Words,
                   versions : SUBSET Words])

Hashes == {""} \cup Images

Tools == [at : BuildSteps \cup {"idle", "write", "setExtensionId", "addTeeVersion", "explain"},
          tx : Nat, id : Nat, sender : Nat, hash : Hashes, why : SUBSET Causes]
Ends  == [tool : {"none", "setExtensionId", "addTeeVersion"}, well : BOOLEAN,
          id : Nat, hash : Hashes]

ShapeInv ==
    /\ setting \in Settings
    /\ extensions \in Extensions
    /\ Len(extensions) > 0 /\ Extension(0) = Foreign
    /\ bound \in Seq(Nat)
    /\ txs \in Seq(TxRecord)
    /\ config \in [id : Nat, sender : Nat]
    /\ tool \in Tools /\ ended \in Ends
    /\ builds \in 0..MaxBuilds /\ tests \in 0..MaxTests
    /\ others \in 0..MaxOthers /\ mishaps \in 0..MaxMishaps

\* What is asked for exists: a sender was deployed before it was registered.
Asked(n) ==
    LET call == txs[n].call
    IN  /\ call.op = "register" => \E m \in N : m < n /\ Deployed(m, call.on)
        /\ call.op \in {"grant", "addTeeVersion"} => call.on \in Ids \ {0}
        /\ call.op = "setExtensionId" => call.on \in 1..Len(bound)

CallsInv == \A n \in N : Asked(n)

\* What was mined has had its effect.
Effected(n) ==
    LET call == txs[n].call
    IN  /\ Mined(n, "deploy") => txs[n].made \in 1..Len(bound)
        /\ Mined(n, "register") =>
              txs[n].made \in Ids \ {0} /\ Extension(txs[n].made).sender = call.on
        /\ Mined(n, "grant") => call.what \in Extension(call.on).granted
        /\ Mined(n, "setExtensionId") => bound[call.on] # 0

EffectInv == \A n \in N : Effected(n)

\* A sender is deployed once, and registered once.
OneDeploy ==
    \A n, m \in N :
        Mined(n, "deploy") /\ Mined(m, "deploy") /\ txs[n].made = txs[m].made => n = m
OneRegister ==
    \A n, m \in N :
        txs[n].call.op = "register" /\ txs[m].call.op = "register"
        /\ txs[n].call.on = txs[m].call.on => n = m

OnceInv == OneDeploy /\ OneRegister

\* An extension with a sender was registered by one of the transactions, and a
\* sender knows an extension of its own.
OwnInv ==
    /\ \A id \in Ids : Extension(id).sender # 0 =>
          \E n \in N : RegisteredBy(n, Extension(id).sender, id)
    /\ \A s \in 1..Len(bound) : bound[s] # 0 => bound[s] \in Registered(s)

LogInv == CallsInv /\ EffectInv /\ OnceInv /\ OwnInv

\* The transactions of one key are decided in the order of their nonces, and
\* pre-build.sh signs with one key.
FromInv ==
    \A n \in N : txs[n].call.op \in {"register", "grant"} => txs[n].call.from = Sender
SettledInv ==
    \A m, n \in N :
        m < n /\ SameKey(m, n) /\ txs[n].fate \in {"mined", "failed"} => txs[m].fate # "pending"

OrderInv == FromInv /\ SettledInv

\* No grant to this extension waits to be mined.
NoGrantWaits(id) ==
    \A n \in N : txs[n].call.op = "grant" /\ txs[n].call.on = id => txs[n].fate # "pending"

\* What the config has named is registered, and nothing more is granted to it.
ServedInv ==
    \A id \in served : id \in Ids /\ Extension(id).sender # 0 /\ NoGrantWaits(id)

\* What the transaction of the tool t asks for, with the config c.
Asks(t, c, call) ==
    /\ t.at \in {"deploy", "register", "setExtensionId", "addTeeVersion"} => call.op = t.at
    /\ t.at = "register" => call.on = t.sender
    /\ t.at \in Grants => call.op = "grant" /\ call.on = t.id /\ call.what = t.at
    /\ t.at = "setExtensionId" => call.on = c.sender

WaitFacts(t, c) ==
    t.tx # 0 => /\ t.at \in BuildSteps \cup {"setExtensionId", "addTeeVersion"}
                /\ t.tx \in N /\ t.tx = Len(txs)
                /\ Asks(t, c, txs[t.tx].call)

\* What the run of pre-build.sh at t has done so far.
BuildFacts(t) ==
    /\ t.at \in BuildSteps \cup {"write"} /\ t.at # "deploy" => \E n \in N : Deployed(n, t.sender)
    /\ t.at = "register" /\ t.tx = 0 =>
          \A n \in N : txs[n].call.op = "register" => txs[n].call.on # t.sender
    /\ t.at \in Grants \cup {"write"} => \E n \in N : RegisteredBy(n, t.sender, t.id)
    /\ t.at \in {"keyType", "write"} => "projectOwner" \in Extension(t.id).granted
    /\ t.at = "write" => "keyType" \in Extension(t.id).granted /\ NoGrantWaits(t.id)
    /\ t.at \in BuildSteps \cup {"write"} /\ t.at # "deploy" =>
          \A id \in served : Extension(id).sender # t.sender

\* What run-test and allow-tee-version have found.
TestFacts(t, c) ==
    /\ t.at \in {"setExtensionId", "explain"} => c # NoConfig
    /\ t.at = "setExtensionId" => t.id = 0
    /\ t.at = "addTeeVersion" => t.id \in served
    /\ t.at = "explain" =>
          t.why \subseteq {"already set"} /\ (t.why # {} => bound[c.sender] # 0)

ConfigFacts(c) ==
    c # NoConfig =>
        /\ \E n \in N : RegisteredBy(n, c.sender, c.id)
        /\ {"projectOwner", "keyType"} \subseteq Extension(c.id).granted

ToolFacts(t, c) == WaitFacts(t, c) /\ BuildFacts(t) /\ TestFacts(t, c) /\ ConfigFacts(c)

EndedInv ==
    /\ tool.at \in BuildSteps \cup {"write"} => ended = Nothing
    /\ ended.id \in {0} \cup served

IInv ==
    /\ ShapeInv /\ LogInv /\ OrderInv /\ ServedInv
    /\ ToolFacts(tool, config) /\ EndedInv /\ StepOneMeansBound

------------------------------------------------------------------------------
\* The definitions by cases, case by case.
LEMMA CallValues ==
    /\ CallOf("deploy") = Call("deploy", 0, "", Sender)
    /\ CallOf("register") = Call("register", tool.sender, "", Sender)
    /\ \A at \in Grants : CallOf(at) = Call("grant", tool.id, at, Sender)
    /\ CallOf("setExtensionId") = Call("setExtensionId", config.sender, "", Sender)
    /\ CallOf("addTeeVersion") = Call("addTeeVersion", tool.id, tool.hash, OwnerKey(env))
<1>1. /\ CallOf("deploy") = Call("deploy", 0, "", Sender)
      /\ CallOf("register") = Call("register", tool.sender, "", Sender)
      /\ CallOf("setExtensionId") = Call("setExtensionId", config.sender, "", Sender)
      /\ CallOf("addTeeVersion") = Call("addTeeVersion", tool.id, tool.hash, OwnerKey(env))
  BY Zenon DEF CallOf
<1>2. \A at \in Grants : CallOf(at) = Call("grant", tool.id, at, Sender)
  BY Zenon DEF CallOf, Grants
<1> QED
  BY <1>1, <1>2

LEMMA AfterValues ==
    /\ After("deploy") = "register" /\ After("register") = "machineOwner"
    /\ After("machineOwner") = "projectOwner" /\ After("projectOwner") = "keyType"
    /\ After("keyType") = "write"
BY Zenon DEF After

LEMMA RefusalValues ==
    ASSUME NEW c
    PROVE  /\ c.op \notin {"setExtensionId", "addTeeVersion"} => Refusal(c) = {}
           /\ c.op = "setExtensionId" =>
                 /\ bound[c.on] # 0 => Refusal(c) = {"already set"}
                 /\ bound[c.on] = 0 /\ Registered(c.on) = {} => Refusal(c) = {"not found"}
                 /\ bound[c.on] = 0 /\ Registered(c.on) # {} => Refusal(c) = {}
           /\ c.op = "addTeeVersion" =>
                 Refusal(c) \in {{}, {"OnlyOwner"}, {"VersionAlreadyExists"}}
<1>1. c.op \notin {"setExtensionId", "addTeeVersion"} => Refusal(c) = {}
  BY Zenon DEF Refusal
<1>2. c.op = "setExtensionId" =>
         /\ bound[c.on] # 0 => Refusal(c) = {"already set"}
         /\ bound[c.on] = 0 /\ Registered(c.on) = {} => Refusal(c) = {"not found"}
         /\ bound[c.on] = 0 /\ Registered(c.on) # {} => Refusal(c) = {}
  BY Zenon DEF Refusal
<1>3. ASSUME c.op = "addTeeVersion"
      PROVE  Refusal(c) \in {{}, {"OnlyOwner"}, {"VersionAlreadyExists"}}
  <2>1. CASE c.from # Extension(c.on).owner
    BY <1>3, <2>1, Zenon DEF Refusal
  <2>2. CASE c.from = Extension(c.on).owner /\ Extension(c.on).versions # {}
    BY <1>3, <2>2, Zenon DEF Refusal
  <2>3. CASE c.from = Extension(c.on).owner /\ Extension(c.on).versions = {}
    BY <1>3, <2>3, Zenon DEF Refusal
  <2> QED
    BY <2>1, <2>2, <2>3
<1> QED
  BY <1>1, <1>2, <1>3

LEMMA EffectValues ==
    ASSUME NEW c, Effect(c)
    PROVE  /\ c.op = "deploy" => bound' = Append(bound, 0) /\ UNCHANGED extensions
           /\ c.op = "register" =>
                 /\ extensions' = Append(extensions, [sender |-> c.on, owner |-> c.from,
                                                      granted |-> {}, versions |-> {}])
                 /\ UNCHANGED bound
           /\ c.op = "grant" =>
                 /\ extensions' = [extensions EXCEPT ![c.on + 1].granted = @ \cup {c.what}]
                 /\ UNCHANGED bound
           /\ c.op = "setExtensionId" =>
                 bound' = [bound EXCEPT ![c.on] = Found(c.on)] /\ UNCHANGED extensions
           /\ c.op = "addTeeVersion" =>
                 /\ extensions' = [extensions EXCEPT ![c.on + 1].versions = @ \cup {c.what}]
                 /\ UNCHANGED bound
BY Zenon DEF Effect

LEMMA MadeValues ==
    ASSUME NEW c
    PROVE  /\ c.op = "deploy" => Made(c) = Len(bound) + 1
           /\ c.op = "register" => Made(c) = Len(extensions)
           /\ c.op \notin {"deploy", "register"} => Made(c) = 0
BY Zenon DEF Made

LEMMA GoWrongValues ==
    GoWrong => \/ tool.at = "machineOwner" /\ Proceed(tool)
               \/ /\ tool.at \in BuildSteps \ {"machineOwner"}
                  /\ tool' = Idle /\ UNCHANGED ended
               \/ /\ tool.at \notin BuildSteps /\ EndTest(FALSE)
BY Zenon DEF GoWrong

------------------------------------------------------------------------------
\* What every step leaves as it was: the transactions with their calls, what was
\* mined, what waits no more, and what the chain holds.
Grows ==
    /\ Len(txs) <= Len(txs')
    /\ \A n \in N :
          /\ txs'[n].call = txs[n].call
          /\ txs[n].fate = "mined" => txs'[n].fate = "mined" /\ txs'[n].made = txs[n].made
          /\ txs'[n].fate = "pending" => txs[n].fate = "pending"
    /\ Len(extensions) <= Len(extensions')
    /\ \A id \in Ids : /\ Extension(id)'.sender = Extension(id).sender
                       /\ Extension(id).granted \subseteq Extension(id)'.granted
    /\ Len(bound) <= Len(bound')
    /\ \A s \in 1..Len(bound) : bound[s] # 0 => bound'[s] = bound[s]

\* The lengths are numbers, before and after a step.
Lengths ==
    /\ Len(txs) \in Nat /\ Len(extensions) \in Nat /\ Len(bound) \in Nat
    /\ Len(txs') \in Nat /\ Len(extensions') \in Nat /\ Len(bound') \in Nat

LEMMA LengthsAreNumbers == ShapeInv /\ ShapeInv' => Lengths
BY LenProperties DEF ShapeInv, Extensions, Lengths

LEMMA StaysInTheLog ==
    ASSUME Lengths, Grows
    PROVE  /\ \A n \in N : n \in N'
           /\ \A n \in N : \A s : Deployed(n, s) => Deployed(n, s)'
           /\ \A n \in N : \A s, id : RegisteredBy(n, s, id) => RegisteredBy(n, s, id)'
           /\ \A id \in Ids : id \in Ids'
           /\ \A s \in 1..Len(bound) : s \in 1..Len(bound')
           /\ \A s : \A id \in Registered(s) : id \in Registered(s)'
<1>1. /\ \A n \in N : n \in N'
      /\ \A id \in Ids : id \in Ids'
      /\ \A s \in 1..Len(bound) : s \in 1..Len(bound')
  BY DEF Lengths, Grows, N, Ids
<1>2. \A n \in N : \A s : Deployed(n, s) => Deployed(n, s)'
  BY <1>1 DEF Grows, Deployed, Mined
<1>3. \A n \in N : \A s, id : RegisteredBy(n, s, id) => RegisteredBy(n, s, id)'
  BY <1>1 DEF Grows, RegisteredBy, Mined
<1>4. \A s : \A id \in Registered(s) : id \in Registered(s)'
  BY <1>1 DEF Grows, Registered, Ids
<1> QED
  BY <1>1, <1>2, <1>3, <1>4

\* What is asked for still exists.
LEMMA AskedStays ==
    ASSUME Lengths, Grows, NEW n \in N, Asked(n)
    PROVE  Asked(n)'
<1>1. txs'[n].call = txs[n].call
  BY DEF Grows
<1>2. txs[n].call.op = "register" =>
         \E m \in N' : m < n /\ Mined(m, "deploy")' /\ txs'[m].made = txs[n].call.on
  <2>1. PICK s : s = txs[n].call.on
    OBVIOUS
  <2>2. txs[n].call.op = "register" => \E m \in N' : m < n /\ Deployed(m, s)'
    BY <2>1, StaysInTheLog DEF Asked
  <2> QED
    BY <2>1, <2>2 DEF Deployed
<1>3. txs[n].call.op \in {"grant", "addTeeVersion"} => txs[n].call.on \in Ids' \ {0}
  BY StaysInTheLog DEF Asked
<1>4. txs[n].call.op = "setExtensionId" => txs[n].call.on \in 1..Len(bound')
  BY StaysInTheLog DEF Asked
<1> QED
  BY <1>1, <1>2, <1>3, <1>4 DEF Asked, Deployed

\* The effect of what was mined before stays.
LEMMA EffectStays ==
    ASSUME Lengths, Grows, NEW n \in N, txs[n].fate = "mined", Asked(n), Effected(n)
    PROVE  Effected(n)'
<1> USE StaysInTheLog
<1> DEFINE call == txs[n].call
<1>1. txs'[n].call = call /\ txs'[n].made = txs[n].made
  BY DEF Grows
<1>2. Mined(n, call.op)
  BY DEF Mined
<1>3. \A op : Mined(n, op)' => op = call.op
  BY <1>1 DEF Mined
<1>4. call.op = "deploy" => txs[n].made \in 1..Len(bound')
  BY <1>2 DEF Effected
<1>5. call.op = "register" =>
         txs[n].made \in Ids' \ {0} /\ extensions'[txs[n].made + 1].sender = call.on
  BY <1>2 DEF Effected, Grows, Extension
<1>6. call.op = "grant" => call.what \in extensions'[call.on + 1].granted
  BY <1>2 DEF Effected, Asked, Grows, Extension
<1>7. call.op = "setExtensionId" => bound'[call.on] # 0
  BY <1>2 DEF Effected, Asked, Grows
<1> HIDE DEF call
<1> QED
  BY <1>1, <1>3, <1>4, <1>5, <1>6, <1>7 DEF Effected, Extension

\* An extension with a sender still has its transaction.
LEMMA OwnerStays ==
    ASSUME Lengths, Grows, OwnInv, NEW id \in Ids, Extension(id).sender # 0
    PROVE  \E n \in N' : /\ Mined(n, "register")' /\ txs'[n].made = id
                        /\ txs'[n].call.on = extensions'[id + 1].sender
<1>1. PICK s : s = Extension(id).sender
  OBVIOUS
<1>2. PICK n \in N : RegisteredBy(n, s, id)
  BY <1>1 DEF OwnInv
<1>3. RegisteredBy(n, s, id)' /\ n \in N'
  BY <1>2, StaysInTheLog
<1>4. extensions'[id + 1].sender = s
  BY <1>1 DEF Grows, Extension
<1> QED
  BY <1>3, <1>4 DEF RegisteredBy

\* A sender is the sender of one extension at most.
LEMMA OneRegistration ==
    ASSUME OnceInv, OwnInv, NEW s, s # 0, NEW id \in Registered(s), NEW other \in Registered(s)
    PROVE  id = other
<1>1. id \in Ids /\ other \in Ids /\ Extension(id).sender = s /\ Extension(other).sender = s
  BY DEF Registered, Ids
<1>2. PICK n \in N : RegisteredBy(n, s, id)
  BY <1>1 DEF OwnInv
<1>3. PICK m \in N : RegisteredBy(m, s, other)
  BY <1>1 DEF OwnInv
<1>4. n = m
  BY <1>2, <1>3 DEF OnceInv, OneRegister, RegisteredBy, Mined
<1> QED
  BY <1>2, <1>3, <1>4 DEF RegisteredBy

------------------------------------------------------------------------------
\* Steps that mine nothing: the log stays, or a transaction that waits turns out
\* failed or lost.
LEMMA NothingMined ==
    ASSUME Lengths, LogInv, UNCHANGED onchain, Len(txs') = Len(txs),
           \A n \in N : /\ txs'[n].call = txs[n].call /\ txs'[n].made = txs[n].made
                        /\ txs'[n].fate = "mined" <=> txs[n].fate = "mined"
                        /\ txs'[n].fate = "pending" => txs[n].fate = "pending"
    PROVE  Grows /\ LogInv'
<1>1. /\ Grows
      /\ extensions' = extensions /\ bound' = bound /\ N' = N /\ Ids' = Ids
      /\ \A id : Extension(id)' = Extension(id)
      /\ \A s : Registered(s)' = Registered(s)
  BY DEF Lengths, Grows, onchain, N, Ids, Extension, Registered
<1>2. CallsInv'
  BY <1>1, AskedStays DEF LogInv, CallsInv
<1>3. \A n \in N : \A op : Mined(n, op)' <=> Mined(n, op)
  BY <1>1 DEF Mined
<1>4. EffectInv'
  <2> SUFFICES ASSUME NEW n \in N PROVE Effected(n)'
    BY <1>1 DEF EffectInv
  <2>1. Asked(n) /\ Effected(n)
    BY DEF LogInv, CallsInv, EffectInv
  <2>2. CASE txs[n].fate = "mined"
    BY <1>1, <2>1, <2>2, EffectStays
  <2>3. CASE txs[n].fate # "mined"
    <3>1. \A op : ~ Mined(n, op)'
      BY <2>3 DEF Mined
    <3> QED
      BY <3>1 DEF Effected
  <2> QED
    BY <2>2, <2>3
<1>5. OnceInv'
  BY <1>1, <1>3 DEF LogInv, OnceInv, OneDeploy, OneRegister
<1>6. OwnInv'
  <2>1. \A id \in Ids' : Extension(id)'.sender # 0 =>
           \E n \in N' : /\ Mined(n, "register")' /\ txs'[n].made = id
                        /\ txs'[n].call.on = extensions'[id + 1].sender
    BY <1>1, OwnerStays DEF LogInv
  <2>2. \A s \in 1..Len(bound') : bound'[s] # 0 => bound'[s] \in Registered(s)'
    BY <1>1 DEF LogInv, OwnInv
  <2> QED
    BY <2>1, <2>2 DEF OwnInv, RegisteredBy, Extension
<1> QED
  BY <1>1, <1>2, <1>4, <1>5, <1>6 DEF LogInv

LEMMA Changing ==
    ASSUME txs \in Seq(TxRecord), NEW n \in N, NEW r \in TxRecord
    PROVE  /\ [txs EXCEPT ![n] = r] \in Seq(TxRecord)
           /\ Len([txs EXCEPT ![n] = r]) = Len(txs)
           /\ \A m \in N : [txs EXCEPT ![n] = r][m] = IF m = n THEN r ELSE txs[m]
BY LenProperties, ElementOfSeq DEF N

\* A transaction that waits fails, or the node forgets it.
LEMMA Ending ==
    ASSUME ShapeInv, LogInv, NEW n \in Pending, NEW fate \in {"failed", "dropped"},
           txs' = [txs EXCEPT ![n].fate = fate], UNCHANGED onchain
    PROVE  /\ txs' \in Seq(TxRecord) /\ Len(txs') = Len(txs) /\ Grows /\ LogInv'
           /\ \A m \in N : /\ txs'[m].call = txs[m].call
                           /\ txs'[m].fate = IF m = n THEN fate ELSE txs[m].fate
<1> DEFINE r == [txs[n] EXCEPT !.fate = fate]
<1>1. txs \in Seq(TxRecord) /\ txs[n] \in TxRecord /\ n \in N /\ txs[n].fate = "pending"
  BY ElementOfSeq DEF ShapeInv, N, Pending
<1>2. /\ r \in TxRecord /\ r.call = txs[n].call /\ r.fate = fate /\ r.made = txs[n].made
  BY <1>1 DEF TxRecord
<1>3. txs' = [txs EXCEPT ![n] = r]
  OBVIOUS
<1> HIDE DEF r
<1>4. txs' \in Seq(TxRecord) /\ Len(txs') = Len(txs)
      /\ \A m \in N : txs'[m] = IF m = n THEN r ELSE txs[m]
  BY <1>1, <1>2, <1>3, Changing
<1>5. \A m \in N : /\ txs'[m].call = txs[m].call /\ txs'[m].made = txs[m].made
                   /\ m # n => txs'[m].fate = txs[m].fate
                   /\ m = n => txs'[m].fate = fate
  BY <1>2, <1>4
<1>6. Lengths
  BY <1>4, LenProperties DEF ShapeInv, Extensions, Lengths, onchain
<1>7. \A m \in N : /\ txs'[m].fate = "mined" <=> txs[m].fate = "mined"
                   /\ txs'[m].fate = "pending" => txs[m].fate = "pending"
  BY <1>1, <1>5
<1>8. Grows /\ LogInv'
  BY <1>4, <1>5, <1>6, <1>7, NothingMined
<1> QED
  BY <1>4, <1>5, <1>8

------------------------------------------------------------------------------
\* A transaction is sent that asks for what exists, and registers what was not
\* to be registered yet.
LEMMA Sending ==
    ASSUME ShapeInv, LogInv, UNCHANGED onchain,
           NEW r \in TxRecord, r.fate = "pending", txs' = Append(txs, r),
           r.call.op = "register" =>
              /\ \E m \in N : Deployed(m, r.call.on)
              /\ \A m \in N : txs[m].call.op = "register" => txs[m].call.on # r.call.on,
           r.call.op \in {"grant", "addTeeVersion"} => r.call.on \in Ids \ {0},
           r.call.op = "setExtensionId" => r.call.on \in 1..Len(bound)
    PROVE  /\ txs' \in Seq(TxRecord) /\ Len(txs') = Len(txs) + 1 /\ Grows /\ LogInv'
           /\ txs'[Len(txs) + 1] = r /\ \A m \in N : txs'[m] = txs[m]
<1> txs \in Seq(TxRecord)
  BY DEF ShapeInv
<1>0. PICK last \in Nat : last = Len(txs) + 1
  BY LenProperties
<1>1. /\ txs' \in Seq(TxRecord) /\ Len(txs') = last
      /\ txs'[last] = r /\ \A m \in N : txs'[m] = txs[m]
  <2>1. /\ Len(Append(txs, r)) = Len(txs) + 1
        /\ Append(txs, r)[Len(txs) + 1] = r
        /\ \A m \in 1..Len(txs) : Append(txs, r)[m] = txs[m]
    BY AppendProperties
  <2>2. Append(txs, r) \in Seq(TxRecord)
    BY AppendProperties
  <2> QED
    BY <1>0, <2>1, <2>2 DEF N
<1>2. Lengths /\ Len(txs) \in Nat
  BY <1>1, LenProperties DEF ShapeInv, Extensions, Lengths, onchain
<1>3. /\ N' = N \cup {last} /\ last \notin N
      /\ Grows
      /\ extensions' = extensions /\ bound' = bound /\ Ids' = Ids
      /\ \A id : Extension(id)' = Extension(id)
      /\ \A s : Registered(s)' = Registered(s)
  BY <1>0, <1>1, <1>2 DEF Grows, onchain, N, Ids, Extension, Registered
<1>4. CallsInv'
  <2>1. \A m \in N : Asked(m)'
    BY <1>2, <1>3, AskedStays DEF LogInv, CallsInv
  <2>2. r.call.op = "register" =>
           \E m \in N' : m < last /\ Mined(m, "deploy")' /\ txs'[m].made = r.call.on
    <3>1. PICK s : s = r.call.on
      OBVIOUS
    <3>2. \A m \in N : m < last
      BY <1>0, <1>2 DEF N
    <3>3. r.call.op = "register" => \E m \in N' : m < last /\ Deployed(m, s)'
      BY <1>2, <1>3, <3>1, <3>2, StaysInTheLog
    <3> QED
      BY <3>1, <3>3 DEF Deployed
  <2>3. txs'[last].call = r.call
    BY <1>1
  <2>4. Asked(last)'
    BY <1>3, <2>2, <2>3 DEF Asked, Deployed
  <2> QED
    BY <1>3, <2>1, <2>4 DEF CallsInv
<1>5. \A m \in N' : txs'[m].fate = "mined" => m \in N /\ txs[m].fate = "mined"
  BY <1>1, <1>3
<1>6. EffectInv'
  <2> SUFFICES ASSUME NEW m \in N' PROVE Effected(m)'
    BY DEF EffectInv
  <2>1. CASE txs'[m].fate = "mined"
    BY <1>2, <1>3, <1>5, <2>1, EffectStays DEF LogInv, CallsInv, EffectInv
  <2>2. CASE txs'[m].fate # "mined"
    <3>1. \A op : ~ Mined(m, op)'
      BY <2>2 DEF Mined
    <3> QED
      BY <3>1 DEF Effected
  <2> QED
    BY <2>1, <2>2
<1>7. OneDeploy'
  <2>1. \A m \in N : \A op : Mined(m, op)' <=> Mined(m, op)
    BY <1>1, <1>3 DEF Mined
  <2>2. \A op : ~ Mined(last, op)'
    BY <1>1 DEF Mined
  <2>3. OneDeploy
    BY DEF LogInv, OnceInv
  <2>4. ASSUME NEW n \in N', NEW m \in N', Mined(n, "deploy")', Mined(m, "deploy")',
               txs'[n].made = txs'[m].made
        PROVE  n = m
    <3>1. n \in N /\ m \in N /\ txs'[n] = txs[n] /\ txs'[m] = txs[m]
      BY <1>1, <1>3, <2>2, <2>4
    <3> QED
      BY <2>1, <2>3, <2>4, <3>1 DEF OneDeploy
  <2> QED
    BY <2>4 DEF OneDeploy
<1>10. OneRegister'
  <2>1. OneRegister
    BY DEF LogInv, OnceInv
  <2>2. \A m \in N : txs'[last].call.op = "register" /\ txs'[m].call.op = "register"
                           => txs'[last].call.on # txs'[m].call.on
    BY <1>1
  <2>3. ASSUME NEW n \in N', NEW m \in N',
               txs'[n].call.op = "register", txs'[m].call.op = "register",
               txs'[n].call.on = txs'[m].call.on
        PROVE  n = m
    <3>1. CASE n \in N /\ m \in N
      BY <1>1, <2>1, <2>3, <3>1 DEF OneRegister
    <3>2. CASE n = last \/ m = last
      BY <1>3, <2>2, <2>3, <3>2
    <3> QED
      BY <1>3, <3>1, <3>2
  <2> QED
    BY <2>3 DEF OneRegister
<1>8. OwnInv'
  <2>1. \A id \in Ids' : Extension(id)'.sender # 0 =>
           \E n \in N' : /\ Mined(n, "register")' /\ txs'[n].made = id
                        /\ txs'[n].call.on = extensions'[id + 1].sender
    BY <1>2, <1>3, OwnerStays DEF LogInv
  <2>2. \A s \in 1..Len(bound') : bound'[s] # 0 => bound'[s] \in Registered(s)'
    BY <1>3 DEF LogInv, OwnInv
  <2> QED
    BY <2>1, <2>2 DEF OwnInv, RegisteredBy, Extension
<1> QED
  BY <1>0, <1>1, <1>3, <1>4, <1>6, <1>7, <1>8, <1>10 DEF LogInv, OnceInv

------------------------------------------------------------------------------
\* A call that succeeds, seen from the chain.
ChainGrows ==
    /\ extensions' \in Extensions /\ bound' \in Seq(Nat)
    /\ Len(extensions) <= Len(extensions') /\ extensions'[1] = Foreign
    /\ \A i \in 1..Len(extensions) : /\ extensions'[i].sender = extensions[i].sender
                                     /\ extensions[i].granted \subseteq extensions'[i].granted
    /\ Len(bound) <= Len(bound')
    /\ \A s \in 1..Len(bound) : bound[s] # 0 => bound'[s] = bound[s]
    /\ \A s \in 1..Len(bound') : bound'[s] # 0 =>
          s \in 1..Len(bound) /\ (bound'[s] = bound[s] \/ bound'[s] \in Registered(s))

\* What the extensions and the senders have as soon as they are there.
ChainTypes ==
    /\ extensions \in Extensions /\ bound \in Seq(Nat)
    /\ Len(extensions) \in Nat /\ Len(extensions) > 0 /\ Len(bound) \in Nat
    /\ extensions[1] = Foreign

LEMMA ChainHasTypes == ASSUME ShapeInv PROVE ChainTypes
<1>1. extensions \in Extensions /\ bound \in Seq(Nat) /\ Len(extensions) > 0
  BY Zenon DEF ShapeInv
<1>2. extensions[0 + 1] = Foreign
  BY Zenon DEF ShapeInv, Extension
<1>3. Len(extensions) \in Nat /\ Len(bound) \in Nat
  BY <1>1, LenProperties DEF Extensions
<1> QED
  BY <1>1, <1>2, <1>3 DEF ChainTypes

LEMMA DeployTakes ==
    ASSUME ChainTypes, bound' = Append(bound, 0), UNCHANGED extensions
    PROVE  ChainGrows /\ Len(bound') = Len(bound) + 1 /\ Len(extensions') = Len(extensions)
<1>1. /\ bound' \in Seq(Nat) /\ Len(bound') = Len(bound) + 1
      /\ bound'[Len(bound) + 1] = 0 /\ \A s \in 1..Len(bound) : bound'[s] = bound[s]
  BY AppendProperties DEF ChainTypes
<1> QED
  BY <1>1 DEF ChainTypes, ChainGrows

LEMMA RegisterTakes ==
    ASSUME ChainTypes, NEW s \in Nat, NEW owner \in SUBSET Keys,
           extensions' = Append(extensions, [sender |-> s, owner |-> owner,
                                             granted |-> {}, versions |-> {}]),
           UNCHANGED bound
    PROVE  /\ ChainGrows /\ Len(extensions') = Len(extensions) + 1
           /\ extensions'[Len(extensions) + 1].sender = s
<1> DEFINE e == [sender |-> s, owner |-> owner, granted |-> {}, versions |-> {}]
<1>1. e \in [sender : Nat, owner : SUBSET Keys, granted : SUBSET Words,
             versions : SUBSET Words]
      /\ e.sender = s
  OBVIOUS
<1> HIDE DEF e
<1>2. /\ extensions' \in Extensions /\ Len(extensions') = Len(extensions) + 1
      /\ extensions'[Len(extensions) + 1] = e
      /\ \A i \in 1..Len(extensions) : extensions'[i] = extensions[i]
  <2>1. extensions' = Append(extensions, e)
    BY DEF e
  <2> QED
    BY <1>1, <2>1, AppendProperties DEF ChainTypes, Extensions
<1> QED
  BY <1>1, <1>2 DEF ChainTypes, ChainGrows

\* A grant or a version is added to an extension that is not the first.
LEMMA AddingTakes ==
    ASSUME ChainTypes, UNCHANGED bound, NEW id \in Ids \ {0}, NEW what \in Words,
           \/ extensions' = [extensions EXCEPT ![id + 1].granted = @ \cup {what}]
           \/ extensions' = [extensions EXCEPT ![id + 1].versions = @ \cup {what}]
    PROVE  /\ ChainGrows /\ Len(extensions') = Len(extensions)
           /\ extensions' = [extensions EXCEPT ![id + 1].granted = @ \cup {what}] =>
                 what \in extensions'[id + 1].granted
<1> DEFINE E == [sender : Nat, owner : SUBSET Keys, granted : SUBSET Words,
                 versions : SUBSET Words]
           i == id + 1
           old == extensions[i]
<1>0. i \in 1..Len(extensions) /\ i # 1 /\ extensions \in Seq(E)
  BY DEF ChainTypes, Ids, Extensions
<1>1. i \in 1..Len(extensions) /\ i # 1 /\ extensions \in Seq(E) /\ old \in E
  <2> HIDE DEF E
  <2> QED
    BY <1>0, ElementOfSeq
<1>2. PICK new \in E : /\ new.sender = old.sender /\ old.granted \subseteq new.granted
                       /\ extensions' = [extensions EXCEPT ![i] = new]
                       /\ extensions' = [extensions EXCEPT ![i].granted = @ \cup {what}] =>
                             what \in new.granted
  <2>1. CASE extensions' = [extensions EXCEPT ![id + 1].granted = @ \cup {what}]
    <3>1. old.granted \cup {what} \in SUBSET Words
      BY <1>1
    <3>2. [old EXCEPT !.granted = @ \cup {what}] \in E
      BY <1>1, <3>1
    <3>3. WITNESS [old EXCEPT !.granted = @ \cup {what}] \in E
    <3> QED
      BY <1>1, <2>1
  <2>2. CASE /\ extensions' = [extensions EXCEPT ![id + 1].versions = @ \cup {what}]
             /\ extensions' # [extensions EXCEPT ![id + 1].granted = @ \cup {what}]
    <3>1. old.versions \cup {what} \in SUBSET Words
      BY <1>1
    <3>2. [old EXCEPT !.versions = @ \cup {what}] \in E
      BY <1>1, <3>1
    <3>3. WITNESS [old EXCEPT !.versions = @ \cup {what}] \in E
    <3> QED
      BY <1>1, <2>2
  <2> QED
    BY <2>1, <2>2
<1> HIDE DEF E
<1>3. /\ extensions' \in Seq(E) /\ Len(extensions') = Len(extensions)
      /\ \A j \in 1..Len(extensions) : extensions'[j] = IF j = i THEN new ELSE extensions[j]
  BY <1>1, <1>2, ExceptSeq
<1> QED
  BY <1>1, <1>2, <1>3 DEF ChainTypes, ChainGrows, Extensions, E

\* setExtensionId() finds the one extension that names the sender.
LEMMA BindTakes ==
    ASSUME ChainTypes, OnceInv, OwnInv, NEW s \in 1..Len(bound),
           bound[s] = 0, Registered(s) # {},
           bound' = [bound EXCEPT ![s] = Found(s)], UNCHANGED extensions
    PROVE  /\ ChainGrows /\ bound'[s] # 0
           /\ Len(bound') = Len(bound) /\ Len(extensions') = Len(extensions)
<1>1. \A id, other \in Registered(s) : id = other
  BY OneRegistration
<1>2. \A id \in Registered(s) : id \in Nat /\ id # 0
  BY DEF ChainTypes, Registered, Extension, Foreign
<1>3. Found(s) \in Registered(s)
  <2>1. \E id \in Registered(s) : \A other \in Registered(s) : id <= other
    BY <1>1, <1>2
  <2> QED
    BY <2>1, Zenon DEF Found
<1>4. /\ bound' \in Seq(Nat) /\ Len(bound') = Len(bound)
      /\ \A t \in 1..Len(bound) : bound'[t] = IF t = s THEN Found(s) ELSE bound[t]
  BY <1>2, <1>3, ExceptSeq DEF ChainTypes
<1> QED
  BY <1>2, <1>3, <1>4 DEF ChainTypes, ChainGrows

\* What the senders know, after a call.
LEMMA BoundStays ==
    ASSUME Lengths, Grows, ChainGrows, OwnInv, NEW s \in 1..Len(bound'), bound'[s] # 0
    PROVE  bound'[s] \in Registered(s)'
<1>1. bound'[s] \in Registered(s)
  BY DEF ChainGrows, OwnInv
<1> QED
  BY <1>1, StaysInTheLog

LEMMA TxTypes ==
    ASSUME ShapeInv, NEW n \in N
    PROVE  /\ txs[n] \in TxRecord
           /\ txs[n].call.on \in Nat /\ txs[n].call.what \in Words
           /\ txs[n].call.from \in SUBSET Keys
           /\ txs[n].call.op \in {"deploy", "register", "grant", "setExtensionId", "addTeeVersion"}
<1>1. txs[n] \in TxRecord
  <2>1. txs \in Seq(TxRecord)
    BY DEF ShapeInv
  <2> QED
    BY <2>1, ElementOfSeq DEF N
<1> QED
  BY <1>1 DEF TxRecord, Words, Keys

\* What is mined without a refusal does to the chain what it is meant to.
LEMMA CallTakes ==
    ASSUME ShapeInv, LogInv, NEW n \in N, NEW call, call = txs[n].call,
           Refusal(call) = {}, Effect(call)
    PROVE  /\ ChainGrows
           /\ call.op = "deploy" =>
                 Made(call) = Len(bound) + 1 /\ Len(bound') = Len(bound) + 1
           /\ call.op = "register" =>
                 /\ Made(call) = Len(extensions) /\ Len(extensions') = Len(extensions) + 1
                 /\ extensions'[Len(extensions) + 1].sender = call.on
           /\ call.op # "register" => Len(extensions') = Len(extensions)
           /\ call.op = "grant" => call.what \in extensions'[call.on + 1].granted
           /\ call.op = "setExtensionId" => bound'[call.on] # 0
           /\ Made(call) \in Nat
<1>1. ChainTypes /\ OnceInv /\ OwnInv
  BY ChainHasTypes DEF LogInv
<1>2. /\ call.on \in Nat /\ call.what \in Words /\ call.from \in SUBSET Keys
      /\ call.op \in {"deploy", "register", "grant", "setExtensionId", "addTeeVersion"}
  BY TxTypes
<1>3. /\ call.op \in {"grant", "addTeeVersion"} => call.on \in Ids \ {0}
      /\ call.op = "setExtensionId" => call.on \in 1..Len(bound)
  BY DEF LogInv, CallsInv, Asked
<1> USE <1>1
<1>5. CASE call.op = "deploy"
  <2>1. bound' = Append(bound, 0) /\ UNCHANGED extensions
    BY <1>5, EffectValues
  <2>2. ChainGrows /\ Len(bound') = Len(bound) + 1 /\ Len(extensions') = Len(extensions)
    BY <2>1, DeployTakes
  <2> QED
    BY <1>5, <2>2, MadeValues DEF ChainTypes
<1>6. CASE call.op = "register"
  <2>1. /\ extensions' = Append(extensions, [sender |-> call.on, owner |-> call.from,
                                             granted |-> {}, versions |-> {}])
        /\ UNCHANGED bound
    BY <1>6, EffectValues
  <2>2. /\ ChainGrows /\ Len(extensions') = Len(extensions) + 1
        /\ extensions'[Len(extensions) + 1].sender = call.on
    BY <1>2, <2>1, RegisterTakes
  <2> QED
    BY <1>6, <2>2, MadeValues DEF ChainTypes
<1>7. CASE call.op = "grant"
  <2>1. /\ extensions' = [extensions EXCEPT ![call.on + 1].granted = @ \cup {call.what}]
        /\ UNCHANGED bound
    BY <1>7, EffectValues
  <2>2. ChainGrows /\ Len(extensions') = Len(extensions)
        /\ call.what \in extensions'[call.on + 1].granted
    BY <1>2, <1>3, <1>7, <2>1, AddingTakes
  <2> QED
    BY <1>7, <2>2, MadeValues
<1>8. CASE call.op = "setExtensionId"
  <2>1. bound' = [bound EXCEPT ![call.on] = Found(call.on)] /\ UNCHANGED extensions
    BY <1>8, EffectValues
  <2>2. bound[call.on] = 0 /\ Registered(call.on) # {}
    BY <1>8, RefusalValues
  <2>3. ChainGrows /\ bound'[call.on] # 0 /\ Len(extensions') = Len(extensions)
    BY <1>3, <1>8, <2>1, <2>2, BindTakes
  <2> QED
    BY <1>8, <2>3, MadeValues
<1>9. CASE call.op = "addTeeVersion"
  <2>1. /\ extensions' = [extensions EXCEPT ![call.on + 1].versions = @ \cup {call.what}]
        /\ UNCHANGED bound
    BY <1>9, EffectValues
  <2>2. ChainGrows /\ Len(extensions') = Len(extensions)
    BY <1>2, <1>3, <1>9, <2>1, AddingTakes
  <2> QED
    BY <1>9, <2>2, MadeValues
<1> QED
  BY <1>2, <1>5, <1>6, <1>7, <1>8, <1>9

LEMMA ExtensionsGrow ==
    ASSUME ChainTypes, ChainGrows, NEW id \in Ids
    PROVE  /\ Extension(id)'.sender = Extension(id).sender
           /\ Extension(id).granted \subseteq Extension(id)'.granted
<1>1. id + 1 \in 1..Len(extensions)
  BY DEF ChainTypes, Ids
<1> QED
  BY <1>1 DEF ChainGrows, Extension

\* Mined: the transaction and its effect, together.
LEMMA Mining ==
    ASSUME ShapeInv, LogInv, NEW n \in Pending, NEW call, call = txs[n].call,
           Refusal(call) = {}, Effect(call),
           txs' = [txs EXCEPT ![n].fate = "mined", ![n].made = Made(call)]
    PROVE  /\ txs' \in Seq(TxRecord) /\ Len(txs') = Len(txs)
           /\ ChainGrows /\ Grows /\ LogInv'
           /\ \A m \in N : /\ txs'[m].call = txs[m].call
                           /\ txs'[m].fate = IF m = n THEN "mined" ELSE txs[m].fate
<1> DEFINE made == Made(call)
           r == [txs[n] EXCEPT !.fate = "mined", !.made = made]
<1>1. n \in N /\ txs[n].fate = "pending" /\ txs[n] \in TxRecord /\ txs \in Seq(TxRecord)
  <2>1. n \in N /\ txs[n].fate = "pending"
    BY DEF Pending, N
  <2>2. txs \in Seq(TxRecord)
    BY DEF ShapeInv
  <2> QED
    BY <2>1, <2>2, TxTypes
<1>2. /\ ChainGrows
      /\ call.op = "deploy" => made = Len(bound) + 1 /\ Len(bound') = Len(bound) + 1
      /\ call.op = "register" =>
            /\ made = Len(extensions) /\ Len(extensions') = Len(extensions) + 1
            /\ extensions'[Len(extensions) + 1].sender = call.on
      /\ call.op # "register" => Len(extensions') = Len(extensions)
      /\ call.op = "grant" => call.what \in extensions'[call.on + 1].granted
      /\ call.op = "setExtensionId" => bound'[call.on] # 0
      /\ made \in Nat
  BY <1>1, CallTakes
<1>3. /\ r \in TxRecord /\ r.call = call /\ r.fate = "mined" /\ r.made = made
  BY <1>1, <1>2 DEF TxRecord
<1>4. txs' = [txs EXCEPT ![n] = r]
  OBVIOUS
<1> HIDE DEF r, made
<1>5. /\ txs' \in Seq(TxRecord) /\ Len(txs') = Len(txs)
      /\ \A m \in N : txs'[m] = IF m = n THEN r ELSE txs[m]
  <2>1. /\ [txs EXCEPT ![n] = r] \in Seq(TxRecord)
        /\ Len([txs EXCEPT ![n] = r]) = Len(txs)
        /\ \A m \in N : [txs EXCEPT ![n] = r][m] = IF m = n THEN r ELSE txs[m]
    <3>1. txs \in Seq(TxRecord) /\ n \in N /\ r \in TxRecord
      BY <1>1, <1>3
    <3> QED
      BY <3>1, Changing
  <2> QED
    BY <1>4, <2>1
<1>6. /\ txs'[n].call = call /\ txs'[n].fate = "mined" /\ txs'[n].made = made
      /\ \A m \in N : txs'[m].call = txs[m].call
      /\ \A m \in N : m # n => txs'[m].fate = txs[m].fate /\ txs'[m].made = txs[m].made
  BY <1>1, <1>3, <1>5
<1>7. Lengths /\ N' = N
  BY <1>2, <1>5, LenProperties DEF ShapeInv, Extensions, Lengths, ChainGrows, N
<1>8. Grows
  <2>1. \A id \in Ids : /\ Extension(id)'.sender = Extension(id).sender
                        /\ Extension(id).granted \subseteq Extension(id)'.granted
    BY <1>2, ChainHasTypes, ExtensionsGrow
  <2>2. /\ Len(extensions) <= Len(extensions') /\ Len(bound) <= Len(bound')
        /\ \A s \in 1..Len(bound) : bound[s] # 0 => bound'[s] = bound[s]
    BY <1>2 DEF ChainGrows
  <2>3. \A m \in N :
           /\ txs[m].fate = "mined" => txs'[m].fate = "mined" /\ txs'[m].made = txs[m].made
           /\ txs'[m].fate = "pending" => txs[m].fate = "pending"
    BY <1>1, <1>6
  <2>4. Len(txs) <= Len(txs')
    BY <1>5, <1>7 DEF Lengths
  <2> QED
    BY <1>6, <2>1, <2>2, <2>3, <2>4 DEF Grows
<1>9. CallsInv /\ EffectInv /\ OneDeploy /\ OneRegister /\ OwnInv
  BY DEF LogInv, OnceInv
<1>10. CallsInv'
  BY <1>7, <1>8, <1>9, AskedStays DEF CallsInv
<1>11. \A m \in N : \A op : m # n => (Mined(m, op)' <=> Mined(m, op))
  BY <1>6, <1>7 DEF Mined
<1>12. \A op : Mined(n, op)' => op = call.op
  BY <1>6 DEF Mined
<1>13. EffectInv'
  <2> SUFFICES ASSUME NEW m \in N PROVE Effected(m)'
    BY <1>7 DEF EffectInv
  <2>1. CASE txs[m].fate = "mined"
    BY <1>7, <1>8, <1>9, <2>1, EffectStays DEF CallsInv, EffectInv
  <2>2. CASE m # n /\ txs[m].fate # "mined"
    <3>1. \A op : ~ Mined(m, op)'
      BY <1>11, <2>2 DEF Mined
    <3> QED
      BY <3>1 DEF Effected
  <2>3. CASE m = n
    <3>1. call.op = "deploy" => made \in 1..Len(bound')
      BY <1>2, <1>7 DEF Lengths
    <3>2. call.op = "register" => made \in Ids' \ {0} /\ extensions'[made + 1].sender = call.on
      BY <1>2, <1>7, ChainHasTypes DEF Lengths, Ids, ChainTypes
    <3> QED
      BY <1>2, <1>6, <1>12, <2>3, <3>1, <3>2 DEF Effected, Extension
  <2> QED
    BY <1>1, <2>1, <2>2, <2>3
<1>14. OneDeploy'
  <2> SUFFICES ASSUME NEW m \in N, NEW k \in N, Mined(m, "deploy")', Mined(k, "deploy")',
                      txs'[m].made = txs'[k].made
               PROVE  m = k
    BY <1>7 DEF OneDeploy
  <2>1. CASE m # n /\ k # n
    BY <1>6, <1>9, <1>11, <2>1 DEF OneDeploy
  <2>2. \A j \in N : j # n /\ Mined(j, "deploy")' => txs'[j].made \in 1..Len(bound)
    BY <1>6, <1>9, <1>11 DEF EffectInv, Effected
  <2>3. Mined(n, "deploy")' => txs'[n].made \notin 1..Len(bound)
    BY <1>2, <1>6, <1>7, <1>12 DEF Lengths
  <2> QED
    BY <2>1, <2>2, <2>3
<1>15. OneRegister'
  BY <1>6, <1>7, <1>9 DEF OneRegister
<1>16. OwnInv'
  <2>1. ASSUME NEW id \in Ids', extensions'[id + 1].sender # 0
        PROVE  \E m \in N' : /\ Mined(m, "register")' /\ txs'[m].made = id
                             /\ txs'[m].call.on = extensions'[id + 1].sender
    <3>1. CASE id \in Ids
      <4>1. Extension(id).sender # 0
        BY <1>8, <2>1, <3>1 DEF Grows, Extension
      <4> QED
        BY <1>7, <1>8, <1>9, <3>1, <4>1, OwnerStays
    <3>2. CASE id \notin Ids
      <4>1. call.op = "register" /\ id = Len(extensions)
        BY <1>2, <1>7, <3>2 DEF Lengths, Ids
      <4>2. Mined(n, "register")' /\ txs'[n].made = id /\ txs'[n].call.on = extensions'[id + 1].sender
        BY <1>1, <1>2, <1>6, <1>7, <4>1 DEF Mined
      <4> QED
        BY <1>1, <1>7, <4>2
    <3> QED
      BY <3>1, <3>2
  <2>2. \A s \in 1..Len(bound') : bound'[s] # 0 => bound'[s] \in Registered(s)'
    BY <1>2, <1>7, <1>8, <1>9, BoundStays
  <2> QED
    BY <2>1, <2>2 DEF OwnInv, RegisteredBy, Extension
<1> QED
  BY <1>2, <1>5, <1>6, <1>8, <1>10, <1>13, <1>14, <1>15, <1>16 DEF LogInv, OnceInv

LEMMA QuietLogGrows == ASSUME ChainTypes, Lengths, ChainGrows, UNCHANGED txs PROVE Grows
<1>1. \A id \in Ids : /\ Extension(id)'.sender = Extension(id).sender
                      /\ Extension(id).granted \subseteq Extension(id)'.granted
  BY ExtensionsGrow
<1> QED
  BY <1>1 DEF ChainGrows, Lengths, Grows

\* What others do: a sender learns its extension, or an extension of nobody here
\* is added.
LEMMA OthersDoing ==
    ASSUME ShapeInv, LogInv, UNCHANGED txs,
           \/ \E s \in 1..Len(bound) : /\ Refusal(Call("setExtensionId", s, "", {})) = {}
                                       /\ Effect(Call("setExtensionId", s, "", {}))
           \/ extensions' = Append(extensions, Foreign) /\ UNCHANGED bound
    PROVE  ChainGrows /\ Grows /\ LogInv'
<1>1. ChainTypes /\ txs \in Seq(TxRecord)
  BY ChainHasTypes DEF ShapeInv
<1>2. /\ ChainGrows
      /\ \A id \in Ids' \ Ids : extensions'[id + 1].sender = 0
  <2>1. ASSUME NEW s \in 1..Len(bound), NEW call, call = Call("setExtensionId", s, "", {}),
               Refusal(call) = {}, Effect(call)
        PROVE  ChainGrows /\ Len(extensions') = Len(extensions)
    <3>1. call.op = "setExtensionId" /\ call.on = s
      BY <2>1 DEF Call
    <3>2. bound' = [bound EXCEPT ![s] = Found(s)] /\ UNCHANGED extensions
      BY <2>1, <3>1, EffectValues
    <3>3. bound[s] = 0 /\ Registered(s) # {}
      BY <2>1, <3>1, RefusalValues
    <3> QED
      BY <1>1, <3>2, <3>3, BindTakes DEF LogInv
  <2>2. ASSUME extensions' = Append(extensions, Foreign), UNCHANGED bound
        PROVE  /\ ChainGrows /\ Len(extensions') = Len(extensions) + 1
               /\ extensions'[Len(extensions) + 1].sender = 0
    BY <1>1, <2>2, RegisterTakes DEF Foreign
  <2>3. CASE \E s \in 1..Len(bound) : /\ Refusal(Call("setExtensionId", s, "", {})) = {}
                                      /\ Effect(Call("setExtensionId", s, "", {}))
    BY <2>1, <2>3 DEF Ids
  <2>4. CASE extensions' = Append(extensions, Foreign) /\ UNCHANGED bound
    BY <1>1, <2>2, <2>4 DEF Ids, ChainTypes
  <2> QED
    BY <2>3, <2>4
<1>3. Lengths /\ N' = N
  BY <1>1, <1>2, LenProperties DEF ChainTypes, Extensions, Lengths, ChainGrows, N
<1>4. Grows
  BY <1>1, <1>2, <1>3, QuietLogGrows
<1>5. CallsInv /\ EffectInv /\ OneDeploy /\ OneRegister /\ OwnInv
  BY DEF LogInv, OnceInv
<1>6. CallsInv'
  BY <1>3, <1>4, <1>5, AskedStays DEF CallsInv
<1>7. EffectInv'
  <2> SUFFICES ASSUME NEW m \in N PROVE Effected(m)'
    BY <1>3 DEF EffectInv
  <2>1. CASE txs[m].fate = "mined"
    BY <1>3, <1>4, <1>5, <2>1, EffectStays DEF CallsInv, EffectInv
  <2>2. CASE txs[m].fate # "mined"
    <3>1. \A op : ~ Mined(m, op)'
      BY <2>2 DEF Mined
    <3> QED
      BY <3>1 DEF Effected
  <2> QED
    BY <2>1, <2>2
<1>8. OneDeploy' /\ OneRegister'
  BY <1>5 DEF OneDeploy, OneRegister, N, Mined
<1>9. OwnInv'
  <2>1. ASSUME NEW id \in Ids', extensions'[id + 1].sender # 0
        PROVE  \E m \in N' : /\ Mined(m, "register")' /\ txs'[m].made = id
                             /\ txs'[m].call.on = extensions'[id + 1].sender
    <3>1. id \in Ids
      BY <1>2, <2>1
    <3>2. Extension(id).sender # 0
      BY <1>4, <2>1, <3>1 DEF Grows, Extension
    <3> QED
      BY <1>3, <1>4, <1>5, <3>1, <3>2, OwnerStays
  <2>2. \A s \in 1..Len(bound') : bound'[s] # 0 => bound'[s] \in Registered(s)'
    BY <1>2, <1>3, <1>4, <1>5, BoundStays
  <2> QED
    BY <2>1, <2>2 DEF OwnInv, RegisteredBy, Extension
<1> QED
  BY <1>2, <1>4, <1>6, <1>7, <1>8, <1>9 DEF LogInv, OnceInv

------------------------------------------------------------------------------
\* What is decided is decided in order, whatever fates a step of the chain changes.
LEMMA OrderStays ==
    ASSUME OrderInv, Len(txs) \in Nat, Len(txs') = Len(txs), UNCHANGED setting,
           \A n \in N : /\ txs'[n].call = txs[n].call
                        /\ txs'[n].fate = "pending" => txs[n].fate = "pending"
                        /\ txs'[n].fate \in {"mined", "failed"} =>
                              txs[n].fate \in {"mined", "failed"} \/ IsNext(n)
    PROVE  OrderInv'
<1>1. N' = N /\ Sender' = Sender
  BY DEF N, Sender, env
<1>2. FromInv'
  BY <1>1 DEF OrderInv, FromInv
<1>3. SettledInv'
  <2> SUFFICES ASSUME NEW m \in N, NEW n \in N, m < n, SameKey(m, n)',
                      txs'[n].fate \in {"mined", "failed"}, txs'[m].fate = "pending"
               PROVE  FALSE
    BY <1>1 DEF SettledInv
  <2>1. SameKey(m, n) /\ txs[m].fate = "pending"
    BY DEF SameKey
  <2>2. CASE txs[n].fate \in {"mined", "failed"}
    BY <2>1, <2>2 DEF OrderInv, SettledInv
  <2>3. CASE IsNext(n)
    <3>1. m \in Pending
      BY <2>1 DEF Pending, N
    <3>2. n <= m
      BY <2>1, <2>3, <3>1 DEF IsNext
    <3> QED
      BY <3>2 DEF N
  <2> QED
    BY <2>2, <2>3
<1> QED
  BY <1>2, <1>3 DEF OrderInv

\* A transaction that is sent last leaves the order as it is.
LEMMA OrderSent ==
    ASSUME OrderInv, Len(txs) \in Nat, Len(txs') = Len(txs) + 1, UNCHANGED setting,
           \A n \in N : txs'[n] = txs[n], NEW r, txs'[Len(txs) + 1] = r, r.fate = "pending",
           r.call.op \in {"register", "grant"} => r.call.from = Sender
    PROVE  OrderInv'
<1>1. PICK last \in Nat : last = Len(txs) + 1
  OBVIOUS
<1>2. /\ \A n \in N' : n \in N \/ n = last
      /\ txs'[last] = r /\ Sender' = Sender
      /\ \A n \in N' : n <= last
  BY <1>1 DEF N, Sender, env
<1>3. FromInv'
  BY <1>2 DEF OrderInv, FromInv
<1>4. SettledInv'
  <2> SUFFICES ASSUME NEW m \in N', NEW n \in N', m < n, SameKey(m, n)',
                      txs'[n].fate \in {"mined", "failed"}, txs'[m].fate = "pending"
               PROVE  FALSE
    BY DEF SettledInv
  <2>1. n # last /\ m # last
    BY <1>2 DEF N
  <2>2. n \in N /\ m \in N /\ txs'[n] = txs[n] /\ txs'[m] = txs[m]
    BY <1>2, <2>1
  <2> QED
    BY <2>2 DEF OrderInv, SettledInv, SameKey
<1> QED
  BY <1>3, <1>4 DEF OrderInv

\* The extensions that the config has named stay what they are, unless something
\* new is granted to them.
LEMMA ServedStays ==
    ASSUME Lengths, Grows, ServedInv, served' = served,
           \A n \in N' \ N : txs'[n].call.op = "grant" => txs'[n].call.on \notin served
    PROVE  ServedInv'
<1> SUFFICES ASSUME NEW id \in served
             PROVE  id \in Ids' /\ Extension(id)'.sender # 0 /\ NoGrantWaits(id)'
  BY DEF ServedInv, NoGrantWaits, Extension
<1>1. id \in Ids /\ Extension(id).sender # 0 /\ NoGrantWaits(id)
  BY DEF ServedInv
<1>2. id \in Ids' /\ Extension(id)'.sender # 0
  BY <1>1, StaysInTheLog DEF Grows
<1>3. NoGrantWaits(id)'
  <2> SUFFICES ASSUME NEW n \in N', txs'[n].call.op = "grant", txs'[n].call.on = id
               PROVE  txs'[n].fate # "pending"
    BY DEF NoGrantWaits
  <2>1. n \in N
    OBVIOUS
  <2> QED
    BY <1>1, <2>1 DEF NoGrantWaits, Grows
<1> QED
  BY <1>2, <1>3

------------------------------------------------------------------------------
\* The tools, while the chain and the log go on.  Facts about a tool t and a
\* config c that do not change themselves stay.
LEMMA RegistrationFacts ==
    ASSUME LogInv, NEW n \in N, NEW s, NEW id, RegisteredBy(n, s, id)
    PROVE  /\ s \in 1..Len(bound) /\ id \in Ids \ {0} /\ Extension(id).sender = s
           /\ \A m \in N : txs[m].call.op = "register" /\ txs[m].call.on = s => m = n
<1>1. Asked(n) /\ Effected(n) /\ txs[n].call.op = "register" /\ txs[n].call.on = s
      /\ txs[n].made = id /\ Mined(n, "register")
  BY DEF LogInv, CallsInv, EffectInv, RegisteredBy, Mined
<1>2. PICK m \in N : Deployed(m, s)
  BY <1>1 DEF Asked
<1>3. Effected(m)
  BY DEF LogInv, EffectInv
<1>4. s \in 1..Len(bound)
  BY <1>2, <1>3 DEF Effected, Deployed
<1>5. id \in Ids \ {0} /\ Extension(id).sender = s
  BY <1>1 DEF Effected
<1>6. \A k \in N : txs[k].call.op = "register" /\ txs[k].call.on = s => k = n
  BY <1>1 DEF LogInv, OnceInv, OneRegister
<1> QED
  BY <1>4, <1>5, <1>6

LEMMA OnlyRegistration ==
    ASSUME ChainTypes, LogInv, NEW n \in N, NEW s, NEW id, RegisteredBy(n, s, id)
    PROVE  Registered(s) = {id}
<1>1. s \in 1..Len(bound) /\ id \in Ids /\ Extension(id).sender = s
  BY RegistrationFacts
<1>2. s # 0
  BY <1>1 DEF ChainTypes
<1>3. id \in Registered(s)
  BY <1>1 DEF Registered, Ids
<1>4. \A other \in Registered(s) : other = id
  BY <1>2, <1>3, OneRegistration DEF LogInv
<1> QED
  BY <1>3, <1>4

LEMMA ConfigStays ==
    ASSUME Lengths, Grows, LogInv, NEW c, ConfigFacts(c)
    PROVE  /\ ConfigFacts(c)'
           /\ c # NoConfig => c.sender \in 1..Len(bound) /\ c.id \in Ids
<1>1. \A id \in Ids : Extension(id).granted \subseteq Extension(id)'.granted
  BY DEF Grows
<1>2. c # NoConfig =>
         /\ c.sender \in 1..Len(bound) /\ c.id \in Ids
         /\ \E n \in N' : RegisteredBy(n, c.sender, c.id)'
  BY RegistrationFacts, StaysInTheLog DEF ConfigFacts
<1>3. c # NoConfig => {"projectOwner", "keyType"} \subseteq Extension(c.id)'.granted
  BY <1>1, <1>2 DEF ConfigFacts
<1> QED
  BY <1>2, <1>3 DEF ConfigFacts, NoConfig

LEMMA BuildAndTestStay ==
    ASSUME Lengths, Grows, LogInv, ServedInv, served' = served, NEW t, NEW c,
           BuildFacts(t), TestFacts(t, c), ConfigFacts(c),
           t.tx = 0 /\ t.at \in {"register", "write"} => Len(txs') = Len(txs),
           t.at = "write" => t.tx = 0
    PROVE  BuildFacts(t)' /\ TestFacts(t, c)' /\ ConfigFacts(c)'
<1> USE StaysInTheLog
<1>1. \A n \in N : txs'[n].call = txs[n].call
  BY DEF Grows
<1>2. \A id \in Ids : /\ Extension(id).granted \subseteq Extension(id)'.granted
                      /\ Extension(id)'.sender = Extension(id).sender
  BY DEF Grows
<1>3. BuildFacts(t)'
  <2>1. t.at \in BuildSteps \cup {"write"} /\ t.at # "deploy" => \E n \in N' : Deployed(n, t.sender)'
    BY DEF BuildFacts
  <2>2. t.at = "register" /\ t.tx = 0 =>
           \A n \in N' : txs'[n].call.op = "register" => txs'[n].call.on # t.sender
    BY <1>1 DEF BuildFacts, N
  <2>3. t.at \in Grants \cup {"write"} =>
           t.id \in Ids /\ \E n \in N' : RegisteredBy(n, t.sender, t.id)'
    BY RegistrationFacts DEF BuildFacts
  <2>4. /\ t.at \in {"keyType", "write"} => "projectOwner" \in Extension(t.id)'.granted
        /\ t.at = "write" => "keyType" \in Extension(t.id)'.granted
    BY <1>2, <2>3 DEF BuildFacts, Grants
  <2>5. t.at = "write" => NoGrantWaits(t.id)'
    BY <1>1 DEF BuildFacts, NoGrantWaits, Grows, N
  <2>6. t.at \in BuildSteps \cup {"write"} /\ t.at # "deploy" =>
           \A id \in served' : Extension(id)'.sender # t.sender
    BY <1>2 DEF BuildFacts, ServedInv
  <2> QED
    BY <2>1, <2>2, <2>3, <2>4, <2>5, <2>6 DEF BuildFacts, NoGrantWaits
<1>4. ConfigFacts(c)' /\ (c # NoConfig => c.sender \in 1..Len(bound))
  BY ConfigStays
<1>5. TestFacts(t, c)'
  <2>1. /\ t.at \in {"setExtensionId", "explain"} => c # NoConfig
        /\ t.at = "setExtensionId" => t.id = 0
        /\ t.at = "addTeeVersion" => t.id \in served'
    BY DEF TestFacts
  <2>2. t.at = "explain" =>
           t.why \subseteq {"already set"} /\ (t.why # {} => bound'[c.sender] # 0)
    BY <1>4, <2>1 DEF TestFacts, Grows
  <2> QED
    BY <2>1, <2>2 DEF TestFacts, NoConfig
<1> QED
  BY <1>3, <1>4, <1>5

LEMMA FactsStay ==
    ASSUME Lengths, Grows, LogInv, ServedInv, served' = served, Len(txs') = Len(txs),
           NEW t, NEW c, ToolFacts(t, c)
    PROVE  ToolFacts(t, c)'
<1>1. \A n \in N : n \in N' /\ txs'[n].call = txs[n].call
  BY StaysInTheLog DEF Grows
<1>2. WaitFacts(t, c)'
  <2> SUFFICES ASSUME t.tx # 0
               PROVE  /\ t.at \in BuildSteps \cup {"setExtensionId", "addTeeVersion"}
                      /\ t.tx \in N' /\ t.tx = Len(txs')
                      /\ Asks(t, c, txs'[t.tx].call)
    BY DEF WaitFacts, Asks, NoConfig
  <2>1. t.tx \in N /\ t.tx = Len(txs) /\ Asks(t, c, txs[t.tx].call)
        /\ t.at \in BuildSteps \cup {"setExtensionId", "addTeeVersion"}
    BY DEF ToolFacts, WaitFacts
  <2> QED
    BY <1>1, <2>1
<1>3. t.at = "write" => t.tx = 0
  BY DEF ToolFacts, WaitFacts, BuildSteps
<1>4. BuildFacts(t)' /\ TestFacts(t, c)' /\ ConfigFacts(c)'
  BY <1>3, BuildAndTestStay DEF ToolFacts
<1> QED
  BY <1>2, <1>4 DEF ToolFacts

LEMMA FactsOfNext ==
    ASSUME NEW t, NEW c, tool' = t, config' = c, ToolFacts(t, c)'
    PROVE  ToolFacts(tool, config)'
<1>1. WaitFacts(tool, config)'
  BY DEF ToolFacts, WaitFacts, Asks
<1>2. BuildFacts(tool)'
  BY DEF ToolFacts, BuildFacts, Deployed, RegisteredBy, Extension, NoGrantWaits
<1>3. TestFacts(tool, config)'
  BY DEF ToolFacts, TestFacts
<1>4. ConfigFacts(config)'
  BY DEF ToolFacts, ConfigFacts, RegisteredBy, Extension
<1> QED
  BY <1>1, <1>2, <1>3, <1>4 DEF ToolFacts

LEMMA StepOneStays ==
    ASSUME Lengths, Grows, LogInv, StepOneMeansBound, ToolFacts(tool, config), config' = config,
           ended' = ended \/ ~ (ended'.tool = "setExtensionId" /\ ended'.well)
    PROVE  StepOneMeansBound'
<1>1. config # NoConfig => config.sender \in 1..Len(bound) /\ config.id \in Ids \ {0}
  BY RegistrationFacts DEF ToolFacts, ConfigFacts
<1>2. ASSUME ended.tool = "setExtensionId", ended.well, config # NoConfig
      PROVE  bound'[config.sender] = config.id
  <2>1. bound[config.sender] = config.id
    BY <1>2 DEF StepOneMeansBound
  <2> QED
    BY <1>1, <1>2, <2>1 DEF Grows
<1> QED
  BY <1>2 DEF StepOneMeansBound, NoConfig

\* A step of the chain leaves the tools as they are.
LEMMA ChainStep ==
    ASSUME IInv, ShapeInv', Grows, LogInv', OrderInv', Len(txs') = Len(txs),
           UNCHANGED <<config, served, tool, ended>>
    PROVE  IInv'
<1>1. /\ Lengths /\ LogInv /\ ServedInv /\ ToolFacts(tool, config) /\ StepOneMeansBound /\ EndedInv
      /\ tool' = tool /\ config' = config /\ ended' = ended /\ served' = served
  BY LengthsAreNumbers DEF IInv
<1>2. PICK t, c : t = tool /\ c = config
  OBVIOUS
<1>3. ToolFacts(t, c)
  BY <1>1, <1>2
<1>4. ToolFacts(t, c)'
  BY <1>1, <1>3, FactsStay
<1>5. ToolFacts(tool, config)'
  BY <1>1, <1>2, <1>4, FactsOfNext
<1>6. StepOneMeansBound' /\ EndedInv'
  BY <1>1, StepOneStays DEF EndedInv
<1>7. ServedInv'
  <2>1. N' = N
    BY DEF N
  <2> QED
    BY <1>1, <2>1, ServedStays
<1> QED
  BY <1>5, <1>6, <1>7 DEF IInv

\* Types after a step of the chain.
LEMMA ChainShape ==
    ASSUME ShapeInv, txs' \in Seq(TxRecord), ChainGrows \/ UNCHANGED onchain,
           UNCHANGED <<setting, config, tool, ended, builds, tests>>,
           others' \in 0..MaxOthers, mishaps' \in 0..MaxMishaps
    PROVE  ShapeInv'
<1>1. CASE UNCHANGED onchain
  BY <1>1, Zenon DEF ShapeInv, onchain, Extension
<1>2. CASE ChainGrows
  <2>1. /\ extensions' \in Extensions /\ bound' \in Seq(Nat) /\ Len(extensions') > 0
        /\ extensions'[0 + 1] = Foreign
    <3>1. Len(extensions') \in Nat /\ Len(extensions) \in Nat /\ Len(extensions) > 0
      BY <1>2, ChainHasTypes, LenProperties DEF ChainGrows, Extensions, ChainTypes
    <3>2. Len(extensions) <= Len(extensions') /\ extensions'[1] = Foreign
          /\ extensions' \in Extensions /\ bound' \in Seq(Nat)
      BY <1>2 DEF ChainGrows
    <3> QED
      BY <3>1, <3>2
  <2> QED
    BY <2>1, Zenon DEF ShapeInv, Extension
<1> QED
  BY <1>1, <1>2

LEMMA CountTypes ==
    ASSUME ShapeInv
    PROVE  /\ builds \in 0..MaxBuilds /\ tests \in 0..MaxTests
           /\ others \in 0..MaxOthers /\ mishaps \in 0..MaxMishaps
           /\ Mishap => mishaps' \in 0..MaxMishaps
           /\ builds < MaxBuilds => builds + 1 \in 0..MaxBuilds
           /\ tests < MaxTests => tests + 1 \in 0..MaxTests
           /\ others < MaxOthers => others + 1 \in 0..MaxOthers
<1>1. /\ builds \in 0..MaxBuilds /\ tests \in 0..MaxTests
      /\ others \in 0..MaxOthers /\ mishaps \in 0..MaxMishaps
  BY Zenon DEF ShapeInv
<1>2. MaxBuilds \in Nat /\ MaxTests \in Nat /\ MaxOthers \in Nat /\ MaxMishaps \in Nat
  BY DeployToolsAssumption DEF DeployToolsAssumption
<1> QED
  BY <1>1, <1>2 DEF Mishap

LEMMA MineStep == ASSUME IInv, Mine PROVE IInv'
<1> ShapeInv /\ LogInv /\ OrderInv
  BY DEF IInv
<1>1. PICK n \in Pending :
         /\ IsNext(n)
         /\ \/ /\ Refusal(txs[n].call) = {}
               /\ Effect(txs[n].call)
               /\ txs' = [txs EXCEPT ![n].fate = "mined", ![n].made = Made(txs[n].call)]
               /\ UNCHANGED mishaps
            \/ /\ IF Refusal(txs[n].call) = {} THEN Mishap ELSE UNCHANGED mishaps
               /\ txs' = [txs EXCEPT ![n].fate = "failed"]
               /\ UNCHANGED onchain
  BY DEF Mine
<1>2. UNCHANGED <<setting, config, served, tool, ended, builds, tests, others>>
  BY DEF Mine
<1>3. mishaps' \in 0..MaxMishaps /\ others' \in 0..MaxOthers
  BY <1>1, <1>2, CountTypes
<1>4. /\ txs' \in Seq(TxRecord) /\ Len(txs') = Len(txs)
      /\ ChainGrows \/ UNCHANGED onchain
      /\ Grows /\ LogInv'
      /\ \A m \in N : txs'[m].call = txs[m].call /\ (m # n => txs'[m].fate = txs[m].fate)
  <2>1. CASE /\ Refusal(txs[n].call) = {}
             /\ Effect(txs[n].call)
             /\ txs' = [txs EXCEPT ![n].fate = "mined", ![n].made = Made(txs[n].call)]
    <3>1. PICK call : call = txs[n].call
      OBVIOUS
    <3>2. /\ Refusal(call) = {} /\ Effect(call)
          /\ txs' = [txs EXCEPT ![n].fate = "mined", ![n].made = Made(call)]
      BY <2>1, <3>1
    <3> QED
      BY <3>1, <3>2, Mining
  <2>2. CASE txs' = [txs EXCEPT ![n].fate = "failed"] /\ UNCHANGED onchain
    <3>1. PICK fate \in {"failed", "dropped"} : fate = "failed"
      OBVIOUS
    <3>2. /\ txs' \in Seq(TxRecord) /\ Len(txs') = Len(txs) /\ Grows /\ LogInv'
          /\ \A m \in N : /\ txs'[m].call = txs[m].call
                          /\ txs'[m].fate = IF m = n THEN fate ELSE txs[m].fate
      BY <2>2, <3>1, Ending
    <3> QED
      BY <2>2, <3>2
  <2> QED
    BY <1>1, <2>1, <2>2
<1>5. ShapeInv'
  BY <1>2, <1>3, <1>4, ChainShape
<1>6. OrderInv'
  <2>1. Len(txs) \in Nat
    BY LenProperties DEF ShapeInv
  <2> QED
    BY <1>1, <1>2, <1>4, <2>1, OrderStays DEF Grows
<1> QED
  BY <1>2, <1>4, <1>5, <1>6, ChainStep

LEMMA DropStep == ASSUME IInv, Drop PROVE IInv'
<1> ShapeInv /\ LogInv /\ OrderInv
  BY DEF IInv
<1>1. PICK n \in Pending : txs' = [txs EXCEPT ![n].fate = "dropped"]
  BY DEF Drop
<1>2. UNCHANGED <<setting, onchain, config, served, tool, ended, builds, tests, others>> /\ Mishap
  BY DEF Drop
<1>3. mishaps' \in 0..MaxMishaps /\ others' \in 0..MaxOthers
  BY <1>2, CountTypes
<1>4. /\ txs' \in Seq(TxRecord) /\ Len(txs') = Len(txs) /\ Grows /\ LogInv'
      /\ \A m \in N : /\ txs'[m].call = txs[m].call
                      /\ txs'[m].fate = IF m = n THEN "dropped" ELSE txs[m].fate
  BY <1>1, <1>2, Ending
<1>5. ShapeInv'
  BY <1>2, <1>3, <1>4, ChainShape
<1>6. OrderInv'
  <2>1. Len(txs) \in Nat
    BY LenProperties DEF ShapeInv
  <2> QED
    BY <1>2, <1>4, <2>1, OrderStays DEF Grows
<1> QED
  BY <1>2, <1>4, <1>5, <1>6, ChainStep

LEMMA OthersStep == ASSUME IInv, OthersSetId \/ OthersRegister PROVE IInv'
<1> ShapeInv /\ LogInv /\ OrderInv
  BY DEF IInv
<1>1. \/ \E s \in 1..Len(bound) : /\ Refusal(Call("setExtensionId", s, "", {})) = {}
                                  /\ Effect(Call("setExtensionId", s, "", {}))
      \/ extensions' = Append(extensions, Foreign) /\ UNCHANGED bound
  BY Zenon DEF OthersSetId, OthersRegister
<1>2. /\ UNCHANGED <<setting, txs, config, served, tool, ended, builds, tests, mishaps>>
      /\ others < MaxOthers /\ others' = others + 1
  BY DEF OthersSetId, OthersRegister, Others
<1>3. mishaps' \in 0..MaxMishaps /\ others' \in 0..MaxOthers
  BY <1>2, CountTypes
<1>4. ChainGrows /\ Grows /\ LogInv'
  BY <1>1, <1>2, OthersDoing
<1>5. txs' \in Seq(TxRecord) /\ Len(txs') = Len(txs) /\ Len(txs) \in Nat
  BY <1>2, LenProperties DEF ShapeInv
<1>6. ShapeInv'
  BY <1>2, <1>3, <1>4, <1>5, ChainShape
<1>7. OrderInv'
  BY <1>2, <1>5, OrderStays
<1> QED
  BY <1>2, <1>4, <1>5, <1>6, <1>7, ChainStep

------------------------------------------------------------------------------
\* What SetExtensionId's message mentions.
CanRead(n) == n.call \in {"data", "result"} \/ n.text

LEMMA Explained ==
    ASSUME NEW n \in Habits, NEW c \in Reasons
    PROVE  /\ CanRead(n) => Mentions(MinedMessage(n, {c}), c)
           /\ CanRead(n) => \A why \in {{}, {c}} : Mentions(SendMessage(n, why, {c}), c)
           /\ ~ Mentions(MinedMessage(n, {}), c) /\ ~ Mentions(SendMessage(n, {}, {}), c)
<1> c \in Causes
  BY DEF Causes
<1>1. Mentions(Texts({c}), c) /\ ~ Mentions({}, c) /\ \A m : Mentions(Texts({c}) \cup m, c)
  BY DEF Mentions, Texts
<1>2. /\ DecodeRevertHex({c}) = Texts({c}) /\ Texts({c}) # {}
      /\ DecodeRevertHex({}) = {} /\ DecodeRevertHex({Short}) = {}
  BY Decoded
<1>3. CanRead(n) => MinedMessage(n, {c}) = Texts({c})
  <2> DEFINE reply == CallContract(n, {c})
  <2>1. /\ IsAnswer(reply, c)
        /\ n.call = "data" => reply.failed /\ reply.data = {c} /\ reply.carries = "string"
        /\ n.call = "result" => ~ reply.failed
        /\ n.text /\ n.call # "result" => reply.failed /\ reply.text = Texts({c})
    BY NodeAnswers
  <2>2. reply.data \in {{}, {Short}, {c}} /\ (~ reply.failed => reply.data = {c})
    BY <2>1 DEF IsAnswer
  <2>3. MinedMessage(n, {c}) = SimulateAndDecodeRevert(reply)
    BY DEF MinedMessage
  <2> HIDE DEF reply
  <2> QED
    BY <1>2, <2>1, <2>2, <2>3 DEF CanRead, SimulateAndDecodeRevert, DecodeRevertReason
<1>4. MinedMessage(n, {}) = {}
  BY <1>2, PassedAnswer DEF MinedMessage, CallContract, SimulateAndDecodeRevert
<1>5. \A later : SendMessage(n, {}, later) = MinedMessage(n, later)
  <2>1. /\ EstimateGas(n, {}).text = {} /\ EstimateGas(n, {}).carries = "none"
    BY PassedAnswer DEF EstimateGas
  <2> QED
    BY <2>1 DEF SendMessage, MinedMessage, DecodeRevertReason
<1>6. CanRead(n) => Mentions(SendMessage(n, {c}, {c}), c)
  <2>1. DecodeRevertReason(EstimateGas(n, {c})) \in {{}, Texts({c})}
    BY <1>2, NodeAnswers DEF DecodeRevertReason, IsAnswer
  <2>2. CanRead(n) => \E m : SendMessage(n, {c}, {c}) = m \cup Texts({c})
    BY <1>2, <1>3, <2>1 DEF SendMessage, MinedMessage
  <2>3. \A m : m \cup Texts({c}) = Texts({c}) \cup m
    OBVIOUS
  <2> QED
    BY <1>1, <2>2, <2>3
<1> QED
  BY <1>1, <1>3, <1>4, <1>5, <1>6

------------------------------------------------------------------------------
\* The tools' steps.
LEMMA ToolShape ==
    ASSUME ShapeInv, UNCHANGED <<setting, onchain>>, txs' \in Seq(TxRecord),
           config' \in [id : Nat, sender : Nat], tool' \in Tools, ended' \in Ends,
           builds' \in 0..MaxBuilds, tests' \in 0..MaxTests,
           others' \in 0..MaxOthers, mishaps' \in 0..MaxMishaps
    PROVE  ShapeInv'
BY Zenon DEF ShapeInv, onchain, Extension

LEMMA IdleIsTool ==
    /\ Idle \in Tools /\ Idle.at = "idle" /\ Idle.tx = 0 /\ Nothing \in Ends
    /\ Nothing.tool = "none" /\ Nothing.id = 0 /\ Idle.id = 0
BY Zenon DEF Idle, Tools, Nothing, Ends, Hashes

\* A tool that is idle has no facts of its own.
LEMMA IdleFacts ==
    ASSUME NEW t, NEW c, ToolFacts(t, c), NEW i, i.at = "idle", i.tx = 0
    PROVE  ToolFacts(i, c)
BY DEF ToolFacts, WaitFacts, BuildFacts, TestFacts, BuildSteps, Grants

LEMMA Unfolded ==
    ASSUME IInv
    PROVE  /\ ShapeInv /\ LogInv /\ OrderInv /\ ServedInv
           /\ ToolFacts(tool, config) /\ EndedInv /\ StepOneMeansBound
           /\ tool \in Tools /\ config \in [id : Nat, sender : Nat] /\ ended \in Ends
           /\ txs \in Seq(TxRecord) /\ setting \in Settings
           /\ ChainTypes
BY ChainHasTypes DEF IInv, ShapeInv

\* The log does not change.
LEMMA SameLog ==
    ASSUME ShapeInv, LogInv, OrderInv, UNCHANGED <<setting, onchain, txs>>
    PROVE  Lengths /\ Grows /\ LogInv' /\ OrderInv' /\ Len(txs') = Len(txs)
<1>1. txs \in Seq(TxRecord) /\ ChainTypes
  BY ChainHasTypes DEF ShapeInv
<1>2. Lengths
  BY <1>1, LenProperties DEF Lengths, ChainTypes, onchain
<1>3. Grows /\ LogInv'
  BY <1>2, NothingMined
<1>4. OrderInv'
  BY <1>2, OrderStays DEF Lengths
<1> QED
  BY <1>2, <1>3, <1>4

\* A tool goes on from a step with t, about which the facts hold.
LEMMA ToolGoesOn ==
    ASSUME IInv, UNCHANGED <<setting, onchain, served>>, txs' \in Seq(TxRecord),
           Grows, LogInv', OrderInv', ServedInv', NEW t \in Tools, tool' = t,
           UNCHANGED config, NEW c, c = config, ToolFacts(t, c)',
           ended' \in Ends, t.at \in BuildSteps \cup {"write"} => ended' = Nothing,
           ended'.id \in {0} \cup served,
           \/ ended' = ended
           \/ ~ (ended'.tool = "setExtensionId" /\ ended'.well)
           \/ config # NoConfig => bound[config.sender] = config.id,
           builds' \in 0..MaxBuilds, tests' \in 0..MaxTests,
           others' \in 0..MaxOthers, mishaps' \in 0..MaxMishaps
    PROVE  IInv'
<1>1. /\ ShapeInv /\ LogInv /\ ToolFacts(tool, config) /\ StepOneMeansBound
      /\ config \in [id : Nat, sender : Nat]
  BY Unfolded
<1>2. ShapeInv'
  BY <1>1, ToolShape
<1>3. Lengths
  BY <1>1, <1>2, LengthsAreNumbers
<1>4. ToolFacts(tool, config)'
  BY FactsOfNext
<1>5. EndedInv'
  BY DEF EndedInv
<1>6. StepOneMeansBound'
  <2>1. CASE ended' = ended
    BY <1>1, <1>3, <2>1, StepOneStays
  <2>2. CASE ~ (ended'.tool = "setExtensionId" /\ ended'.well)
    BY <2>2 DEF StepOneMeansBound
  <2>3. CASE config # NoConfig => bound[config.sender] = config.id
    BY <2>3 DEF StepOneMeansBound, onchain, NoConfig
  <2> QED
    BY <2>1, <2>2, <2>3
<1> QED
  BY <1>2, <1>4, <1>5, <1>6 DEF IInv

\* The facts about what the tool goes on with hold before the step, already.
GoesOn ==
    \E t \in Tools :
        /\ tool' = t /\ t.tx = 0 /\ ToolFacts(t, config)
        /\ ended' \in Ends /\ ended'.id \in {0} \cup served
        /\ t.at \in BuildSteps \cup {"write"} => ended' = Nothing
        /\ \/ ended' = ended
           \/ ~ (ended'.tool = "setExtensionId" /\ ended'.well)
           \/ config # NoConfig => bound[config.sender] = config.id

CountsAreTyped ==
    /\ builds' \in 0..MaxBuilds /\ tests' \in 0..MaxTests
    /\ others' \in 0..MaxOthers /\ mishaps' \in 0..MaxMishaps

\* Nothing is sent.
LEMMA QuietStep ==
    ASSUME IInv, UNCHANGED <<setting, onchain, txs, config, served>>, GoesOn, CountsAreTyped
    PROVE  IInv'
<1>1. ShapeInv /\ LogInv /\ OrderInv /\ ServedInv /\ txs \in Seq(TxRecord)
  BY Unfolded
<1>2. /\ Lengths /\ Grows /\ LogInv' /\ OrderInv'
      /\ Len(txs') = Len(txs) /\ txs' \in Seq(TxRecord)
  BY <1>1, SameLog
<1>3. PICK t \in Tools :
        /\ tool' = t /\ t.tx = 0 /\ ToolFacts(t, config)
        /\ ended' \in Ends /\ ended'.id \in {0} \cup served
        /\ t.at \in BuildSteps \cup {"write"} => ended' = Nothing
        /\ \/ ended' = ended
           \/ ~ (ended'.tool = "setExtensionId" /\ ended'.well)
           \/ config # NoConfig => bound[config.sender] = config.id
  BY DEF GoesOn
<1>4. PICK c : c = config
  OBVIOUS
<1>5. ToolFacts(t, c)'
  BY <1>1, <1>2, <1>3, <1>4, FactsStay
<1>6. ServedInv'
  <2>1. N' = N
    BY DEF N
  <2> QED
    BY <1>1, <1>2, <2>1, ServedStays
<1> QED
  BY <1>2, <1>3, <1>4, <1>5, <1>6, ToolGoesOn DEF CountsAreTyped

\* The InstructionSender of the config is registered: setExtensionId() is refused
\* for one reason at most.
LEMMA ConfigSender ==
    ASSUME IInv, config # NoConfig, NEW call, call.op = "setExtensionId", call.on = config.sender
    PROVE  /\ config.sender \in 1..Len(bound) /\ config.id \in Ids \ {0}
           /\ Registered(config.sender) = {config.id}
           /\ bound[config.sender] # 0 => bound[config.sender] = config.id
           /\ Refusal(call) = IF bound[config.sender] # 0 THEN {"already set"} ELSE {}
<1>1. LogInv /\ ConfigFacts(config) /\ ChainTypes
  BY Unfolded DEF ToolFacts
<1>2. PICK n \in N : RegisteredBy(n, config.sender, config.id)
  BY <1>1 DEF ConfigFacts
<1>3. config.sender \in 1..Len(bound) /\ config.id \in Ids \ {0}
  BY <1>1, <1>2, RegistrationFacts
<1>4. Registered(config.sender) = {config.id}
  BY <1>1, <1>2, OnlyRegistration
<1>5. bound[config.sender] # 0 => bound[config.sender] = config.id
  BY <1>1, <1>3, <1>4 DEF LogInv, OwnInv
<1>6. Refusal(call) = IF bound[config.sender] # 0 THEN {"already set"} ELSE {}
  BY <1>4, RefusalValues
<1> QED
  BY <1>3, <1>4, <1>5, <1>6

\* The call of each step is one that the contracts know, and asks for what is
\* there.
CallType == [op   : {"deploy", "register", "grant", "setExtensionId", "addTeeVersion"},
             on   : Nat, what : Words, from : SUBSET Keys]

LEMMA CallFields ==
    /\ CallOf("deploy").op = "deploy"
    /\ CallOf("register").op = "register" /\ CallOf("register").on = tool.sender
    /\ CallOf("register").from = Sender
    /\ \A at \in Grants : /\ CallOf(at).op = "grant" /\ CallOf(at).on = tool.id
                          /\ CallOf(at).what = at /\ CallOf(at).from = Sender
    /\ CallOf("setExtensionId").op = "setExtensionId"
    /\ CallOf("setExtensionId").on = config.sender
    /\ CallOf("addTeeVersion").op = "addTeeVersion" /\ CallOf("addTeeVersion").on = tool.id
<1>1. \E blank : CallOf("deploy") = Call("deploy", 0, blank, Sender)
  BY CallValues, Zenon
<1>2. \E blank : CallOf("register") = Call("register", tool.sender, blank, Sender)
  BY CallValues, Zenon
<1>3. \A at \in Grants : CallOf(at) = Call("grant", tool.id, at, Sender)
  BY CallValues, Zenon
<1>4. \E blank : CallOf("setExtensionId") = Call("setExtensionId", config.sender, blank, Sender)
  BY CallValues, Zenon
<1>5. CallOf("addTeeVersion") = Call("addTeeVersion", tool.id, tool.hash, OwnerKey(env))
  BY CallValues, Zenon
<1>6. \A op, on, what, from : LET call == Call(op, on, what, from)
                             IN  /\ call.op = op /\ call.on = on
                                 /\ call.what = what /\ call.from = from
  BY DEF Call
<1> QED
  BY <1>1, <1>2, <1>3, <1>4, <1>5, <1>6

LEMMA CallTypes ==
    ASSUME NEW op \in {"deploy", "register", "grant", "setExtensionId", "addTeeVersion"},
           NEW on \in Nat, NEW what \in Words, NEW from \in SUBSET Keys
    PROVE  Call(op, on, what, from) \in CallType
BY DEF Call, CallType

\* A tool whose step, transaction, sender or id changes is still a tool.
LEMMA ToolChanges ==
    ASSUME NEW t \in Tools, NEW n \in Nat,
           NEW at \in BuildSteps \cup {"idle", "write", "setExtensionId", "addTeeVersion", "explain"}
    PROVE  /\ [t EXCEPT !.tx = n] \in Tools
           /\ [t EXCEPT !.at = at, !.tx = 0] \in Tools
           /\ [t EXCEPT !.sender = n] \in Tools
           /\ [t EXCEPT !.id = n] \in Tools
BY DEF Tools

LEMMA KeysSign == ASSUME setting \in Settings PROVE Sender \in SUBSET Keys /\ OwnerKey(env) \in SUBSET Keys
<1>1. env \in Environment
  BY DeployToolsAssumption DEF DeployToolsAssumption, env
<1> QED
  BY <1>1, KeyTypes DEF Sender, Keys

LEMMA ServedAreIds == ASSUME ChainTypes, ServedInv PROVE served \subseteq Ids \ {0}
<1>1. Extension(0).sender = 0
  BY DEF ChainTypes, Extension, Foreign
<1> QED
  BY <1>1 DEF ServedInv

LEMMA SendingSteps ==
    ASSUME IInv, AboutToSend
    PROVE  /\ tool.tx = 0 /\ tool.at \in BuildSteps \cup {"setExtensionId", "addTeeVersion"}
           /\ CallOf(tool.at) \in CallType
           /\ Asks(tool, config, CallOf(tool.at))
           /\ CallOf(tool.at).op = "register" =>
                 /\ \E m \in N : Deployed(m, CallOf(tool.at).on)
                 /\ \A m \in N : txs[m].call.op = "register" => txs[m].call.on # CallOf(tool.at).on
           /\ CallOf(tool.at).op \in {"grant", "addTeeVersion"} => CallOf(tool.at).on \in Ids \ {0}
           /\ CallOf(tool.at).op = "grant" => CallOf(tool.at).on \notin served
           /\ CallOf(tool.at).op \in {"register", "grant"} => CallOf(tool.at).from = Sender
           /\ CallOf(tool.at).op = "setExtensionId" => CallOf(tool.at).on \in 1..Len(bound)
<1>1. /\ LogInv /\ ServedInv /\ ChainTypes
      /\ BuildFacts(tool) /\ TestFacts(tool, config) /\ ConfigFacts(config)
      /\ tool \in Tools /\ config \in [id : Nat, sender : Nat] /\ setting \in Settings
  BY Unfolded DEF ToolFacts
<1>2. tool.tx = 0 /\ tool.at \in BuildSteps \cup {"setExtensionId", "addTeeVersion"}
  BY DEF AboutToSend, Waiting
<1>3. Sender \in SUBSET Keys /\ OwnerKey(env) \in SUBSET Keys
  BY <1>1, KeysSign
<1>4. /\ tool.id \in Nat /\ tool.sender \in Nat /\ tool.hash \in Words
      /\ config.id \in Nat /\ config.sender \in Nat
  <2>1. tool.hash \in Hashes
    BY <1>1 DEF Tools
  <2>2. \A hash \in Hashes : hash \in Words
    BY Zenon DEF Hashes, Words
  <2>3. tool.id \in Nat /\ tool.sender \in Nat /\ config.id \in Nat /\ config.sender \in Nat
    BY <1>1 DEF Tools
  <2> QED
    BY <2>1, <2>2, <2>3
<1>5. config # NoConfig => config.sender \in 1..Len(bound) /\ config.id \in Ids \ {0}
  BY <1>1, RegistrationFacts DEF ConfigFacts
<1>11. "" \in Words /\ \A at \in Grants : at \in Words
  BY DEF Words, Grants
<1>12. CallOf(tool.at) \in CallType
  <2>1. Call("deploy", 0, "", Sender) \in CallType
    BY <1>3, <1>11, CallTypes
  <2>2. Call("register", tool.sender, "", Sender) \in CallType
    BY <1>3, <1>4, <1>11, CallTypes
  <2>3. \A at \in Grants : Call("grant", tool.id, at, Sender) \in CallType
    BY <1>3, <1>4, <1>11, CallTypes
  <2>4. Call("setExtensionId", config.sender, "", Sender) \in CallType
    BY <1>3, <1>4, <1>11, CallTypes
  <2>5. Call("addTeeVersion", tool.id, tool.hash, OwnerKey(env)) \in CallType
    BY <1>3, <1>4, CallTypes
  <2> QED
    BY <1>2, <2>1, <2>2, <2>3, <2>4, <2>5, CallValues DEF BuildSteps, Grants
<1>6. CASE tool.at = "deploy"
  <2>2. CallOf(tool.at).op = "deploy" /\ CallOf(tool.at) \in CallType
    BY <1>6, <1>12, CallFields
  <2> QED
    BY <1>2, <1>6, <2>2 DEF Asks, Grants
<1>7. CASE tool.at = "register"
  <2>2. /\ CallOf(tool.at).op = "register" /\ CallOf(tool.at).on = tool.sender
        /\ CallOf(tool.at).from = Sender /\ CallOf(tool.at) \in CallType
    BY <1>7, <1>12, CallFields
  <2>3. /\ \E m \in N : Deployed(m, tool.sender)
        /\ \A m \in N : txs[m].call.op = "register" => txs[m].call.on # tool.sender
    BY <1>1, <1>2, <1>7 DEF BuildFacts, BuildSteps
  <2> QED
    BY <1>2, <1>7, <2>2, <2>3 DEF Asks, Grants
<1>8. CASE tool.at \in Grants
  <2>2. /\ CallOf(tool.at).op = "grant" /\ CallOf(tool.at).on = tool.id
        /\ CallOf(tool.at).what = tool.at /\ CallOf(tool.at).from = Sender
        /\ CallOf(tool.at) \in CallType
    BY <1>8, <1>12, CallFields
  <2>3. tool.id \in Ids \ {0} /\ tool.id \notin served
    BY <1>1, <1>8, RegistrationFacts DEF BuildFacts, BuildSteps, Grants
  <2> QED
    BY <1>2, <1>8, <2>2, <2>3 DEF Asks, Grants
<1>9. CASE tool.at = "setExtensionId"
  <2>2. /\ CallOf(tool.at).op = "setExtensionId" /\ CallOf(tool.at).on = config.sender
        /\ CallOf(tool.at) \in CallType
    BY <1>9, <1>12, CallFields
  <2>3. config # NoConfig
    BY <1>1, <1>9 DEF TestFacts
  <2> QED
    BY <1>2, <1>5, <1>9, <2>2, <2>3 DEF Asks, Grants
<1>10. CASE tool.at = "addTeeVersion"
  <2>2. /\ CallOf(tool.at).op = "addTeeVersion" /\ CallOf(tool.at).on = tool.id
        /\ CallOf(tool.at) \in CallType
    BY <1>10, <1>12, CallFields
  <2>3. tool.id \in Ids \ {0}
    BY <1>1, <1>10, ServedAreIds DEF TestFacts
  <2> QED
    BY <1>2, <1>10, <2>2, <2>3 DEF Asks, Grants
<1> QED
  BY <1>2, <1>6, <1>7, <1>8, <1>9, <1>10 DEF BuildSteps, Grants

LEMMA SendStep == ASSUME IInv, Send PROVE IInv'
<1> DEFINE call == CallOf(tool.at)
           r == [call |-> call, fate |-> "pending", made |-> 0]
<1>1. /\ AboutToSend /\ txs' = Append(txs, r) /\ tool' = [tool EXCEPT !.tx = Len(txs) + 1]
      /\ UNCHANGED <<setting, onchain, config, served, ended, counts>>
  BY DEF Send
<1>2. /\ tool.tx = 0 /\ tool.at \in BuildSteps \cup {"setExtensionId", "addTeeVersion"}
      /\ call \in CallType /\ Asks(tool, config, call)
      /\ call.op = "register" =>
            /\ \E m \in N : Deployed(m, call.on)
            /\ \A m \in N : txs[m].call.op = "register" => txs[m].call.on # call.on
      /\ call.op \in {"grant", "addTeeVersion"} => call.on \in Ids \ {0}
      /\ call.op = "grant" => call.on \notin served
      /\ call.op \in {"register", "grant"} => call.from = Sender
      /\ call.op = "setExtensionId" => call.on \in 1..Len(bound)
  BY <1>1, SendingSteps
<1> HIDE DEF call
<1>3. r \in TxRecord /\ r.call = call /\ r.fate = "pending"
  BY <1>2 DEF CallType, TxRecord, Words, Keys
<1> HIDE DEF r
<1>4. /\ ShapeInv /\ LogInv /\ OrderInv /\ ServedInv /\ ToolFacts(tool, config) /\ EndedInv
      /\ tool \in Tools /\ ended \in Ends /\ txs \in Seq(TxRecord) /\ ChainTypes
  BY Unfolded
<1>5. /\ txs' \in Seq(TxRecord) /\ Len(txs') = Len(txs) + 1 /\ Grows /\ LogInv'
      /\ txs'[Len(txs) + 1] = r /\ \A m \in N : txs'[m] = txs[m]
  BY <1>1, <1>2, <1>3, <1>4, Sending
<1>6. Len(txs) \in Nat /\ Lengths
  BY <1>1, <1>4, <1>5, LenProperties DEF Lengths, ChainTypes, onchain
<1>7. PICK t, c, n : /\ t = tool' /\ c = config /\ n = Len(txs) + 1
                     /\ c \in [id : Nat, sender : Nat]
  BY Unfolded
<1>15. t = [tool EXCEPT !.tx = n] /\ n \in Nat
  BY <1>1, <1>6, <1>7
<1>8. /\ t.at = tool.at /\ t.sender = tool.sender /\ t.id = tool.id /\ t.why = tool.why
      /\ t.tx = n /\ t \in Tools
  <2>1. t \in Tools
    BY <1>4, <1>15, ToolChanges
  <2> QED
    BY <1>4, <1>15, <2>1 DEF Tools
<1>16. t.tx # 0
  BY <1>6, <1>7, <1>8
<1>9. BuildFacts(t) /\ TestFacts(t, c) /\ ConfigFacts(c)
  <2>1. BuildFacts(tool) /\ TestFacts(tool, config) /\ ConfigFacts(config)
    BY <1>4 DEF ToolFacts
  <2>2. BuildFacts(t)
    BY <1>8, <1>16, <2>1 DEF BuildFacts
  <2>3. TestFacts(t, config)
    BY <1>8, <2>1 DEF TestFacts
  <2> QED
    BY <1>7, <2>1, <2>2, <2>3
<1>10. BuildFacts(t)' /\ TestFacts(t, c)' /\ ConfigFacts(c)'
  <2>1. t.at # "write"
    BY <1>2, <1>8 DEF BuildSteps
  <2> QED
    BY <1>1, <1>4, <1>5, <1>6, <1>7, <1>8, <1>9, <1>16, <2>1, BuildAndTestStay
<1>11. WaitFacts(t, c)'
  <2>1. Asks(t, c, call)
    BY <1>2, <1>7, <1>8 DEF Asks
  <2>2. n \in 1..Len(txs') /\ n = Len(txs') /\ txs'[n].call = call
    BY <1>3, <1>5, <1>6, <1>7
  <2> QED
    BY <1>2, <1>8, <2>1, <2>2 DEF WaitFacts, N
<1>12. ToolFacts(t, c)'
  BY <1>10, <1>11 DEF ToolFacts
<1>13. /\ t.at \in BuildSteps \cup {"write"} => ended' = Nothing
       /\ ended'.id \in {0} \cup served
  BY <1>1, <1>4, <1>8 DEF EndedInv
<1>14. /\ builds' \in 0..MaxBuilds /\ tests' \in 0..MaxTests
       /\ others' \in 0..MaxOthers /\ mishaps' \in 0..MaxMishaps
  BY <1>1, <1>4, CountTypes DEF counts
<1>17. OrderInv'
  BY <1>1, <1>2, <1>3, <1>4, <1>5, <1>6, OrderSent
<1>18. ServedInv'
  <2>1. \A k \in N' \ N : txs'[k].call = call
    BY <1>3, <1>5, <1>6 DEF N
  <2> QED
    BY <1>1, <1>2, <1>4, <1>5, <1>6, <2>1, ServedStays
<1> QED
  BY <1>1, <1>4, <1>5, <1>7, <1>8, <1>12, <1>13, <1>14, <1>17, <1>18, ToolGoesOn

------------------------------------------------------------------------------
\* How a tool ends, or goes on.
LEMMA ToolIsThere ==
    ASSUME IInv
    PROVE  /\ ToolFacts(tool, config) /\ BuildFacts(tool) /\ TestFacts(tool, config)
           /\ WaitFacts(tool, config) /\ ConfigFacts(config)
           /\ tool \in Tools /\ ended \in Ends /\ tool.hash \in Hashes
           /\ tool.at \in BuildSteps \cup {"write"} => ended = Nothing
           /\ ended.id \in {0} \cup served
BY Unfolded DEF ToolFacts, Tools, EndedInv

\* With nothing to say.
LEMMA GoesIdle ==
    ASSUME IInv, tool' = Idle,
           \/ ended' = ended
           \/ /\ ended' \in Ends /\ ended'.id \in {0} \cup served
              /\ \/ ~ (ended'.tool = "setExtensionId" /\ ended'.well)
                 \/ config # NoConfig => bound[config.sender] = config.id
    PROVE  GoesOn
<1>1. ToolFacts(Idle, config) /\ Idle \in Tools /\ Idle.tx = 0
      /\ Idle.at \notin BuildSteps \cup {"write"}
  BY ToolIsThere, IdleIsTool, IdleFacts DEF BuildSteps
<1> QED
  BY <1>1, ToolIsThere DEF GoesOn

LEMMA EndsTest ==
    ASSUME IInv, NEW well \in BOOLEAN, EndTest(well),
           tool.at \in {"setExtensionId", "addTeeVersion"},
           tool.at = "setExtensionId" /\ well =>
              (config # NoConfig => bound[config.sender] = config.id)
    PROVE  GoesOn /\ ended'.tool = tool.at /\ ended'.well = well
<1>1. /\ tool' = Idle
      /\ ended' = [tool |-> tool.at, well |-> well, id |-> tool.id, hash |-> tool.hash]
  BY DEF EndTest
<1>2. tool.hash \in Hashes /\ tool.id \in Nat /\ tool.id \in {0} \cup served
  BY ToolIsThere DEF Tools, TestFacts
<1>3. ended' \in Ends /\ ended'.id \in {0} \cup served /\ ended'.tool = tool.at /\ ended'.well = well
  BY <1>1, <1>2 DEF Ends
<1> QED
  BY <1>1, <1>3, GoesIdle

\* The next step of pre-build.sh: what it needs is there.
LEMMA Proceeds ==
    ASSUME IInv, UNCHANGED ended, tool.at \in Grants,
           tool.at = "projectOwner" => "projectOwner" \in Extension(tool.id).granted,
           tool.at = "keyType" =>
              "keyType" \in Extension(tool.id).granted /\ NoGrantWaits(tool.id),
           Proceed(tool)
    PROVE  GoesOn
<1>1. /\ tool \in Tools /\ ToolFacts(tool, config) /\ ended \in Ends /\ ended = Nothing
      /\ ended.id \in {0} \cup served
  BY ToolIsThere DEF Grants, BuildSteps
<1>2. PICK next : next = After(tool.at)
  OBVIOUS
<1>3. /\ next \in {"projectOwner", "keyType", "write"}
      /\ next = "keyType" => tool.at = "projectOwner"
      /\ next = "write" => tool.at = "keyType"
      /\ next = "projectOwner" => tool.at = "machineOwner"
  BY <1>2, AfterValues DEF Grants
<1>4. PICK t : t = [tool EXCEPT !.at = next, !.tx = 0]
  OBVIOUS
<1>5. tool' = t
  BY <1>2, <1>4 DEF Proceed
<1>6. t \in Tools
  BY <1>1, <1>3, <1>4, ToolChanges DEF BuildSteps
<1>7. t.at = next /\ t.tx = 0 /\ t.id = tool.id /\ t.sender = tool.sender
  BY <1>1, <1>4 DEF Tools
<1>8. BuildFacts(t)
  BY <1>1, <1>3, <1>7 DEF ToolFacts, BuildFacts, Grants, BuildSteps
<1>9. WaitFacts(t, config) /\ TestFacts(t, config)
  BY <1>3, <1>7 DEF WaitFacts, TestFacts
<1>10. ToolFacts(t, config)
  BY <1>1, <1>8, <1>9 DEF ToolFacts
<1> QED
  BY <1>1, <1>5, <1>6, <1>7, <1>10 DEF GoesOn

LEMMA GoesWrong ==
    ASSUME IInv, GoWrong, tool.at \in BuildSteps \cup {"setExtensionId", "addTeeVersion"}
    PROVE  GoesOn /\ (ended' = ended \/ (ended'.tool = tool.at /\ ended'.well = FALSE
                                         /\ tool.at \in {"setExtensionId", "addTeeVersion"}))
<1>1. CASE tool.at = "machineOwner" /\ Proceed(tool)
  <2>1. UNCHANGED ended
    BY <1>1 DEF Proceed
  <2> QED
    BY <1>1, <2>1, Proceeds DEF Grants
<1>2. CASE tool' = Idle /\ UNCHANGED ended
  BY <1>2, GoesIdle
<1>3. CASE tool.at \notin BuildSteps /\ EndTest(FALSE)
  BY <1>3, EndsTest
<1> QED
  BY <1>1, <1>2, <1>3, GoWrongValues

\* To explain the refusal of setExtensionId(): it can be for one reason alone.
LEMMA Explains ==
    ASSUME IInv, tool.at = "setExtensionId", UNCHANGED ended,
           tool' = [Idle EXCEPT !.at = "explain", !.why = Refusal(CallOf(tool.at))]
    PROVE  GoesOn
<1>1. config # NoConfig
  BY ToolIsThere DEF TestFacts
<1>2. PICK why : why = Refusal(CallOf(tool.at))
  OBVIOUS
<1>3. /\ why \subseteq {"already set"} /\ (why # {} => bound[config.sender] # 0)
  BY <1>1, <1>2, CallFields, ConfigSender
<1>4. why \in SUBSET Causes
  BY <1>3, DeployToolsAssumption DEF DeployToolsAssumption, Causes
<1>5. PICK t : t = [Idle EXCEPT !.at = "explain", !.why = why]
  OBVIOUS
<1>6. t \in Tools /\ t.at = "explain" /\ t.tx = 0 /\ t.why = why
  BY <1>4, <1>5, IdleIsTool DEF Tools
<1>7. ToolFacts(t, config)
  BY <1>1, <1>3, <1>6, ToolIsThere
     DEF ToolFacts, WaitFacts, BuildFacts, TestFacts, BuildSteps, Grants
<1>8. tool' = t
  BY <1>2, <1>5
<1> QED
  BY <1>6, <1>7, <1>8, ToolIsThere DEF GoesOn, BuildSteps

------------------------------------------------------------------------------
\* The steps of a tool, one by one.
LEMMA RefusedWhere ==
    ASSUME tool.at \in BuildSteps \cup {"setExtensionId", "addTeeVersion"},
           Refusal(CallOf(tool.at)) # {}
    PROVE  tool.at \in {"setExtensionId", "addTeeVersion"}
<1>1. tool.at \in BuildSteps => CallOf(tool.at).op \in {"deploy", "register", "grant"}
  BY CallFields DEF BuildSteps, Grants
<1> QED
  BY <1>1, RefusalValues

LEMMA SendRefusedStep == ASSUME IInv, SendRefused PROVE IInv'
<1>1. /\ tool.at \in BuildSteps \cup {"setExtensionId", "addTeeVersion"}
      /\ Refusal(CallOf(tool.at)) # {}
      /\ UNCHANGED <<setting, onchain, txs, config, served, counts>>
  BY DEF SendRefused, AboutToSend
<1>2. tool.at \in {"setExtensionId", "addTeeVersion"}
  BY <1>1, RefusedWhere
<1>3. GoesOn
  <2>1. CASE tool.at = "setExtensionId"
    BY <2>1, Explains DEF SendRefused, ExplainOr
  <2>2. CASE tool.at = "addTeeVersion"
    <3>1. EndTest(TRUE) \/ GoWrong
      BY <2>2 DEF SendRefused, ExplainOr
    <3> QED
      BY <1>1, <2>2, <3>1, EndsTest, GoesWrong
  <2> QED
    BY <1>2, <2>1, <2>2
<1>4. CountsAreTyped
  BY <1>1, Unfolded, CountTypes DEF counts, CountsAreTyped
<1> QED
  BY <1>1, <1>3, <1>4, QuietStep

LEMMA SendFailsStep == ASSUME IInv, SendFails PROVE IInv'
<1>1. /\ tool.at \in BuildSteps \cup {"setExtensionId", "addTeeVersion"}
      /\ UNCHANGED mishaps \/ Mishap
      /\ UNCHANGED <<setting, onchain, txs, config, served, builds, tests, others>>
  BY DEF SendFails, AboutToSend
<1>2. GoesOn
  <2>1. CASE tool.at = "setExtensionId"
    BY <2>1, Explains DEF SendFails, ExplainOr
  <2>2. CASE tool.at # "setExtensionId"
    BY <1>1, <2>2, GoesWrong DEF SendFails, ExplainOr
  <2> QED
    BY <2>1, <2>2
<1>3. CountsAreTyped
  BY <1>1, Unfolded, CountTypes DEF CountsAreTyped
<1> QED
  BY <1>1, <1>2, <1>3, QuietStep

\* What a tool that waits has asked for, and what is known once it is mined.
LEMMA Waits ==
    ASSUME IInv, Waiting
    PROVE  /\ tool.at \in BuildSteps \cup {"setExtensionId", "addTeeVersion"}
           /\ tool.tx \in N /\ tool.tx = Len(txs) /\ txs[tool.tx].made \in Nat
           /\ Asks(tool, config, txs[tool.tx].call)
           /\ Asked(tool.tx) /\ Effected(tool.tx)
<1>1. WaitFacts(tool, config) /\ LogInv /\ ShapeInv
  BY Unfolded, ToolIsThere
<1>2. tool.tx \in N
  BY <1>1 DEF WaitFacts, Waiting
<1>3. txs[tool.tx] \in TxRecord
  BY <1>1, <1>2, TxTypes
<1>4. txs[tool.tx].made \in Nat
  BY <1>3, Zenon DEF TxRecord
<1> QED
  BY <1>1, <1>2, <1>4 DEF WaitFacts, Waiting, LogInv, CallsInv, EffectInv

\* deploy-contract hears of its contract: nothing was sent after the deployment,
\* so nobody can have registered it yet.
LEMMA HeardDeployed ==
    ASSUME IInv, Waiting, Fate = "mined", tool.at = "deploy",
           Proceed([tool EXCEPT !.sender = txs[tool.tx].made])
    PROVE  GoesOn
<1>1. /\ LogInv /\ ServedInv /\ ChainTypes /\ ToolFacts(tool, config)
      /\ tool \in Tools /\ ended \in Ends /\ ended = Nothing /\ ended.id \in {0} \cup served
  BY Unfolded, ToolIsThere DEF BuildSteps
<1>2. PICK n \in N, s \in Nat : n = tool.tx /\ s = txs[n].made
  BY Waits
<1>3. n = Len(txs) /\ Mined(n, "deploy") /\ Deployed(n, s)
  BY <1>2, Waits DEF Asks, Fate, Mined, Deployed
<1>5. PICK t : t = [[tool EXCEPT !.sender = s] EXCEPT !.at = "register", !.tx = 0]
  OBVIOUS
<1>6. t \in Tools /\ t.at = "register" /\ t.tx = 0 /\ t.sender = s
  <2>1. PICK u : u = [tool EXCEPT !.sender = s]
    OBVIOUS
  <2>2. u \in Tools /\ u.sender = s
    BY <1>1, <2>1, ToolChanges DEF Tools
  <2>3. t \in Tools
    BY <1>5, <2>1, <2>2, ToolChanges DEF BuildSteps
  <2> QED
    BY <1>5, <2>1, <2>2, <2>3 DEF Tools
<1>7. tool' = t /\ UNCHANGED ended
  <2>1. PICK u : u = [tool EXCEPT !.sender = s]
    OBVIOUS
  <2>2. u.at = "deploy"
    BY <1>1, <2>1 DEF Tools
  <2>3. Proceed(u)
    BY <1>2, <2>1
  <2>4. tool' = [u EXCEPT !.at = "register", !.tx = 0] /\ UNCHANGED ended
    BY <2>2, <2>3, AfterValues DEF Proceed
  <2> QED
    BY <1>5, <2>1, <2>4
<1>8. \A m \in N : txs[m].call.op = "register" => txs[m].call.on # s
  <2> SUFFICES ASSUME NEW m \in N, txs[m].call.op = "register", txs[m].call.on = s
               PROVE  FALSE
    OBVIOUS
  <2>1. PICK k \in N : k < m /\ Deployed(k, s)
    BY <1>1 DEF LogInv, CallsInv, Asked
  <2>2. k = n
    BY <1>1, <1>3, <2>1 DEF LogInv, OnceInv, OneDeploy, Deployed
  <2> QED
    BY <1>3, <2>1, <2>2 DEF N
<1>9. \A id \in served : Extension(id).sender # s
  <2> SUFFICES ASSUME NEW id \in served, Extension(id).sender = s PROVE FALSE
    OBVIOUS
  <2>1. \E m \in N : RegisteredBy(m, s, id)
    BY <1>1 DEF ServedInv, LogInv, OwnInv
  <2> QED
    BY <1>8, <2>1 DEF RegisteredBy, Mined
<1>10. BuildFacts(t)
  BY <1>3, <1>6, <1>8, <1>9 DEF BuildFacts, Grants
<1>11. ToolFacts(t, config)
  BY <1>1, <1>6, <1>10 DEF ToolFacts, WaitFacts, TestFacts
<1> QED
  BY <1>1, <1>6, <1>7, <1>11 DEF GoesOn

\* register-extension hears of its extension.
LEMMA HeardRegistered ==
    ASSUME IInv, Waiting, Fate = "mined", tool.at = "register",
           Proceed([tool EXCEPT !.id = txs[tool.tx].made])
    PROVE  GoesOn
<1>1. /\ ToolFacts(tool, config) /\ BuildFacts(tool) /\ tool \in Tools /\ ended \in Ends
      /\ ended = Nothing /\ ended.id \in {0} \cup served
  BY ToolIsThere DEF BuildSteps
<1>2. PICK n \in N, id \in Nat : n = tool.tx /\ id = txs[n].made
  BY Waits
<1>3. RegisteredBy(n, tool.sender, id)
  BY <1>1, <1>2, Waits DEF Asks, Fate, Mined, RegisteredBy
<1>4. PICK u : u = [tool EXCEPT !.id = id]
  OBVIOUS
<1>5. u \in Tools /\ u.at = "register" /\ u.id = id /\ u.sender = tool.sender
  BY <1>1, <1>4, ToolChanges DEF Tools
<1>6. PICK t : t = [u EXCEPT !.at = "machineOwner", !.tx = 0]
  OBVIOUS
<1>7. tool' = t /\ UNCHANGED ended
  <2>1. Proceed(u)
    BY <1>2, <1>4
  <2>2. tool' = [u EXCEPT !.at = After(u.at), !.tx = 0] /\ UNCHANGED ended
    BY <2>1, Zenon DEF Proceed
  <2> QED
    BY <1>5, <1>6, <2>2, AfterValues
<1>8. t \in Tools /\ t.at = "machineOwner" /\ t.tx = 0 /\ t.sender = tool.sender /\ t.id = id
  <2>1. t \in Tools
    BY <1>5, <1>6, ToolChanges DEF BuildSteps
  <2> QED
    BY <1>5, <1>6, <2>1 DEF Tools
<1>9. BuildFacts(t)
  BY <1>1, <1>3, <1>8 DEF BuildFacts, Grants, BuildSteps
<1>10. ToolFacts(t, config)
  BY <1>1, <1>8, <1>9 DEF ToolFacts, WaitFacts, TestFacts
<1> QED
  BY <1>1, <1>7, <1>8, <1>10 DEF GoesOn

\* When the last transaction sent is a grant and is mined, no earlier grant waits:
\* they are of one key.
LEMMA LastGrant ==
    ASSUME IInv, Waiting, Fate = "mined", tool.at \in Grants
    PROVE  NoGrantWaits(tool.id)
<1>1. OrderInv
  BY Unfolded
<1>2. PICK n \in N : n = tool.tx /\ n = Len(txs) /\ txs[n].fate = "mined"
                      /\ txs[n].call.op = "grant"
  BY Waits DEF Fate, Asks
<1> SUFFICES ASSUME NEW m \in N, txs[m].call.op = "grant", txs[m].fate = "pending"
             PROVE  FALSE
  BY DEF NoGrantWaits
<1>3. m < n
  BY <1>2 DEF N
<1>4. SameKey(m, n)
  BY <1>1, <1>2 DEF OrderInv, FromInv, SameKey
<1> QED
  BY <1>1, <1>2, <1>3, <1>4 DEF OrderInv, SettledInv

\* A grant, or the transaction of run-test or of allow-tee-version, is mined.
LEMMA HeardOther ==
    ASSUME IInv, Waiting, Fate = "mined", tool.at \notin {"deploy", "register"},
           tool.at \in Grants => Proceed(tool),
           tool.at \notin BuildSteps => EndTest(TRUE)
    PROVE  GoesOn
<1>1. /\ tool.at \in BuildSteps \cup {"setExtensionId", "addTeeVersion"}
      /\ tool.tx \in N /\ txs[tool.tx].fate = "mined"
      /\ Asks(tool, config, txs[tool.tx].call) /\ Effected(tool.tx)
  BY Waits DEF Fate
<1>2. CASE tool.at \in Grants
  <2>1. UNCHANGED ended /\ Proceed(tool)
    BY <1>2 DEF Proceed
  <2>2. tool.at \in Extension(tool.id).granted /\ NoGrantWaits(tool.id)
    BY <1>1, <1>2, LastGrant DEF Asks, Effected, Mined
  <2> QED
    BY <1>2, <2>1, <2>2, Proceeds
<1>3. CASE tool.at = "setExtensionId"
  <2>1. config # NoConfig
    BY <1>3, ToolIsThere DEF TestFacts
  <2>2. txs[tool.tx].call.op = "setExtensionId" /\ txs[tool.tx].call.on = config.sender
    BY <1>1, <1>3 DEF Asks
  <2>3. bound[config.sender] # 0
    BY <1>1, <2>2 DEF Effected, Mined
  <2>4. bound[config.sender] = config.id
    BY <2>1, <2>2, <2>3, ConfigSender
  <2> QED
    BY <1>3, <2>4, EndsTest DEF BuildSteps
<1>4. CASE tool.at = "addTeeVersion"
  BY <1>4, EndsTest DEF BuildSteps
<1> QED
  BY <1>1, <1>2, <1>3, <1>4 DEF BuildSteps, Grants

\* The branches of HeardMined and of HeardFailed.
LEMMA HeardMinedValues ==
    ASSUME HeardMined
    PROVE  /\ Waiting /\ Fate = "mined"
           /\ UNCHANGED <<setting, onchain, txs, config, served, counts>>
           /\ tool.at = "deploy" => Proceed([tool EXCEPT !.sender = txs[tool.tx].made])
           /\ tool.at = "register" => Proceed([tool EXCEPT !.id = txs[tool.tx].made])
           /\ tool.at \in Grants => Proceed(tool)
           /\ tool.at \notin BuildSteps => EndTest(TRUE)
<1>1. /\ Waiting /\ Fate = "mined"
      /\ UNCHANGED <<setting, onchain, txs, config, served, counts>>
  BY Zenon DEF HeardMined
<1>2. CASE tool.at = "deploy"
  <2>1. /\ tool.at # "register" /\ tool.at \notin BuildSteps \ {"deploy", "register"}
        /\ tool.at \in BuildSteps /\ tool.at \notin Grants
    BY <1>2 DEF BuildSteps, Grants
  <2>2. Proceed([tool EXCEPT !.sender = txs[tool.tx].made])
    BY <1>2, <2>1, Zenon DEF HeardMined
  <2> QED
    BY <1>1, <1>2, <2>1, <2>2
<1>3. CASE tool.at = "register"
  <2>1. /\ tool.at # "deploy" /\ tool.at \notin BuildSteps \ {"deploy", "register"}
        /\ tool.at \in BuildSteps /\ tool.at \notin Grants
    BY <1>3 DEF BuildSteps, Grants
  <2>2. Proceed([tool EXCEPT !.id = txs[tool.tx].made])
    BY <1>3, <2>1, Zenon DEF HeardMined
  <2> QED
    BY <1>1, <1>3, <2>1, <2>2
<1>4. CASE tool.at \in Grants
  <2>1. /\ tool.at \notin {"deploy", "register"}
        /\ tool.at \in BuildSteps \ {"deploy", "register"} /\ tool.at \in BuildSteps
    BY <1>4 DEF BuildSteps, Grants
  <2>2. Proceed(tool)
    BY <2>1, Zenon DEF HeardMined
  <2> QED
    BY <1>1, <1>4, <2>1, <2>2
<1>5. CASE tool.at \notin BuildSteps
  <2>1. /\ tool.at # "deploy" /\ tool.at # "register" /\ tool.at \notin Grants
        /\ tool.at \notin BuildSteps \ {"deploy", "register"}
    BY <1>5 DEF BuildSteps, Grants
  <2>2. EndTest(TRUE)
    BY <1>5, <2>1, Zenon DEF HeardMined
  <2> QED
    BY <1>1, <1>5, <2>1, <2>2
<1> QED
  BY <1>2, <1>3, <1>4, <1>5 DEF BuildSteps, Grants

LEMMA HeardMinedStep == ASSUME IInv, HeardMined PROVE IInv'
<1>1. /\ Waiting /\ Fate = "mined"
      /\ UNCHANGED <<setting, onchain, txs, config, served, counts>>
  BY HeardMinedValues
<1>2. GoesOn
  <2>1. CASE tool.at = "deploy"
    BY <1>1, <2>1, HeardMinedValues, HeardDeployed
  <2>2. CASE tool.at = "register"
    BY <1>1, <2>2, HeardMinedValues, HeardRegistered
  <2>3. CASE tool.at \notin {"deploy", "register"}
    BY <1>1, <2>3, HeardMinedValues, HeardOther
  <2> QED
    BY <2>1, <2>2, <2>3
<1>3. CountsAreTyped
  BY <1>1, Unfolded, CountTypes DEF counts, CountsAreTyped
<1> QED
  BY <1>1, <1>2, <1>3, QuietStep

LEMMA HeardFailedValues ==
    ASSUME HeardFailed, NEW later, later = Refusal(txs[tool.tx].call)
    PROVE  /\ Waiting /\ Fate = "failed"
           /\ UNCHANGED <<setting, onchain, txs, config, served, counts>>
           /\ tool.at = "setExtensionId" =>
                 IF Tolerated(MinedMessage(node, later)) THEN EndTest(TRUE) ELSE GoWrong
           /\ tool.at = "addTeeVersion" => EndTest(TRUE) \/ GoWrong
           /\ tool.at \in BuildSteps => GoWrong
<1>1. /\ Waiting /\ Fate = "failed"
      /\ UNCHANGED <<setting, onchain, txs, config, served, counts>>
  BY Zenon DEF HeardFailed
<1>2. CASE tool.at = "setExtensionId"
  <2>1. tool.at # "addTeeVersion" /\ tool.at \notin BuildSteps
    BY <1>2 DEF BuildSteps
  <2>2. IF Tolerated(MinedMessage(node, later)) THEN EndTest(TRUE) ELSE GoWrong
    BY <1>2, <2>1, Zenon DEF HeardFailed
  <2> QED
    BY <1>1, <1>2, <2>1, <2>2
<1>3. CASE tool.at = "addTeeVersion"
  <2>1. tool.at # "setExtensionId" /\ tool.at \notin BuildSteps
    BY <1>3 DEF BuildSteps
  <2>2. EndTest(TRUE) \/ GoWrong
    BY <1>3, <2>1, Zenon DEF HeardFailed
  <2> QED
    BY <1>1, <1>3, <2>1, <2>2
<1>4. CASE tool.at \in BuildSteps
  <2>1. tool.at # "setExtensionId" /\ tool.at # "addTeeVersion"
    BY <1>4 DEF BuildSteps
  <2>2. GoWrong
    BY <1>4, <2>1, Zenon DEF HeardFailed
  <2> QED
    BY <1>1, <1>4, <2>1, <2>2
<1>5. CASE tool.at \notin BuildSteps \cup {"setExtensionId", "addTeeVersion"}
  BY <1>1, <1>5
<1> QED
  BY <1>2, <1>3, <1>4, <1>5

\* The node of the settings, and what it says of a reason that run-test tolerates.
LEMMA SaysAlreadySet ==
    ASSUME setting \in Settings
    PROVE  /\ Readable => Tolerated(MinedMessage(node, {"already set"}))
           /\ Readable => \A why \in {{}, {"already set"}} :
                             Tolerated(SendMessage(node, why, {"already set"}))
           /\ ~ Tolerated(MinedMessage(node, {})) /\ ~ Tolerated(SendMessage(node, {}, {}))
<1>1. node \in Habits /\ "already set" \in Reasons
  BY DeployToolsAssumption DEF DeployToolsAssumption, node
<1>2. Readable <=> CanRead(node)
  BY DEF Readable, CanRead
<1> QED
  BY <1>1, <1>2, Explained DEF Tolerated

LEMMA HeardFailedStep == ASSUME IInv, HeardFailed PROVE IInv'
<1>1. PICK later : later = Refusal(txs[tool.tx].call)
  OBVIOUS
<1>2. /\ Waiting /\ Fate = "failed"
      /\ UNCHANGED <<setting, onchain, txs, config, served, counts>>
      /\ tool.at = "setExtensionId" =>
            IF Tolerated(MinedMessage(node, later)) THEN EndTest(TRUE) ELSE GoWrong
      /\ tool.at = "addTeeVersion" => EndTest(TRUE) \/ GoWrong
      /\ tool.at \in BuildSteps => GoWrong
  BY <1>1, HeardFailedValues
<1>3. /\ tool.at \in BuildSteps \cup {"setExtensionId", "addTeeVersion"}
      /\ Asks(tool, config, txs[tool.tx].call)
  BY <1>2, Waits
<1>7. CountsAreTyped
  BY <1>2, Unfolded, CountTypes DEF counts, CountsAreTyped
<1>4. CASE GoWrong
  BY <1>2, <1>3, <1>4, <1>7, GoesWrong, QuietStep
<1>5. CASE tool.at = "setExtensionId" /\ Tolerated(MinedMessage(node, later)) /\ EndTest(TRUE)
  <2>1. config # NoConfig /\ setting \in Settings
    BY <1>5, ToolIsThere, Unfolded DEF TestFacts
  <2>2. txs[tool.tx].call.op = "setExtensionId" /\ txs[tool.tx].call.on = config.sender
    BY <1>3, <1>5 DEF Asks
  <2>3. bound[config.sender] # 0
    BY <1>1, <1>5, <2>1, <2>2, ConfigSender, SaysAlreadySet
  <2>4. bound[config.sender] = config.id
    BY <2>1, <2>2, <2>3, ConfigSender
  <2>5. GoesOn
    BY <1>5, <2>4, EndsTest
  <2> QED
    BY <1>2, <1>7, <2>5, QuietStep
<1>6. CASE tool.at = "addTeeVersion" /\ EndTest(TRUE)
  <2>1. GoesOn
    BY <1>6, EndsTest
  <2> QED
    BY <1>2, <1>7, <2>1, QuietStep
<1> QED
  BY <1>2, <1>3, <1>4, <1>5, <1>6

LEMMA TimeOutStep == ASSUME IInv, TimeOut PROVE IInv'
<1>1. Waiting /\ GoWrong /\ UNCHANGED <<setting, onchain, txs, config, served, counts>>
  BY DEF TimeOut
<1>2. GoesOn
  BY <1>1, Waits, GoesWrong
<1>3. CountsAreTyped
  BY <1>1, Unfolded, CountTypes DEF counts, CountsAreTyped
<1> QED
  BY <1>1, <1>2, <1>3, QuietStep

\* A tool starts: it has done nothing yet.
LEMMA Starts ==
    ASSUME IInv, NEW at \in {"deploy", "setExtensionId", "addTeeVersion"}, NEW id \in Nat,
           NEW hash \in Hashes,
           tool' = [Idle EXCEPT !.at = at, !.id = id, !.hash = hash], ended' = Nothing,
           at = "setExtensionId" => config # NoConfig /\ id = 0,
           at = "addTeeVersion" => id \in served
    PROVE  GoesOn
<1>1. PICK t : t = [Idle EXCEPT !.at = at, !.id = id, !.hash = hash]
  OBVIOUS
<1>2. t \in Tools /\ t.at = at /\ t.tx = 0 /\ t.id = id
  BY <1>1, IdleIsTool DEF Tools, BuildSteps
<1>3. ToolFacts(t, config)
  BY <1>2, ToolIsThere DEF ToolFacts, WaitFacts, BuildFacts, TestFacts, BuildSteps, Grants
<1> QED
  BY <1>1, <1>2, <1>3, IdleIsTool DEF GoesOn

LEMMA StartBuildStep == ASSUME IInv, StartBuild PROVE IInv'
<1>1. /\ builds < MaxBuilds /\ builds' = builds + 1
      /\ tool' = [Idle EXCEPT !.at = "deploy"] /\ ended' = Nothing
      /\ UNCHANGED <<setting, onchain, txs, config, served, tests, others, mishaps>>
  BY DEF StartBuild
<1>2. /\ Idle.hash \in Hashes /\ Idle.id \in Nat
      /\ [Idle EXCEPT !.at = "deploy"] =
            [Idle EXCEPT !.at = "deploy", !.id = Idle.id, !.hash = Idle.hash]
  BY IdleIsTool DEF Tools
<1>3. GoesOn
  BY <1>1, <1>2, Starts
<1>4. CountsAreTyped
  BY <1>1, Unfolded, CountTypes DEF CountsAreTyped
<1> QED
  BY <1>1, <1>3, <1>4, QuietStep

LEMMA StartToolStep ==
    ASSUME IInv, NEW at \in {"setExtensionId", "addTeeVersion"}, NEW id \in Nat,
           NEW hash \in Hashes, StartTool([Idle EXCEPT !.at = at, !.id = id, !.hash = hash]),
           at = "setExtensionId" => config # NoConfig /\ id = 0,
           at = "addTeeVersion" => id \in served
    PROVE  IInv'
<1>1. /\ tests < MaxTests /\ tests' = tests + 1
      /\ tool' = [Idle EXCEPT !.at = at, !.id = id, !.hash = hash] /\ ended' = Nothing
      /\ UNCHANGED <<setting, onchain, txs, config, served, builds, others, mishaps>>
  BY DEF StartTool
<1>2. GoesOn
  BY <1>1, Starts
<1>3. CountsAreTyped
  BY <1>1, Unfolded, CountTypes DEF CountsAreTyped
<1> QED
  BY <1>1, <1>2, <1>3, QuietStep

LEMMA ExplainStep == ASSUME IInv, ExplainRefusal PROVE IInv'
<1>1. PICK message :
         /\ message = SendMessage(node, tool.why, Refusal(CallOf("setExtensionId")))
         /\ tool' = Idle
         /\ ended' = [Nothing EXCEPT !.tool = "setExtensionId", !.well = Tolerated(message)]
  BY DEF ExplainRefusal
<1>2. tool.at = "explain" /\ UNCHANGED <<setting, onchain, txs, config, served, counts>>
  BY DEF ExplainRefusal
<1>3. /\ config # NoConfig /\ tool.why \subseteq {"already set"}
      /\ tool.why # {} => bound[config.sender] # 0
  BY <1>2, ToolIsThere DEF TestFacts
<1>4. Tolerated(message) \in BOOLEAN
  BY DEF Tolerated, Mentions
<1>5. /\ ended' \in Ends /\ ended'.tool = "setExtensionId" /\ ended'.well = Tolerated(message)
      /\ ended'.id = 0
  BY <1>1, <1>4, IdleIsTool DEF Ends
<1>6. Tolerated(message) => bound[config.sender] = config.id
  <2>1. ASSUME Tolerated(message), tool.why = {} PROVE bound[config.sender] # 0
    BY <1>1, <1>3, <2>1, CallFields, ConfigSender, SaysAlreadySet, Unfolded
  <2> QED
    BY <1>3, <2>1, CallFields, ConfigSender
<1>7. GoesOn
  BY <1>1, <1>5, <1>6, GoesIdle
<1>8. CountsAreTyped
  BY <1>2, Unfolded, CountTypes DEF counts, CountsAreTyped
<1> QED
  BY <1>2, <1>7, <1>8, QuietStep

\* The config changes: to what the run has registered, or to nothing.
LEMMA ConfigChanges ==
    ASSUME IInv, UNCHANGED <<setting, onchain, txs, ended>>, CountsAreTyped, tool.at = "write",
           tool' = Idle, NEW c \in [id : Nat, sender : Nat], config' = c, ConfigFacts(c),
           served' \in {served, served \cup {tool.id}}
    PROVE  IInv'
<1>1. /\ ShapeInv /\ LogInv /\ OrderInv /\ ServedInv /\ BuildFacts(tool) /\ ChainTypes
      /\ txs \in Seq(TxRecord) /\ ended = Nothing /\ ended \in Ends
  BY Unfolded, ToolIsThere
<1>2. Lengths /\ Grows /\ LogInv' /\ OrderInv' /\ txs' \in Seq(TxRecord)
  BY <1>1, SameLog
<1>3. /\ Idle \in Tools /\ Idle.at = "idle" /\ Idle.tx = 0
      /\ Nothing.tool = "none" /\ Nothing.id = 0
  BY IdleIsTool
<1>4. ShapeInv'
  BY <1>1, <1>2, <1>3, ToolShape DEF CountsAreTyped
<1>5. ConfigFacts(c)'
  BY <1>1, <1>2, ConfigStays
<1>6. ToolFacts(tool, config)'
  <2>1. ConfigFacts(config)'
    BY <1>5 DEF ConfigFacts, RegisteredBy, Extension
  <2>2. tool'.at = "idle" /\ tool'.tx = 0
    BY <1>3
  <2>3. WaitFacts(tool, config)' /\ BuildFacts(tool)' /\ TestFacts(tool, config)'
    BY <2>2 DEF WaitFacts, BuildFacts, TestFacts, BuildSteps, Grants
  <2> QED
    BY <2>1, <2>3 DEF ToolFacts
<1>7. ServedInv'
  <2>1. /\ Ids' = Ids /\ \A id : Extension(id)' = Extension(id)
        /\ \A id : NoGrantWaits(id)' <=> NoGrantWaits(id)
    BY DEF onchain, Ids, Extension, NoGrantWaits, N
  <2>2. tool.id \in Ids /\ Extension(tool.id).sender # 0 /\ NoGrantWaits(tool.id)
    BY <1>1, RegistrationFacts DEF BuildFacts, ChainTypes
  <2> QED
    BY <1>1, <2>1, <2>2 DEF ServedInv
<1>8. EndedInv' /\ StepOneMeansBound'
  BY <1>1, <1>3 DEF EndedInv, StepOneMeansBound, BuildSteps
<1> QED
  BY <1>2, <1>4, <1>6, <1>7, <1>8 DEF IInv

LEMMA WriteConfigStep == ASSUME IInv, WriteConfig PROVE IInv'
<1>1. /\ tool.at = "write" /\ tool' = Idle
      /\ config' = [id |-> tool.id, sender |-> tool.sender]
      /\ served' = served \cup {tool.id}
      /\ UNCHANGED <<setting, onchain, txs, ended, counts>>
  BY DEF WriteConfig
<1>2. PICK c : c = [id |-> tool.id, sender |-> tool.sender]
  OBVIOUS
<1>3. tool \in Tools /\ BuildFacts(tool)
  BY ToolIsThere
<1>4. c \in [id : Nat, sender : Nat] /\ c.id = tool.id /\ c.sender = tool.sender
  BY <1>2, <1>3 DEF Tools
<1>5. ConfigFacts(c)
  BY <1>1, <1>3, <1>4 DEF BuildFacts, ConfigFacts
<1>6. CountsAreTyped
  BY <1>1, Unfolded, CountTypes DEF counts, CountsAreTyped
<1> QED
  BY <1>1, <1>2, <1>4, <1>5, <1>6, ConfigChanges

LEMMA ToolDiesStep == ASSUME IInv, ToolDies PROVE IInv'
<1>1. /\ Mishap /\ tool' = Idle
      /\ UNCHANGED <<setting, onchain, txs, served, ended, builds, tests, others>>
      /\ config' = config \/ (tool.at = "write" /\ config' = NoConfig)
  BY DEF ToolDies
<1>2. CountsAreTyped
  BY <1>1, Unfolded, CountTypes DEF CountsAreTyped
<1>3. CASE config' = config
  BY <1>1, <1>2, <1>3, GoesIdle, QuietStep
<1>4. CASE tool.at = "write" /\ config' = NoConfig
  <2>1. NoConfig \in [id : Nat, sender : Nat] /\ ConfigFacts(NoConfig)
    BY DEF NoConfig, ConfigFacts
  <2> QED
    BY <1>1, <1>2, <1>4, <2>1, ConfigChanges
<1> QED
  BY <1>1, <1>3, <1>4

------------------------------------------------------------------------------
\* The invariant holds at first, and every step keeps it.
LEMMA InitHolds == Init => IInv
<1> SUFFICES ASSUME Init PROVE IInv
  OBVIOUS
<1>1. /\ setting \in Settings /\ extensions = <<Foreign>> /\ bound = <<>> /\ txs = <<>>
      /\ config = NoConfig /\ served = {} /\ tool = Idle /\ ended = Nothing
      /\ builds = 0 /\ tests = 0 /\ others = 0 /\ mishaps = 0
  BY DEF Init
<1>2. /\ Idle \in Tools /\ Idle.at = "idle" /\ Idle.tx = 0 /\ Nothing \in Ends
      /\ Nothing.tool = "none" /\ Nothing.id = 0
  BY IdleIsTool
<1>3. /\ Len(txs) = 0 /\ Len(bound) = 0 /\ Len(extensions) = 1 /\ extensions[1] = Foreign
      /\ txs \in Seq(TxRecord) /\ bound \in Seq(Nat)
  BY <1>1
<1>4. Foreign.sender = 0 /\ extensions \in Extensions
  <2>1. /\ Foreign \in [sender : Nat, owner : SUBSET Keys, granted : SUBSET Words,
                        versions : SUBSET Words]
        /\ Foreign.sender = 0
    BY DEF Foreign
  <2> QED
    BY <1>1, <2>1 DEF Extensions
<1>5. /\ builds \in 0..MaxBuilds /\ tests \in 0..MaxTests
      /\ others \in 0..MaxOthers /\ mishaps \in 0..MaxMishaps
  <2>1. MaxBuilds \in Nat /\ MaxTests \in Nat /\ MaxOthers \in Nat /\ MaxMishaps \in Nat
    BY DeployToolsAssumption DEF DeployToolsAssumption
  <2>2. builds = 0 /\ tests = 0 /\ others = 0 /\ mishaps = 0
    BY <1>1, Zenon
  <2> QED
    BY <2>1, <2>2
<1>6. ShapeInv
  <2>1. config \in [id : Nat, sender : Nat] /\ Len(extensions) > 0 /\ extensions[0 + 1] = Foreign
    BY <1>1, <1>3 DEF NoConfig
  <2> QED
    BY <1>1, <1>2, <1>3, <1>4, <1>5, <2>1, Zenon DEF ShapeInv, Extension
<1>7. N = {} /\ Ids = {0} /\ Extension(0).sender = 0
  BY <1>3, <1>4 DEF N, Ids, Extension
<1>8. LogInv /\ OrderInv /\ ServedInv
  BY <1>1, <1>3, <1>7
     DEF LogInv, CallsInv, EffectInv, OnceInv, OneDeploy, OneRegister, OwnInv,
         OrderInv, FromInv, SettledInv, ServedInv
<1>9. ToolFacts(tool, config)
  BY <1>1, <1>2 DEF ToolFacts, WaitFacts, BuildFacts, TestFacts, ConfigFacts, BuildSteps, Grants
<1>10. EndedInv /\ StepOneMeansBound
  BY <1>1, <1>2 DEF EndedInv, StepOneMeansBound
<1> QED
  BY <1>6, <1>8, <1>9, <1>10 DEF IInv

LEMMA StutterStep == ASSUME IInv, UNCHANGED vars PROVE IInv'
<1>1. /\ UNCHANGED <<setting, onchain, txs, config, served>>
      /\ UNCHANGED <<tool, ended, builds, tests, others, mishaps>>
  BY DEF vars, counts
<1>2. ShapeInv /\ LogInv /\ OrderInv /\ txs \in Seq(TxRecord)
  BY Unfolded
<1>3. Grows /\ LogInv' /\ OrderInv' /\ Len(txs') = Len(txs) /\ txs' \in Seq(TxRecord)
  BY <1>1, <1>2, SameLog
<1>4. others' \in 0..MaxOthers /\ mishaps' \in 0..MaxMishaps
  BY <1>1, <1>2, CountTypes
<1>5. ShapeInv'
  BY <1>1, <1>2, <1>3, <1>4, ChainShape
<1> QED
  BY <1>1, <1>3, <1>5, ChainStep

LEMMA NextKeeps == IInv /\ [Next]_vars => IInv'
<1> SUFFICES ASSUME IInv, [Next]_vars PROVE IInv'
  OBVIOUS
<1>1. CASE Send
  BY <1>1, SendStep
<1>2. CASE SendRefused
  BY <1>2, SendRefusedStep
<1>3. CASE ExplainRefusal
  BY <1>3, ExplainStep
<1>4. CASE HeardMined
  BY <1>4, HeardMinedStep
<1>5. CASE HeardFailed
  BY <1>5, HeardFailedStep
<1>6. CASE TimeOut
  BY <1>6, TimeOutStep
<1>7. CASE WriteConfig
  BY <1>7, WriteConfigStep
<1>8. CASE SendFails
  BY <1>8, SendFailsStep
<1>9. CASE ToolDies
  BY <1>9, ToolDiesStep
<1>10. CASE StartBuild
  BY <1>10, StartBuildStep
<1>11. CASE StartTest
  <2>1. config # NoConfig /\ StartTool([Idle EXCEPT !.at = "setExtensionId"])
    BY <1>11 DEF StartTest
  <2>2. PICK id \in Nat, hash \in Hashes : id = 0 /\ id = Idle.id /\ hash = Idle.hash
    BY IdleIsTool DEF Tools
  <2>3. [Idle EXCEPT !.at = "setExtensionId"] =
           [Idle EXCEPT !.at = "setExtensionId", !.id = id, !.hash = hash]
    BY <2>2, IdleIsTool DEF Tools
  <2>4. StartTool([Idle EXCEPT !.at = "setExtensionId", !.id = id, !.hash = hash])
    BY <2>1, <2>3
  <2> QED
    BY <2>1, <2>2, <2>4, StartToolStep
<1>12. CASE StartAllowVersion
  <2>1. PICK id \in served, hash \in Images :
           StartTool([Idle EXCEPT !.at = "addTeeVersion", !.id = id, !.hash = hash])
    BY <1>12, Zenon DEF StartAllowVersion
  <2>2. hash \in Hashes /\ id \in Nat
    <3>1. hash \in Hashes
      BY Zenon DEF Hashes
    <3>2. id \in Ids
      BY Unfolded DEF ServedInv
    <3> QED
      BY <3>1, <3>2 DEF Ids
  <2> QED
    BY <2>1, <2>2, StartToolStep
<1>13. CASE Mine
  BY <1>13, MineStep
<1>14. CASE Drop
  BY <1>14, DropStep
<1>15. CASE OthersSetId \/ OthersRegister
  BY <1>15, OthersStep
<1>16. CASE UNCHANGED vars
  BY <1>16, StutterStep
<1> QED
  BY <1>1, <1>2, <1>3, <1>4, <1>5, <1>6, <1>7, <1>8, <1>9, <1>10, <1>11, <1>12, <1>13,
     <1>14, <1>15, <1>16 DEF Next, Work

\* The strengthening of the properties below holds in every state.
THEOREM Inductive == Spec => []IInv
BY InitHolds, NextKeeps, PTL DEF Spec

\* Whatever is sent, mined, lost or given up, extensions name senders that were
\* deployed, senders know extensions that exist, and the log and the tools' files
\* are what they should be.
THEOREM ToolsTypeOK == Spec => []TypeOK
<1>1. ASSUME IInv PROVE TypeOK
  <2>1. /\ ShapeInv /\ LogInv /\ ServedInv /\ ToolFacts(tool, config) /\ EndedInv /\ ChainTypes
        /\ txs \in Seq(TxRecord) /\ tool \in Tools /\ ended \in Ends /\ setting \in Settings
        /\ config \in [id : Nat, sender : Nat]
    BY <1>1, Unfolded
  <2>2. \A n \in 1..Len(txs) : txs[n] \in TxRecord
    BY <2>1, ElementOfSeq
  <2>3. \A n \in 1..Len(extensions) : extensions[n].sender \in 0..Len(bound)
    <3> SUFFICES ASSUME NEW n \in 1..Len(extensions), extensions[n].sender # 0
                 PROVE  extensions[n].sender \in 1..Len(bound)
      BY <2>1 DEF ChainTypes
    <3>1. PICK id, s : id = n - 1 /\ s = extensions[n].sender
      OBVIOUS
    <3>2. id \in Ids /\ Extension(id).sender = s /\ s # 0
      BY <2>1, <3>1 DEF ChainTypes, Ids, Extension
    <3>3. \E m \in N : RegisteredBy(m, s, id)
      BY <2>1, <3>2 DEF LogInv, OwnInv
    <3> QED
      BY <2>1, <3>1, <3>3, RegistrationFacts
  <2>4. \A s \in 1..Len(bound) : bound[s] \in 0..Len(extensions) - 1
    <3> SUFFICES ASSUME NEW s \in 1..Len(bound), bound[s] # 0
                 PROVE  bound[s] \in Ids
      BY <2>1 DEF ChainTypes, Ids
    <3> QED
      BY <2>1 DEF LogInv, OwnInv, Registered, Ids
  <2>5. config.id \in 0..Len(extensions) - 1 /\ config.sender \in 0..Len(bound)
    <3>1. CASE config = NoConfig
      BY <2>1, <3>1 DEF NoConfig, ChainTypes
    <3>2. CASE config # NoConfig
      BY <2>1, <3>2, RegistrationFacts DEF ToolFacts, ConfigFacts, Ids, ChainTypes
    <3> QED
      BY <3>1, <3>2
  <2>6. tool.tx \in 0..Len(txs)
    <3>1. tool.tx \in Nat /\ Len(txs) \in Nat
      BY <2>1, LenProperties DEF Tools
    <3> QED
      BY <2>1, <3>1 DEF ToolFacts, WaitFacts, N
  <2>7. ended \in [tool : {"none", "setExtensionId", "addTeeVersion"}, well : BOOLEAN,
                   id : {0} \cup served, hash : {""} \cup Images]
    <3>1. ended.id \in {0} \cup served
      BY <2>1 DEF EndedInv
    <3> QED
      BY <2>1, <3>1 DEF Ends, Hashes
  <2>9. served \subseteq 1..Len(extensions) - 1
    BY <2>1, ServedAreIds DEF Ids, ChainTypes
  <2>8. /\ builds \in 0..MaxBuilds /\ tests \in 0..MaxTests
        /\ others \in 0..MaxOthers /\ mishaps \in 0..MaxMishaps
    BY <2>1, CountTypes
  <2> QED
    BY <2>1, <2>2, <2>3, <2>4, <2>5, <2>6, <2>7, <2>8, <2>9, Zenon DEF TypeOK
<1> QED
  BY <1>1, Inductive, PTL

\* However late the transactions of a run that was given up are mined, the config
\* names what its own run of register-extension made, and nothing that waits can
\* make a second extension of its sender.
THEOREM ConfigIsRight == Spec => []ConfigNamesItsRegistration
<1>1. ASSUME IInv PROVE ConfigNamesItsRegistration
  <2> SUFFICES ASSUME config # NoConfig
               PROVE  /\ Extension(config.id).sender = config.sender
                      /\ {"projectOwner", "keyType"} \subseteq Extension(config.id).granted
                      /\ Registered(config.sender) = {config.id}
                      /\ \A n \in Pending : txs[n].call.op = "register" =>
                                               txs[n].call.on # config.sender
    BY DEF ConfigNamesItsRegistration
  <2>1. LogInv /\ ConfigFacts(config) /\ ChainTypes
    BY <1>1, Unfolded DEF ToolFacts
  <2>2. PICK m \in N : RegisteredBy(m, config.sender, config.id)
    BY <2>1 DEF ConfigFacts
  <2>3. /\ Extension(config.id).sender = config.sender
        /\ Registered(config.sender) = {config.id}
        /\ \A n \in N : txs[n].call.op = "register" /\ txs[n].call.on = config.sender => n = m
    BY <2>1, <2>2, RegistrationFacts, OnlyRegistration
  <2>4. \A n \in Pending : n \in N /\ n # m
    BY <2>2 DEF Pending, N, RegisteredBy, Mined
  <2> QED
    BY <2>1, <2>3, <2>4 DEF ConfigFacts
<1> QED
  BY <1>1, Inductive, PTL

\* What an effect leaves of the grants.
LEMMA GrantsLeft ==
    ASSUME ChainTypes, NEW call, Effect(call), NEW id \in Ids,
           call.op \in {"deploy", "register", "grant", "setExtensionId", "addTeeVersion"},
           call.op = "grant" => call.on # id,
           call.op \in {"grant", "addTeeVersion"} => call.on \in Ids
    PROVE  Extension(id)'.granted = Extension(id).granted
<1>1. id + 1 \in 1..Len(extensions)
  BY DEF ChainTypes, Ids
<1>2. PICK i : i = id + 1 /\ i \in 1..Len(extensions) /\ Extension(id)' = extensions'[i]
               /\ Extension(id) = extensions[i]
  BY <1>1 DEF Extension
<1>3. CASE call.op \in {"deploy", "setExtensionId"}
  BY <1>2, <1>3, EffectValues
<1>4. CASE call.op = "register"
  <2>1. \E e : extensions' = Append(extensions, e)
    BY <1>4, EffectValues
  <2>2. extensions'[i] = extensions[i]
    BY <1>2, <2>1 DEF ChainTypes
  <2> QED
    BY <1>2, <2>2
<1>5. CASE call.op = "grant"
  <2>1. extensions' = [extensions EXCEPT ![call.on + 1].granted = @ \cup {call.what}]
    BY <1>5, EffectValues
  <2>2. call.on + 1 # i
    BY <1>2, <1>5 DEF Ids, ChainTypes
  <2> QED
    BY <1>2, <2>1, <2>2 DEF ChainTypes
<1>6. CASE call.op = "addTeeVersion"
  <2>1. extensions' = [extensions EXCEPT ![call.on + 1].versions = @ \cup {call.what}]
    BY <1>6, EffectValues
  <2>2. /\ extensions \in Seq([sender : Nat, owner : SUBSET Keys, granted : SUBSET Words,
                               versions : SUBSET Words])
        /\ extensions[i] \in [sender : Nat, owner : SUBSET Keys, granted : SUBSET Words,
                              versions : SUBSET Words]
    BY <1>2, ElementOfSeq DEF ChainTypes, Extensions
  <2> QED
    BY <1>2, <2>1, <2>2
<1> QED
  BY <1>3, <1>4, <1>5, <1>6

\* Once the config has named an extension its grants are final: a machine owner's
\* grant that register-extension gave up was decided before the key type's, which
\* it waited for, and nobody grants to an extension of another run.
THEOREM GrantsSafety == Spec => GrantsAreFinal
<1>1. ASSUME IInv, Next, NEW id \in served
      PROVE  Extension(id)'.granted = Extension(id).granted
  <2>1. /\ ChainTypes /\ ShapeInv /\ LogInv
        /\ id \in Ids /\ NoGrantWaits(id)
    BY <1>1, Unfolded DEF ServedInv
  <2>2. CASE Mine
    <3>1. PICK n \in Pending :
             \/ Effect(txs[n].call)
             \/ UNCHANGED onchain
      BY <2>2 DEF Mine
    <3>2. n \in N /\ txs[n].fate = "pending"
      BY DEF Pending, N
    <3>3. /\ txs[n].call.op \in {"deploy", "register", "grant", "setExtensionId", "addTeeVersion"}
          /\ txs[n].call.op = "grant" => txs[n].call.on # id
          /\ txs[n].call.op \in {"grant", "addTeeVersion"} => txs[n].call.on \in Ids
      BY <2>1, <3>2, TxTypes DEF NoGrantWaits, LogInv, CallsInv, Asked
    <3>4. CASE Effect(txs[n].call)
      BY <2>1, <3>3, <3>4, GrantsLeft
    <3> QED
      BY <3>1, <3>4 DEF onchain, Extension
  <2>3. CASE OthersSetId
    <3>1. PICK s \in 1..Len(bound) : Effect(Call("setExtensionId", s, "", {}))
      BY <2>3 DEF OthersSetId
    <3>2. Call("setExtensionId", s, "", {}).op = "setExtensionId"
      BY DEF Call
    <3> QED
      BY <2>1, <3>1, <3>2, GrantsLeft
  <2>4. CASE OthersRegister
    <3>1. extensions' = Append(extensions, Foreign)
      BY <2>4 DEF OthersRegister
    <3>2. id + 1 \in 1..Len(extensions)
      BY <2>1 DEF ChainTypes, Ids
    <3> QED
      BY <2>1, <3>1, <3>2 DEF ChainTypes, Extension
  <2>5. CASE UNCHANGED onchain
    BY <2>5 DEF onchain, Extension
  <2>6. CASE Work \/ SendFails \/ ToolDies \/ StartBuild \/ StartTest \/ StartAllowVersion \/ Drop
    <3>1. UNCHANGED onchain
      BY <2>6 DEF Work, Send, SendRefused, ExplainRefusal, HeardMined, HeardFailed, TimeOut,
                  WriteConfig, SendFails, ToolDies, StartBuild, StartTest, StartAllowVersion,
                  StartTool, Drop
    <3> QED
      BY <2>5, <3>1
  <2> QED
    BY <1>1, <2>2, <2>3, <2>4, <2>6 DEF Next
<1>2. IInv /\ [Next]_vars =>
         [\A id \in served : Extension(id)'.granted = Extension(id).granted]_vars
  BY <1>1
<1> QED
  BY <1>2, Inductive, PTL DEF Spec, GrantsAreFinal

\* run-test's step 1 goes on only with an InstructionSender that knows the
\* extension of the config, whoever told it.
THEOREM StepOneIsRight == Spec => []StepOneMeansBound
<1>1. IInv => StepOneMeansBound
  BY DEF IInv
<1> QED
  BY <1>1, Inductive, PTL

\* A test that ends well says so, under its own name.
LEMMA EndTestValues ==
    ASSUME EndTest(TRUE)
    PROVE  ended'.tool = tool.at /\ ended'.well = TRUE
<1>1. ended' = [tool |-> tool.at, well |-> TRUE, id |-> tool.id, hash |-> tool.hash]
  BY DEF EndTest
<1> QED
  BY <1>1

\* Where step 1 ends with an error: at a refusal, or a failed transaction, and
\* only while the sender does not know its extension if the node is readable.
AtFailure ==
    \/ tool.at = "explain"
    \/ tool.at = "setExtensionId" /\ Waiting /\ Fate = "failed"

LEMMA BadEnd ==
    ASSUME IInv, Next, ended' # ended, ended'.tool = "setExtensionId", ~ ended'.well, Readable
    PROVE  bound[config.sender] = 0 /\ AtFailure
<1>1. setting \in Settings /\ Nothing.tool = "none"
  BY Unfolded, IdleIsTool
<1>2. CASE ExplainRefusal
  <2>1. PICK message :
           /\ message = SendMessage(node, tool.why, Refusal(CallOf("setExtensionId")))
           /\ ended' = [Nothing EXCEPT !.tool = "setExtensionId", !.well = Tolerated(message)]
    BY <1>2 DEF ExplainRefusal
  <2>2. config # NoConfig /\ tool.why \in {{}, {"already set"}}
    BY <1>2, ToolIsThere DEF ExplainRefusal, TestFacts
  <2>3. ~ Tolerated(message)
    BY <2>1, IdleIsTool DEF Ends
  <2>4. Refusal(CallOf("setExtensionId")) # {"already set"}
    BY <1>1, <2>1, <2>2, <2>3, SaysAlreadySet
  <2> QED
    BY <1>2, <2>2, <2>4, CallFields, ConfigSender DEF ExplainRefusal, AtFailure
<1>3. CASE HeardFailed
  <2>1. PICK later : later = Refusal(txs[tool.tx].call)
    OBVIOUS
  <2>2. /\ Waiting /\ Fate = "failed"
        /\ tool.at = "setExtensionId" =>
              IF Tolerated(MinedMessage(node, later)) THEN EndTest(TRUE) ELSE GoWrong
        /\ tool.at = "addTeeVersion" => EndTest(TRUE) \/ GoWrong
        /\ tool.at \in BuildSteps => GoWrong
    BY <1>3, <2>1, HeardFailedValues
  <2>3. /\ tool.at \in BuildSteps \cup {"setExtensionId", "addTeeVersion"}
        /\ Asks(tool, config, txs[tool.tx].call)
    BY <2>2, Waits
  <2>4. GoWrong => ended'.tool = tool.at
    BY <2>3, GoesWrong
  <2>5. EndTest(TRUE) => ended'.tool = tool.at /\ ended'.well = TRUE
    BY EndTestValues
  <2>6. tool.at = "setExtensionId"
    BY <2>2, <2>3, <2>4, <2>5
  <2>7. ~ Tolerated(MinedMessage(node, later))
    BY <2>2, <2>5, <2>6
  <2>8. /\ config # NoConfig /\ txs[tool.tx].call.op = "setExtensionId"
        /\ txs[tool.tx].call.on = config.sender
    BY <2>3, <2>6, ToolIsThere DEF Asks, TestFacts
  <2> QED
    BY <1>1, <2>1, <2>2, <2>6, <2>7, <2>8, ConfigSender, SaysAlreadySet DEF AtFailure
<1>4. CASE HeardMined
  <2>1. EndTest(TRUE) \/ UNCHANGED ended
    <3>1. \A t : Proceed(t) => UNCHANGED ended
      BY DEF Proceed
    <3> QED
      BY <1>4, <3>1, HeardMinedValues, Waits DEF BuildSteps, Grants
  <2>2. EndTest(TRUE) => ended'.well = TRUE
    BY EndTestValues
  <2> QED
    BY <2>1, <2>2
<1>5. CASE TimeOut
  <2>1. Waiting /\ GoWrong /\ tool.at # "setExtensionId"
    BY <1>5 DEF TimeOut, Deadline
  <2> QED
    BY <2>1, Waits, GoesWrong
<1>6. CASE SendRefused \/ SendFails
  <2>1. tool.at \in BuildSteps \cup {"setExtensionId", "addTeeVersion"}
    BY <1>6 DEF SendRefused, SendFails, AboutToSend
  <2>2. /\ tool.at = "setExtensionId" => UNCHANGED ended
        /\ tool.at # "setExtensionId" => EndTest(TRUE) \/ GoWrong
    BY <1>6 DEF SendRefused, SendFails, ExplainOr
  <2>3. GoWrong => ended' = ended \/ ended'.tool = tool.at
    BY <2>1, GoesWrong
  <2>4. EndTest(TRUE) => ended'.tool = tool.at
    BY EndTestValues
  <2> QED
    BY <2>2, <2>3, <2>4
<1>7. CASE ended' = Nothing
  BY <1>1, <1>7
<1>8. CASE StartBuild \/ StartTest \/ StartAllowVersion
  <2>1. ended' = Nothing
    BY <1>8 DEF StartBuild, StartTest, StartAllowVersion, StartTool
  <2> QED
    BY <1>7, <2>1
<1>9. CASE Send \/ WriteConfig \/ ToolDies \/ Mine \/ Drop \/ OthersSetId \/ OthersRegister
  BY <1>9 DEF Send, WriteConfig, ToolDies, Mine, Drop, OthersSetId, OthersRegister, Others
<1> QED
  BY <1>2, <1>3, <1>4, <1>5, <1>6, <1>8, <1>9 DEF Next, Work

\* On a node whose reasons SetExtensionId can read, run-test's step 1 never ends
\* with an error when the sender knows its extension.
THEOREM KnownSenderPasses == Spec => KnownSenderIsNoError
<1>1. IInv /\ [Next]_vars =>
         [ended' # ended /\ ended'.tool = "setExtensionId" /\ ~ ended'.well /\ Readable
             => bound[config.sender] = 0]_vars
  BY BadEnd
<1> QED
  BY <1>1, Inductive, PTL DEF Spec, KnownSenderIsNoError

\* No tool names another reason than the contract's, whatever the node.
THEOREM ReasonsAlwaysHold == Spec => []ReasonsHold
<1>1. ASSUME IInv PROVE ReasonsHold
  <2>1. node \in Habits
    BY <1>1, Unfolded, DeployToolsAssumption DEF DeployToolsAssumption, node
  <2> QED
    BY <2>1, ReasonsAlwaysTrue DEF ReasonsHold
<1> QED
  BY <1>1, Inductive, PTL
------------------------------------------------------------------------------
\* What a report without a warning promises.
LEMMA SilentMeansPaid == ASSUME SilentReport(env, world) PROVE ~ MayRefusePay
<1>1. FundsCheck(env, world) \in AllChecks(env, world)
  BY DEF AllChecks, DeployChecks
<1>2. FundsCheck(env, world).status \in {"PASS", "SKIP"}
  BY <1>1 DEF SilentReport
<1>3. FundsCheck(env, world).status = IF KeyHasFunds(env, world) THEN "PASS" ELSE "FAIL"
  BY DEF FundsCheck, Result
<1>4. KeyHasFunds(env, world)
  BY <1>2, <1>3
<1> QED
  BY <1>4 DEF KeyHasFunds, MayRefusePay, Sender

\* After a silent report, while nothing has failed that it cannot see, step 1 is
\* refused or fails only because the sender knows its extension by then.
Promised == SilentReport(env, world) /\ mishaps = 0
EarnestInv == Promised /\ AtFailure => bound[config.sender] # 0

\* Mishaps are counted, and the settings stay.
LEMMA StillPromised ==
    ASSUME IInv, Next, SilentReport(env, world), mishaps' = 0
    PROVE  Promised /\ ~ Mishap
<1>1. mishaps \in 0..MaxMishaps /\ MaxMishaps \in Nat
  BY Unfolded, CountTypes, DeployToolsAssumption DEF DeployToolsAssumption
<1>2. UNCHANGED mishaps \/ Mishap
  <2>1. CASE Mine
    BY <2>1 DEF Mine
  <2>2. CASE SendFails
    BY <2>2 DEF SendFails
  <2>3. CASE Drop \/ ToolDies
    BY <2>3 DEF Drop, ToolDies
  <2>4. CASE Work
    BY <2>4 DEF Work, Send, SendRefused, ExplainRefusal, HeardMined, HeardFailed, TimeOut,
                WriteConfig, counts
  <2>5. CASE StartBuild \/ StartTest \/ StartAllowVersion
    BY <2>5 DEF StartBuild, StartTest, StartAllowVersion, StartTool
  <2>6. CASE OthersSetId \/ OthersRegister
    BY <2>6 DEF OthersSetId, OthersRegister, Others
  <2> QED
    BY <2>1, <2>2, <2>3, <2>4, <2>5, <2>6 DEF Next
<1> QED
  BY <1>1, <1>2 DEF Mishap, Promised

\* A step of the chain: who knows its extension still does, and a transaction of
\* step 1 that fails fails for that.
LEMMA ChainKeepsPromise ==
    ASSUME IInv, EarnestInv, Promised, ~ Mishap,
           Mine \/ Drop \/ OthersSetId \/ OthersRegister, AtFailure'
    PROVE  bound'[config'.sender] # 0
<1>1. /\ UNCHANGED <<setting, config, tool>>
      /\ ShapeInv /\ LogInv /\ ChainTypes /\ TestFacts(tool, config) /\ ConfigFacts(config)
  BY Unfolded, ToolIsThere DEF Mine, Drop, OthersSetId, OthersRegister, Others
<1>2. config # NoConfig
  BY <1>1 DEF AtFailure, TestFacts
<1>3. config.sender \in 1..Len(bound)
  BY <1>1, <1>2, RegistrationFacts DEF ConfigFacts
<1>4. CASE Mine
  <2>1. PICK n \in Pending :
           \/ /\ Refusal(txs[n].call) = {}
              /\ Effect(txs[n].call)
              /\ txs' = [txs EXCEPT ![n].fate = "mined", ![n].made = Made(txs[n].call)]
           \/ /\ Refusal(txs[n].call) # {}
              /\ txs' = [txs EXCEPT ![n].fate = "failed"]
              /\ UNCHANGED onchain
    BY <1>4 DEF Mine
  <2>2. CASE /\ Refusal(txs[n].call) = {}
             /\ Effect(txs[n].call)
             /\ txs' = [txs EXCEPT ![n].fate = "mined", ![n].made = Made(txs[n].call)]
    <3>1. PICK call : call = txs[n].call
      OBVIOUS
    <3>2. /\ Refusal(call) = {} /\ Effect(call)
          /\ txs' = [txs EXCEPT ![n].fate = "mined", ![n].made = Made(call)]
      BY <2>2, <3>1
    <3>3. ChainGrows /\ \A m \in N : txs'[m].fate = IF m = n THEN "mined" ELSE txs[m].fate
      BY <1>1, <3>1, <3>2, Mining
    <3>4. AtFailure
      BY <1>1, <3>3, Waits DEF AtFailure, Waiting, Fate
    <3> QED
      BY <1>1, <1>3, <3>3, <3>4 DEF EarnestInv, ChainGrows
  <2>3. CASE /\ Refusal(txs[n].call) # {}
             /\ txs' = [txs EXCEPT ![n].fate = "failed"] /\ UNCHANGED onchain
    <3>1. PICK fate \in {"failed", "dropped"} : fate = "failed"
      OBVIOUS
    <3>2. \A m \in N : txs'[m].fate = IF m = n THEN fate ELSE txs[m].fate
      BY <1>1, <2>3, <3>1, Ending
    <3>3. CASE AtFailure
      BY <1>1, <2>3, <3>3 DEF EarnestInv, onchain
    <3>4. CASE ~ AtFailure
      <4>1. /\ tool.at = "setExtensionId" /\ Waiting /\ Fate # "failed"
            /\ txs'[tool.tx].fate = "failed"
        BY <1>1, <3>4 DEF AtFailure, Waiting, Fate
      <4>2. tool.tx \in N /\ Asks(tool, config, txs[tool.tx].call)
        BY <4>1, Waits
      <4>3. n = tool.tx
        BY <3>2, <4>1, <4>2 DEF Fate
      <4>4. txs[n].call.op = "setExtensionId" /\ txs[n].call.on = config.sender
        BY <4>1, <4>2, <4>3 DEF Asks
      <4>5. bound[config.sender] # 0
        BY <1>2, <2>3, <4>4, ConfigSender
      <4> QED
        BY <1>1, <2>3, <4>5 DEF onchain
    <3> QED
      BY <3>3, <3>4
  <2> QED
    BY <2>1, <2>2, <2>3
<1>5. CASE OthersSetId \/ OthersRegister
  <2>1. \/ \E s \in 1..Len(bound) : /\ Refusal(Call("setExtensionId", s, "", {})) = {}
                                    /\ Effect(Call("setExtensionId", s, "", {}))
        \/ extensions' = Append(extensions, Foreign) /\ UNCHANGED bound
    BY <1>5, Zenon DEF OthersSetId, OthersRegister
  <2>2. UNCHANGED txs
    BY <1>5 DEF OthersSetId, OthersRegister, Others
  <2>3. ChainGrows
    BY <1>1, <2>1, <2>2, OthersDoing
  <2>4. AtFailure
    BY <1>1, <2>2 DEF AtFailure, Waiting, Fate
  <2> QED
    BY <1>1, <1>3, <2>3, <2>4 DEF EarnestInv, ChainGrows
<1>6. CASE Drop
  BY <1>6 DEF Drop
<1> QED
  BY <1>4, <1>5, <1>6

\* A tool that goes wrong, ends or goes on is not at the failure of step 1.
LEMMA LeavesFailure ==
    ASSUME tool \in Tools,
           \/ GoWrong \/ EndTest(TRUE) \/ tool' = Idle
           \/ \E t \in Tools : t.at = tool.at /\ tool.at \in BuildSteps /\ Proceed(t)
    PROVE  tool'.at \notin {"explain", "setExtensionId"}
<1>1. CASE tool' = Idle
  BY <1>1, IdleIsTool
<1>2. ASSUME NEW t \in Tools, t.at = tool.at, tool.at \in BuildSteps, Proceed(t)
      PROVE  tool'.at \notin {"explain", "setExtensionId"}
  <2>1. PICK next : next = After(tool.at)
    OBVIOUS
  <2>2. next \in {"register", "machineOwner", "projectOwner", "keyType", "write"}
    BY <1>2, <2>1, AfterValues DEF BuildSteps
  <2>3. tool' = [t EXCEPT !.at = next, !.tx = 0]
    BY <1>2, <2>1 DEF Proceed
  <2>4. tool'.at = next
    BY <2>3 DEF Tools
  <2> QED
    BY <2>2, <2>4
<1>3. CASE GoWrong
  <2>1. CASE tool.at = "machineOwner" /\ Proceed(tool)
    BY <1>2, <2>1 DEF BuildSteps
  <2>2. CASE tool' = Idle
    BY <1>1, <2>2
  <2>3. CASE EndTest(FALSE)
    BY <1>1, <2>3 DEF EndTest
  <2> QED
    BY <1>3, <2>1, <2>2, <2>3, GoWrongValues
<1>4. CASE EndTest(TRUE)
  BY <1>1, <1>4 DEF EndTest
<1> QED
  BY <1>1, <1>2, <1>3, <1>4

\* A step of the tools.
LEMMA ToolKeepsPromise ==
    ASSUME IInv, EarnestInv, Promised, ~ Mishap, AtFailure',
           \/ Work \/ SendFails \/ ToolDies
           \/ StartBuild \/ StartTest \/ StartAllowVersion
    PROVE  bound'[config'.sender] # 0
<1>1. /\ tool \in Tools /\ TestFacts(tool, config) /\ UNCHANGED onchain
      /\ tool'.at \in {"explain", "setExtensionId"}
  BY ToolIsThere
     DEF Work, Send, SendRefused, ExplainRefusal, HeardMined, HeardFailed, TimeOut, WriteConfig,
         SendFails, ToolDies, StartBuild, StartTest, StartAllowVersion, StartTool, AtFailure
<1>2. CASE Send
  <2>1. /\ AboutToSend /\ tool' = [tool EXCEPT !.tx = Len(txs) + 1]
        /\ \E call : txs' = Append(txs, [call |-> call, fate |-> "pending", made |-> 0])
    BY <1>2 DEF Send
  <2>2. tool.at \in BuildSteps \cup {"setExtensionId", "addTeeVersion"}
    BY <2>1 DEF AboutToSend
  <2>3. tool'.at = tool.at /\ tool'.tx = Len(txs) + 1
    BY <1>1, <2>1 DEF Tools
  <2>4. txs'[Len(txs) + 1].fate = "pending"
    <3>1. txs \in Seq(TxRecord)
      BY Unfolded
    <3> QED
      BY <2>1, <3>1
  <2> QED
    BY <2>2, <2>3, <2>4 DEF AtFailure, Fate, BuildSteps
<1>3. CASE SendRefused
  <2>1. CASE tool.at = "setExtensionId"
    <3>1. Refusal(CallOf("setExtensionId")) # {} /\ config' = config /\ config # NoConfig
      BY <1>1, <1>3, <2>1 DEF SendRefused, TestFacts
    <3>2. bound[config.sender] # 0
      BY <3>1, CallFields, ConfigSender
    <3> QED
      BY <1>1, <3>1, <3>2 DEF onchain
  <2>2. CASE tool.at # "setExtensionId"
    <3>1. EndTest(TRUE) \/ GoWrong
      BY <1>3, <2>2 DEF SendRefused, ExplainOr
    <3> QED
      BY <1>1, <3>1, LeavesFailure
  <2> QED
    BY <2>1, <2>2
<1>4. CASE SendFails
  BY <1>4, SilentMeansPaid DEF SendFails, Promised
<1>5. CASE HeardMined
  <2>1. Waiting /\ tool.at \in BuildSteps \cup {"setExtensionId", "addTeeVersion"}
    BY <1>5, HeardMinedValues, Waits
  <2>2. txs[tool.tx].made \in Nat
    BY <2>1, Waits
  <2>3. EndTest(TRUE) \/ \E t \in Tools : t.at = tool.at /\ tool.at \in BuildSteps /\ Proceed(t)
    <3>1. CASE tool.at = "deploy"
      <4>1. PICK t : t = [tool EXCEPT !.sender = txs[tool.tx].made]
        OBVIOUS
      <4>2. t \in Tools /\ t.at = tool.at
        BY <1>1, <2>2, <4>1 DEF Tools
      <4> QED
        BY <1>5, <3>1, <4>1, <4>2, HeardMinedValues DEF BuildSteps
    <3>2. CASE tool.at = "register"
      <4>1. PICK t : t = [tool EXCEPT !.id = txs[tool.tx].made]
        OBVIOUS
      <4>2. t \in Tools /\ t.at = tool.at
        BY <1>1, <2>2, <4>1 DEF Tools
      <4> QED
        BY <1>5, <3>2, <4>1, <4>2, HeardMinedValues DEF BuildSteps
    <3>3. CASE tool.at \in Grants
      BY <1>1, <1>5, <3>3, HeardMinedValues DEF BuildSteps, Grants
    <3>4. CASE tool.at \notin BuildSteps
      BY <1>5, <3>4, HeardMinedValues
    <3> QED
      BY <2>1, <3>1, <3>2, <3>3, <3>4 DEF BuildSteps, Grants
  <2> QED
    BY <1>1, <2>3, LeavesFailure
<1>6. CASE HeardFailed
  <2>1. PICK later : later = Refusal(txs[tool.tx].call)
    OBVIOUS
  <2>2. /\ Waiting
        /\ tool.at \in BuildSteps \cup {"setExtensionId", "addTeeVersion"}
              => EndTest(TRUE) \/ GoWrong
    BY <1>6, <2>1, HeardFailedValues
  <2> QED
    BY <1>1, <2>2, Waits, LeavesFailure
<1>7. CASE TimeOut
  BY <1>1, <1>7, LeavesFailure DEF TimeOut
<1>8. CASE ExplainRefusal \/ WriteConfig
  BY <1>1, <1>8, LeavesFailure DEF ExplainRefusal, WriteConfig
<1>9. CASE ToolDies
  BY <1>9 DEF ToolDies
<1>10. CASE StartBuild
  <2>1. tool' = [Idle EXCEPT !.at = "deploy"]
    BY <1>10 DEF StartBuild
  <2>2. tool'.at = "deploy"
    BY <2>1, IdleIsTool DEF Tools
  <2> QED
    BY <1>1, <2>2
<1>11. CASE StartTest
  <2>1. tool' = [Idle EXCEPT !.at = "setExtensionId"]
    BY <1>11 DEF StartTest, StartTool
  <2>2. tool'.at = "setExtensionId" /\ tool'.tx = 0
    BY <2>1, IdleIsTool DEF Tools
  <2> QED
    BY <2>2 DEF AtFailure, Waiting
<1>12. CASE StartAllowVersion
  <2>1. PICK id, hash : tool' = [Idle EXCEPT !.at = "addTeeVersion", !.id = id, !.hash = hash]
    BY <1>12 DEF StartAllowVersion, StartTool
  <2>2. tool'.at = "addTeeVersion"
    BY <2>1, IdleIsTool DEF Tools
  <2> QED
    BY <1>1, <2>2
<1> QED
  BY <1>2, <1>3, <1>4, <1>5, <1>6, <1>7, <1>8, <1>9, <1>10, <1>11, <1>12 DEF Work

LEMMA EarnestKeeps == IInv /\ EarnestInv /\ [Next]_vars => EarnestInv'
<1> SUFFICES ASSUME IInv, EarnestInv, [Next]_vars, Promised', AtFailure'
             PROVE  bound'[config'.sender] # 0
  BY DEF EarnestInv
<1>1. CASE UNCHANGED vars
  BY <1>1 DEF vars, onchain, counts, EarnestInv, Promised, AtFailure, Waiting, Fate, env, world
<1>2. CASE Next
  <2>1. setting' = setting
    BY <1>2 DEF Next, Work, Send, SendRefused, ExplainRefusal, HeardMined, HeardFailed, TimeOut,
                WriteConfig, SendFails, ToolDies, StartBuild, StartTest, StartAllowVersion,
                StartTool, Mine, Drop, OthersSetId, OthersRegister, Others
  <2>2. SilentReport(env, world) /\ mishaps' = 0
    BY <2>1 DEF Promised, env, world
  <2>3. Promised /\ ~ Mishap
    BY <1>2, <2>2, StillPromised
  <2> QED
    BY <1>2, <2>3, ChainKeepsPromise, ToolKeepsPromise DEF Next
<1> QED
  BY <1>1, <1>2

\* A report without a warning about the deployer's key and the manager keeps its
\* word: pre-build.sh is never refused a send, and step 1 fails for nothing but what
\* it tolerates, in whatever order others' calls are mined.
THEOREM EarnestSafety == Spec => EarnestReport
<1>1. Init => EarnestInv
  BY IdleIsTool DEF Init, EarnestInv, AtFailure, Waiting
<1>2. ASSUME IInv, EarnestInv, Next, SilentReport(env, world), mishaps' = 0
      PROVE  /\ tool.at \in BuildSteps /\ ~ Waiting => tool'.at # "idle"
             /\ ended' # ended /\ ended'.tool = "setExtensionId" /\ Readable => ended'.well
  <2>1. Promised /\ ~ Mishap
    BY <1>2, StillPromised
  <2>2. ended' # ended /\ ended'.tool = "setExtensionId" /\ Readable => ended'.well
    BY <1>2, <2>1, BadEnd DEF EarnestInv
  <2>3. ASSUME tool.at \in BuildSteps, ~ Waiting
        PROVE  tool'.at # "idle"
    <3>1. tool \in Tools /\ tool # Idle /\ tool.at # "idle"
      BY <1>2, <2>3, ToolIsThere, IdleIsTool DEF BuildSteps
    <3>2. CASE Send
      <4>1. tool' = [tool EXCEPT !.tx = Len(txs) + 1]
        BY <3>2 DEF Send
      <4> QED
        BY <3>1, <4>1 DEF Tools
    <3>3. ~ SendRefused
      BY <2>3, RefusedWhere DEF SendRefused, BuildSteps
    <3>4. ~ SendFails /\ ~ ToolDies /\ ~ Drop
      BY <2>1, SilentMeansPaid DEF SendFails, ToolDies, Drop, Promised
    <3>5. ~ HeardMined /\ ~ HeardFailed /\ ~ TimeOut
      BY <2>3, HeardMinedValues, HeardFailedValues DEF TimeOut
    <3>6. ~ ExplainRefusal /\ ~ WriteConfig
      BY <2>3 DEF ExplainRefusal, WriteConfig, BuildSteps
    <3>7. ~ StartBuild /\ ~ StartTest /\ ~ StartAllowVersion
      BY <3>1 DEF StartBuild, StartTest, StartAllowVersion, StartTool
    <3>8. CASE Mine \/ OthersSetId \/ OthersRegister
      BY <3>1, <3>8 DEF Mine, OthersSetId, OthersRegister, Others
    <3> QED
      BY <1>2, <3>2, <3>3, <3>4, <3>5, <3>6, <3>7, <3>8 DEF Next, Work
  <2> QED
    BY <2>2, <2>3
<1>3. IInv /\ EarnestInv /\ [Next]_vars =>
         [SilentReport(env, world) /\ mishaps' = 0 =>
            /\ tool.at \in BuildSteps /\ ~ Waiting => tool'.at # "idle"
            /\ ended' # ended /\ ended'.tool = "setExtensionId" /\ Readable => ended'.well]_vars
  BY <1>2
<1> QED
  BY <1>1, <1>3, EarnestKeeps, Inductive, PTL DEF Spec, EarnestReport
==============================================================================

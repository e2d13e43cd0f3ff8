------------------------- MODULE KeyRotationProofs -------------------------
(***************************************************************************)
(* Tokens verify for as long as they and their key live, and outlive the   *)
(* key by little or not at all, for any number of keys, replicas and       *)
(* tools, any periods and any time.                                        *)
(***************************************************************************)
EXTENDS KeyRotation, TLAPS

-----------------------------------------------------------------------------
(* Why outstanding tokens verify.                                           *)

\* A tool is at work on add, activate or retire.
Editing(t) == tool[t].action # "generate"

\* A tool is at work on generate.
Generating(t) == tool[t].pc # "idle" /\ tool[t].action = "generate"

\* The rings that some replica signs or verifies with now, or soon may.
InPlay ==
    ({file, secret} \cup {replica[r].ring : r \in Replica}
        \cup {tool[t].document : t \in {u \in Tool : Editing(u)}}) \ {None}

\* A ring has its current key, and every other ring in play has it too.
RingsAgree ==
    \A R, S \in InPlay : Has(R, R.current) /\ S.keys[R.current] = R.keys[R.current]

\* Every ring in play has the key of every unexpired token.
RingsHoldTokens ==
    \A token \in tokens : \A R \in InPlay :
        /\ Has(R, token.kid)
        /\ R.keys[token.kid].seed = token.seed
        /\ R.keys[token.kid].notAfter = token.keyEnds

\* Static verifiers have the current key of every ring that may sign, and the
\* keys of all tokens, until these keys end.
ExportedKeys ==
    /\ \A R \in ({secret} \cup {replica[r].ring : r \in Replica}) \ {None} :
          time < R.keys[R.current].notAfter => exported[R.current] = R.keys[R.current].seed
    /\ \A token \in tokens : time < token.keyEnds => exported[token.kid] = token.seed

\* Tokens are kept until they expire.  Each was signed when the replica had
\* been ready, with the threshold to go, a probe and an exchange ago at most.
TokensAreSignedInTime ==
    \A token \in tokens :
        /\ time <= token.exp
        /\ token.exp + Threshold < token.keyEnds + TokenTtl + ProbeLag + Work

\* A ring is edited by one tool at a time, after it was deployed everywhere;
\* the key to be retired is current, or no token needs it.
EditsAreAlone ==
    \A t \in Tool : Editing(t) =>
        /\ tool[t].pc \in {"read", "write", "rename"}
        /\ \A u \in Tool \ {t} : tool[u].pc = "idle"
        /\ file # None /\ file = secret
        /\ \A r \in Replica : replica[r].ring \in {secret, None}
        /\ tool[t].kid \in Kid
        /\ tool[t].pc = "read" <=> tool[t].document = None
        /\ tool[t].pc = "read" /\ tool[t].action = "retire" =>
              file.current = tool[t].kid \/ \A token \in tokens : token.kid # tool[t].kid

\* Rings are generated before anything is deployed.
GenerateComesFirst ==
    /\ \A t \in Tool : Generating(t) =>
          /\ secret = None /\ tool[t].pc # "read"
          /\ tool[t].document # None
          /\ Has(tool[t].document, tool[t].document.current)
    /\ \A t \in Tool : tool[t].pc = "idle" => tool[t] = Idle
    /\ secret # None => file # None
    /\ secret = None => tokens = {} /\ \A r \in Replica : replica[r].ring = None

(***************************************************************************)
(* The inductive invariant behind OutstandingTokensVerify: at most two     *)
(* different rings are in play, each of them has the other's current key   *)
(* and the key of every token, and a key is exported before it signs.      *)
(***************************************************************************)
IndInv ==
    /\ TypeOK
    /\ RingsAgree
    /\ RingsHoldTokens
    /\ ExportedKeys
    /\ EditsAreAlone
    /\ GenerateComesFirst
    /\ \A r \in Replica : replica[r].at <= time
    /\ TokensAreSignedInTime

-----------------------------------------------------------------------------
(* Types.                                                                   *)

PCs == {"idle", "read", "write", "recheck", "rename"}
Tasks == [pc : PCs, action : Action, kid : Kid \cup {None}, document : Ring \cup {None}]
Loaded == [ring : Ring \cup {None}, at : Nat]
Tokens == [kid : Kid, seed : Nat, exp : Nat, keyEnds : Int]

-----------------------------------------------------------------------------
(* Rings.                                                                   *)

\* A tool that does nothing.
LEMMA IdleType ==
    Idle \in Tasks /\ Idle.pc = "idle" /\ Idle.action = "generate" /\ Idle.document = None
BY DEF Idle, Tasks, PCs, Action

\* new_key makes a key that is no placeholder.
LEMMA NewKeyType ==
    ASSUME time \in Nat, seeds \in Nat, NEW v \in Validity
    PROVE  NewKey(v) \in KeySpec /\ NewKey(v) # NoKey
<1>1. seeds + 1 \in Nat /\ seeds + 1 # 0 /\ time - Backdate \in Int /\ time + v \in Int
  BY RotationAssumption
<1>2. NewKey(v).seed = seeds + 1 /\ NoKey.seed = 0
  BY DEF NewKey, NoKey
<1> QED
  BY <1>1, <1>2 DEF NewKey, KeySpec

LEMMA NoKeyType == NoKey \in KeySpec
BY DEF NoKey, KeySpec

\* The ring of generate has one key, its current one.
LEMMA GeneratedRing ==
    ASSUME time \in Nat, seeds \in Nat, NEW v \in Validity, NEW k \in Kid, NEW R,
           R = [current |-> k, keys |-> [j \in Kid |-> IF j = k THEN NewKey(v) ELSE NoKey]]
    PROVE  R \in Ring /\ R # None /\ Has(R, R.current)
<1>1. NewKey(v) \in KeySpec /\ NewKey(v) # NoKey /\ NoKey \in KeySpec
  BY NewKeyType, NoKeyType
<1> DEFINE ks == [j \in Kid |-> IF j = k THEN NewKey(v) ELSE NoKey]
<1>2. ks \in [Kid -> KeySpec] /\ ks[k] = NewKey(v)
  BY <1>1
<1>3. R.current = k /\ R.keys = ks
  OBVIOUS
<1> HIDE DEF ks
<1>4. R \in Ring
  BY <1>2 DEF Ring, ks
<1> QED
  BY <1>1, <1>2, <1>3, <1>4, NoneAssumption DEF Has

\* What the commands make of a ring: a ring that has the current keys of both,
\* and all keys but the one to be retired.
LEMMA EditedRing ==
    ASSUME time \in Nat, seeds \in Nat, file \in Ring, Has(file, file.current),
           NEW v \in Validity, NEW k \in Kid, NEW action \in Action \ {"generate"},
           Permitted(action, k), NEW E, E = Edited(action, k, v)
    PROVE  /\ E \in Ring /\ E # None
           /\ Has(E, E.current)
           /\ file.keys[E.current] = E.keys[E.current]
           /\ E.keys[file.current] = file.keys[file.current]
           /\ \A j \in Kid : Has(file, j) /\ (action = "retire" => j # k) =>
                                E.keys[j] = file.keys[j]
<1>1. NewKey(v) \in KeySpec /\ NewKey(v) # NoKey /\ NoKey \in KeySpec
  BY NewKeyType, NoKeyType
<1>2. file.current \in Kid /\ file.keys \in [Kid -> KeySpec]
  BY DEF Ring
<1>3. CASE action = "add"
  <2>1. E = [file EXCEPT !.keys = [file.keys EXCEPT ![k] = NewKey(v)]]
    BY <1>2, <1>3 DEF Edited, Ring
  <2>2. E.current = file.current /\ E.keys = [file.keys EXCEPT ![k] = NewKey(v)]
    BY <2>1 DEF Ring
  <2>3. E \in Ring
    BY <1>1, <1>2, <2>1 DEF Ring
  <2>4. ~Has(file, k) /\ k # file.current
    BY <1>3 DEF Permitted
  <2> QED
    BY <1>2, <1>3, <2>2, <2>3, <2>4, NoneAssumption DEF Has
<1>4. CASE action = "activate"
  <2>1. E = [file EXCEPT !.current = k]
    BY <1>4 DEF Edited
  <2>2. E \in Ring /\ E.current = k /\ E.keys = file.keys
    BY <2>1 DEF Ring
  <2>3. Has(file, k)
    BY <1>4 DEF Permitted
  <2> QED
    BY <2>2, <2>3, NoneAssumption DEF Has
<1>5. CASE action = "retire"
  <2>1. E = [file EXCEPT !.keys = [file.keys EXCEPT ![k] = NoKey]]
    BY <1>2, <1>5 DEF Edited, Ring
  <2>2. E.current = file.current /\ E.keys = [file.keys EXCEPT ![k] = NoKey]
    BY <2>1 DEF Ring
  <2>3. E \in Ring
    BY <1>1, <1>2, <2>1 DEF Ring
  <2>4. k # file.current
    BY <1>5 DEF Permitted
  <2> QED
    BY <1>2, <1>5, <2>2, <2>3, <2>4, NoneAssumption DEF Has
<1> QED
  BY <1>3, <1>4, <1>5 DEF Action
-----------------------------------------------------------------------------
(* What most steps have in common.                                          *)

\* The types of the state, without the rings that replicas have loaded.
LEMMA Shapes ==
    ASSUME TypeOK
    PROVE  /\ time \in Nat /\ seeds \in Nat
           /\ file \in Ring \cup {None} /\ secret \in Ring \cup {None}
           /\ tool \in [Tool -> Tasks] /\ exported \in [Kid -> Nat]
           /\ replica \in [Replica -> Loaded] /\ tokens \subseteq Tokens
BY DEF TypeOK, Tasks, PCs, Loaded, Tokens

\* Every ring in play is a ring.
LEMMA InPlayTypes ==
    ASSUME TypeOK, NEW R \in InPlay
    PROVE  /\ R \in Ring /\ R.current \in Kid /\ R.keys \in [Kid -> KeySpec]
           /\ \A k \in Kid : R.keys[k].seed \in Nat /\ R.keys[k].notAfter \in Int
<1>1. R \in Ring
  BY Shapes DEF InPlay, Tasks, Loaded
<1> QED
  BY <1>1 DEF Ring, KeySpec

\* A step that brings no new ring into play and signs no token.
LEMMA QuietRings ==
    ASSUME RingsAgree, RingsHoldTokens, InPlay' \subseteq InPlay, tokens' \subseteq tokens
    PROVE  RingsAgree' /\ RingsHoldTokens'
<1>1. RingsAgree'
  BY DEF RingsAgree, Has, NoKey
<1>2. RingsHoldTokens'
  BY DEF RingsHoldTokens, Has, NoKey
<1> QED
  BY <1>1, <1>2

\* A step that changes nothing but tools, and brings no ring into play.
LEMMA QuietTools ==
    ASSUME IndInv, UNCHANGED <<time, file, secret, exported, replica, tokens>>, seeds' \in Nat,
           tool' \in [Tool -> Tasks], InPlay' \subseteq InPlay,
           EditsAreAlone', GenerateComesFirst'
    PROVE  IndInv'
<1>1. RingsAgree' /\ RingsHoldTokens'
  BY QuietRings DEF IndInv, RingsHoldTokens
<1>2. TypeOK'
  BY DEF IndInv, TypeOK, Tasks, PCs, Loads, Has, InWindow, NoKey
<1>3. ExportedKeys' /\ TokensAreSignedInTime' /\ (\A r \in Replica : replica[r].at <= time)'
  BY DEF IndInv, ExportedKeys, TokensAreSignedInTime
<1> QED
  BY <1>1, <1>2, <1>3 DEF IndInv

\* A tool ends without touching the file.
LEMMA EndStep ==
    ASSUME IndInv, NEW t \in Tool, End(t),
           UNCHANGED <<time, seeds, file, secret, exported, replica, tokens>>
    PROVE  IndInv'
<1>1. tool \in [Tool -> Tasks] /\ tool' \in [Tool -> Tasks] /\ seeds' \in Nat
  BY Shapes, IdleType DEF IndInv, End
<1>2. tool'[t] = Idle /\ \A u \in Tool \ {t} : tool'[u] = tool[u]
  BY <1>1 DEF End
<1>3. ~Editing(t)' /\ ~Generating(t)' /\ tool'[t].pc = "idle"
  BY <1>2, IdleType DEF Editing, Generating
<1>4. \A u \in Tool : u # t => (Editing(u)' <=> Editing(u)) /\ (Generating(u)' <=> Generating(u))
  BY <1>2 DEF Editing, Generating
<1>5. InPlay' \subseteq InPlay
  BY <1>2, <1>3, <1>4 DEF InPlay
<1>6. EditsAreAlone'
  BY <1>2, <1>3, <1>4 DEF IndInv, EditsAreAlone
<1>7. GenerateComesFirst'
  BY <1>2, <1>3, <1>4 DEF IndInv, GenerateComesFirst, Has, Idle, NoKey
<1> QED
  BY <1>1, <1>5, <1>6, <1>7, QuietTools

\* A tool goes on to its next step with the same document.
LEMMA GoOnStep ==
    ASSUME IndInv, NEW t \in Tool, NEW pc \in {"recheck", "rename"},
           tool[t].pc \notin {"idle", "read"}, Editing(t) => pc = "rename",
           tool' = [tool EXCEPT ![t].pc = pc],
           UNCHANGED <<time, seeds, file, secret, exported, replica, tokens>>
    PROVE  IndInv'
<1>1. tool \in [Tool -> Tasks] /\ tool[t] \in Tasks /\ seeds' \in Nat
  BY Shapes DEF IndInv
<1>2. [tool[t] EXCEPT !.pc = pc] \in Tasks
  BY <1>1 DEF Tasks, PCs
<1>3. tool' \in [Tool -> Tasks]
  BY <1>1, <1>2
<1>4. /\ tool'[t].pc = pc /\ tool'[t].action = tool[t].action /\ tool'[t].kid = tool[t].kid
      /\ tool'[t].document = tool[t].document
      /\ \A u \in Tool \ {t} : tool'[u] = tool[u]
  BY <1>1 DEF Tasks
<1>5. \A u \in Tool : (Editing(u)' <=> Editing(u)) /\ (Generating(u)' <=> Generating(u))
  BY <1>4 DEF Editing, Generating
<1>6. InPlay' \subseteq InPlay
  BY <1>4, <1>5 DEF InPlay
<1>7. EditsAreAlone'
  BY <1>4, <1>5 DEF IndInv, EditsAreAlone
<1>8. GenerateComesFirst'
  BY <1>4, <1>5 DEF IndInv, GenerateComesFirst, Has, Idle, NoKey
<1> QED
  BY <1>3, <1>6, <1>7, <1>8, QuietTools, <1>1

-----------------------------------------------------------------------------
(* The tool.                                                                *)

\* generate finds no file, hence nothing deployed.
LEMMA GenerateStep ==
    ASSUME IndInv, NEW t \in Tool, NEW k \in Kid, NEW v \in Validity, Generate(t, k, v)
    PROVE  IndInv'
<1> DEFINE R == [current |-> k, keys |-> [j \in Kid |-> IF j = k THEN NewKey(v) ELSE NoKey]]
           c == [pc |-> "write", action |-> "generate", kid |-> k, document |-> R]
<1>1. /\ tool \in [Tool -> Tasks] /\ seeds \in Nat /\ seeds' \in Nat /\ time \in Nat
  BY Shapes DEF IndInv, Generate
<1>2. R \in Ring /\ R # None /\ Has(R, R.current)
  BY <1>1, GeneratedRing
<1>3. tool' = [tool EXCEPT ![t] = c]
  BY DEF Generate
<1> HIDE DEF R
<1>4. c \in Tasks
  BY <1>2 DEF Tasks, PCs, Action
<1>5. tool' \in [Tool -> Tasks] /\ tool'[t] = c /\ \A u \in Tool \ {t} : tool'[u] = tool[u]
  BY <1>1, <1>3, <1>4
<1>6. secret = None /\ \A u \in Tool : ~Editing(u)
  BY DEF IndInv, GenerateComesFirst, EditsAreAlone, Generate
<1>7. \A u \in Tool : ~Editing(u)'
  BY <1>5, <1>6 DEF Editing
<1>8. UNCHANGED <<time, file, secret, exported, replica, tokens>>
  BY DEF Generate
<1>9. InPlay' \subseteq InPlay
  BY <1>7, <1>8 DEF InPlay
<1>10. EditsAreAlone'
  BY <1>7 DEF EditsAreAlone
<1>11. \A u \in Tool \ {t} : Generating(u)' <=> Generating(u)
  BY <1>5 DEF Generating
<1>12. c.document = R /\ c.pc = "write"
  OBVIOUS
<1>13. GenerateComesFirst'
  BY <1>2, <1>5, <1>6, <1>8, <1>11, <1>12 DEF IndInv, GenerateComesFirst, Has, Idle, NoKey
<1> QED
  BY <1>1, <1>5, <1>8, <1>9, <1>10, <1>13, QuietTools

\* An edit begins when the ring is deployed everywhere.
LEMMA ValidateStep ==
    ASSUME IndInv, NEW t \in Tool, NEW action \in Action \ {"generate"}, NEW k \in Kid,
           Validate(t, action, k)
    PROVE  IndInv'
<1> DEFINE c == [pc |-> "read", action |-> action, kid |-> k, document |-> None]
<1>1. tool \in [Tool -> Tasks] /\ c \in Tasks /\ seeds' \in Nat
  BY Shapes DEF IndInv, Validate, Tasks, PCs
<1>2. tool' = [tool EXCEPT ![t] = c]
  BY DEF Validate
<1>3. tool' \in [Tool -> Tasks] /\ tool'[t] = c /\ \A u \in Tool \ {t} : tool'[u] = tool[u]
  BY <1>1, <1>2
<1>4. /\ \A u \in Tool : tool[u].pc = "idle"
      /\ file # None /\ file = secret
      /\ \A r \in Replica : replica[r].ring = secret
      /\ action = "retire" => \A token \in tokens : token.kid # k
  BY DEF Validate, Procedure, Deployed, Finished, Loads
<1>5. \A u \in Tool : tool[u] = Idle
  BY <1>4 DEF IndInv, GenerateComesFirst
<1>6. \A u \in Tool : (Editing(u)' => u = t) /\ ~Generating(u)'
  BY <1>3, <1>4, <1>5, IdleType DEF Editing, Generating
<1>7. UNCHANGED <<time, file, secret, exported, replica, tokens>>
  BY DEF Validate
<1>8. tool'[t].document = None
  BY <1>3
<1>9. InPlay' \subseteq InPlay
  BY <1>6, <1>7, <1>8 DEF InPlay
<1>10. EditsAreAlone'
  BY <1>3, <1>4, <1>6, <1>7 DEF EditsAreAlone
<1>11. GenerateComesFirst'
  BY <1>3, <1>4, <1>5, <1>6, <1>7 DEF IndInv, GenerateComesFirst, Idle
<1> QED
  BY <1>1, <1>3, <1>7, <1>9, <1>10, <1>11, QuietTools
\* The command edits the ring it reads, the only one in play.
LEMMA ReadRingStep ==
    ASSUME IndInv, NEW t \in Tool, ReadRing(t)
    PROVE  IndInv'
<1> DEFINE action == tool[t].action
           k == tool[t].kid
<1>0. UNCHANGED <<time, file, secret, exported, replica, tokens>>
  BY DEF ReadRing
<1>1. CASE End(t) /\ UNCHANGED seeds
  BY <1>0, <1>1, EndStep
<1>2. ASSUME NEW v \in Validity, Permitted(action, k), seeds' \in {seeds, seeds + 1},
             tool' = [tool EXCEPT ![t].pc = "write", ![t].document = Edited(action, k, v)]
      PROVE  IndInv'
  <2> DEFINE E == Edited(action, k, v)
  <2>1. /\ time \in Nat /\ seeds \in Nat /\ seeds' \in Nat
        /\ tool \in [Tool -> Tasks] /\ tool[t] \in Tasks
    BY <1>2, Shapes DEF IndInv
  <2>2. tool[t].pc = "read" /\ Editing(t) /\ action \in Action \ {"generate"}
    <3>1. tool[t].pc = "read"
      BY DEF ReadRing
    <3>2. Editing(t)
      BY <3>1, <2>1 DEF IndInv, GenerateComesFirst, Editing, Generating
    <3> QED
      BY <2>1, <3>1, <3>2 DEF Editing, Tasks
  <2>3. /\ k \in Kid /\ file # None /\ file = secret
        /\ \A u \in Tool \ {t} : tool[u].pc = "idle"
        /\ \A r \in Replica : replica[r].ring \in {secret, None}
        /\ action = "retire" => file.current = k \/ \A token \in tokens : token.kid # k
    BY <2>2 DEF IndInv, EditsAreAlone
  <2>4. file \in Ring /\ file \in InPlay
    BY <2>3, Shapes DEF IndInv, InPlay
  <2>5. Has(file, file.current)
    BY <2>4 DEF IndInv, RingsAgree
  <2>6. /\ E \in Ring /\ E # None
        /\ Has(E, E.current)
        /\ file.keys[E.current] = E.keys[E.current]
        /\ E.keys[file.current] = file.keys[file.current]
        /\ \A j \in Kid : Has(file, j) /\ (action = "retire" => j # k) =>
                                E.keys[j] = file.keys[j]
    BY <1>2, <2>1, <2>2, <2>3, <2>4, <2>5, EditedRing
  <2> HIDE DEF E
  <2>7. tool' = [tool EXCEPT ![t] = [tool[t] EXCEPT !.pc = "write", !.document = E]]
    BY <1>2, <2>1 DEF E
  <2>8. [tool[t] EXCEPT !.pc = "write", !.document = E] \in Tasks
    BY <2>1, <2>6 DEF Tasks, PCs
  <2>9. /\ tool' \in [Tool -> Tasks]
        /\ tool'[t].pc = "write" /\ tool'[t].action = action /\ tool'[t].kid = k
        /\ tool'[t].document = E
        /\ \A u \in Tool \ {t} : tool'[u] = tool[u]
    BY <2>1, <2>7, <2>8 DEF Tasks
  <2>10. \A u \in Tool \ {t} : tool[u] = Idle
    BY <2>3 DEF IndInv, GenerateComesFirst
  <2>11. \A u \in Tool : (Editing(u)' <=> u = t) /\ ~Generating(u)'
    BY <2>2, <2>9, <2>10, IdleType DEF Editing, Generating
  <2>12. InPlay' \subseteq {file, E}
    BY <1>0, <2>3, <2>9, <2>11 DEF InPlay
  <2>13. RingsAgree'
    BY <2>5, <2>6, <2>12 DEF RingsAgree, Has, NoKey
  <2>14. RingsHoldTokens'
    <3>1. ASSUME NEW token \in tokens
          PROVE  \A R \in {file, E} : /\ Has(R, token.kid)
                                      /\ R.keys[token.kid].seed = token.seed
                                      /\ R.keys[token.kid].notAfter = token.keyEnds
      <4>1. /\ Has(file, token.kid)
            /\ file.keys[token.kid].seed = token.seed
            /\ file.keys[token.kid].notAfter = token.keyEnds
        BY <2>4 DEF IndInv, RingsHoldTokens
      <4>2. token.kid \in Kid
        BY Shapes DEF IndInv, Tokens
      <4>3. action = "retire" => token.kid # k
        BY <1>2, <2>3 DEF Permitted
      <4>4. E.keys[token.kid] = file.keys[token.kid]
        BY <2>6, <4>1, <4>2, <4>3
      <4> QED
        BY <4>1, <4>4 DEF Has
    <3>2. tokens' = tokens
      BY <1>0
    <3> SUFFICES ASSUME NEW token \in tokens
                 PROVE  \A R \in InPlay' : /\ Has(R, token.kid)
                                           /\ R.keys[token.kid].seed = token.seed
                                           /\ R.keys[token.kid].notAfter = token.keyEnds
      BY <3>2 DEF RingsHoldTokens, Has, NoKey
    <3> QED
      BY <2>12, <3>1
  <2>15. EditsAreAlone'
    BY <1>0, <2>2, <2>3, <2>6, <2>9, <2>11 DEF EditsAreAlone
  <2>16. GenerateComesFirst'
    BY <1>0, <2>3, <2>9, <2>10, <2>11 DEF IndInv, GenerateComesFirst, Idle
  <2>17. TypeOK'
    BY <1>0, <2>1, <2>9 DEF IndInv, TypeOK, Tasks, PCs, Loads, Has, InWindow, NoKey
  <2>18. ExportedKeys' /\ TokensAreSignedInTime' /\ (\A r \in Replica : replica[r].at <= time)'
    BY <1>0 DEF IndInv, ExportedKeys, TokensAreSignedInTime
  <2> QED
    BY <2>13, <2>14, <2>15, <2>16, <2>17, <2>18 DEF IndInv
<1> QED
  BY <1>1, <1>2 DEF ReadRing

\* The document is written next to the file, or the command gives up.
LEMMA WriteTempStep ==
    ASSUME IndInv, NEW t \in Tool, WriteTemp(t)
    PROVE  IndInv'
<1>0. UNCHANGED <<time, seeds, file, secret, exported, replica, tokens>> /\ tool[t].pc = "write"
  BY DEF WriteTemp
<1>1. CASE End(t)
  BY <1>0, <1>1, EndStep
<1>2. CASE tool' = [tool EXCEPT ![t].pc = IF tool[t].action = "generate" THEN "recheck" ELSE "rename"]
  <2> DEFINE pc == IF tool[t].action = "generate" THEN "recheck" ELSE "rename"
  <2>1. pc \in {"recheck", "rename"} /\ (Editing(t) => pc = "rename")
    BY DEF Editing
  <2> QED
    BY <1>0, <1>2, <2>1, GoOnStep
<1> QED
  BY <1>1, <1>2 DEF WriteTemp

LEMMA RecheckTargetStep ==
    ASSUME IndInv, NEW t \in Tool, RecheckTarget(t)
    PROVE  IndInv'
<1>0. UNCHANGED <<time, seeds, file, secret, exported, replica, tokens>> /\ tool[t].pc = "recheck"
  BY DEF RecheckTarget
<1>1. CASE End(t)
  BY <1>0, <1>1, EndStep
<1>2. CASE tool' = [tool EXCEPT ![t].pc = "rename"]
  BY <1>0, <1>2, GoOnStep
<1> QED
  BY <1>1, <1>2 DEF RecheckTarget

LEMMA KilledStep ==
    ASSUME IndInv, NEW t \in Tool, Killed(t)
    PROVE  IndInv'
BY EndStep DEF Killed

\* The document becomes the file.  An edit was in play before; the ring of a
\* generate is the only one, for nothing is deployed.
LEMMA RenameStep ==
    ASSUME IndInv, NEW t \in Tool, Rename(t)
    PROVE  IndInv'
<1> DEFINE D == tool[t].document
<1>0. /\ UNCHANGED <<time, seeds, secret, exported, replica, tokens>>
      /\ tool[t].pc = "rename" /\ file' = D /\ tool' = [tool EXCEPT ![t] = Idle]
  BY DEF Rename, End
<1>1. tool \in [Tool -> Tasks] /\ tool' \in [Tool -> Tasks] /\ tool[t] \in Tasks
  BY <1>0, Shapes, IdleType DEF IndInv
<1>2. tool'[t] = Idle /\ \A u \in Tool \ {t} : tool'[u] = tool[u]
  BY <1>0, <1>1
<1>3. ~Editing(t)' /\ ~Generating(t)' /\ tool'[t].pc = "idle"
  BY <1>2, IdleType DEF Editing, Generating
<1>4. \A u \in Tool : u # t => (Editing(u)' <=> Editing(u)) /\ (Generating(u)' <=> Generating(u))
  BY <1>2 DEF Editing, Generating
<1>5. \A u \in Tool : ~Editing(u)'
  <2>1. ASSUME NEW u \in Tool, u # t PROVE ~Editing(u)
    BY <1>0, <2>1 DEF IndInv, EditsAreAlone
  <2> QED
    BY <1>3, <1>4, <2>1
<1>6. EditsAreAlone'
  BY <1>5 DEF EditsAreAlone
<1>7. D \in Ring \cup {None}
  BY <1>1 DEF Tasks
<1>8. TypeOK'
  BY <1>0, <1>1, <1>7 DEF IndInv, TypeOK, Tasks, PCs, Loads, Has, InWindow, NoKey
<1>9. ExportedKeys' /\ TokensAreSignedInTime' /\ (\A r \in Replica : replica[r].at <= time)'
  BY <1>0 DEF IndInv, ExportedKeys, TokensAreSignedInTime
<1>10. CASE Editing(t)
  <2>1. InPlay' \subseteq InPlay
    BY <1>0, <1>5, <1>10 DEF InPlay
  <2>2. RingsAgree' /\ RingsHoldTokens'
    BY <1>0, <2>1, QuietRings DEF IndInv, RingsHoldTokens
  <2>3. GenerateComesFirst'
    <3>1. \A u \in Tool \ {t} : tool[u].pc = "idle"
      BY <1>10 DEF IndInv, EditsAreAlone
    <3>2. \A u \in Tool : ~Generating(u)'
      BY <1>2, <1>3, <3>1 DEF Generating
    <3>3. file' # None
      BY <1>0, <1>10 DEF IndInv, EditsAreAlone
    <3> QED
      BY <1>0, <1>2, <3>2, <3>3 DEF IndInv, GenerateComesFirst, Idle
  <2> QED
    BY <1>6, <1>8, <1>9, <2>2, <2>3 DEF IndInv
<1>11. CASE ~Editing(t)
  <2>1. Generating(t)
    BY <1>0, <1>11 DEF Editing, Generating
  <2>2. /\ secret = None /\ D # None /\ Has(D, D.current) /\ tokens = {}
        /\ \A r \in Replica : replica[r].ring = None
    BY <2>1 DEF IndInv, GenerateComesFirst
  <2>3. InPlay' \subseteq {D}
    BY <1>0, <1>5, <2>2 DEF InPlay
  <2>4. RingsAgree' /\ RingsHoldTokens'
    BY <1>0, <2>2, <2>3 DEF RingsAgree, RingsHoldTokens, Has, NoKey
  <2>5. GenerateComesFirst'
    BY <1>0, <1>2, <1>3, <1>4, <2>2 DEF IndInv, GenerateComesFirst, Has, Idle, NoKey
  <2> QED
    BY <1>6, <1>8, <1>9, <2>4, <2>5 DEF IndInv
<1> QED
  BY <1>10, <1>11
-----------------------------------------------------------------------------
(* Deployment and service.                                                  *)

\* A step that changes neither the tools nor the file.
LEMMA QuietDeployment ==
    ASSUME IndInv, UNCHANGED <<seeds, file, tool>>,
           TypeOK', RingsAgree', RingsHoldTokens', ExportedKeys', TokensAreSignedInTime',
           (\A r \in Replica : replica[r].at <= time)',
           \/ \A t \in Tool : tool[t].pc = "idle"
           \/ /\ secret' = secret
              /\ \A r \in Replica : replica'[r].ring \in {replica[r].ring, secret, None}
              /\ \A token \in tokens' \ tokens : secret # None /\
                    (\A r \in Replica : replica[r].ring \in {secret, None}) => token.kid = secret.current,
           secret' = None => tokens' = {} /\ \A r \in Replica : replica'[r].ring = None,
           secret' # None => file # None
    PROVE  IndInv'
<1>1. \A t \in Tool : (Editing(t)' <=> Editing(t)) /\ (Generating(t)' <=> Generating(t))
  BY DEF Editing, Generating
<1>2. CASE \A t \in Tool : tool[t].pc = "idle"
  <2>1. \A t \in Tool : tool[t] = Idle
    BY <1>2 DEF IndInv, GenerateComesFirst
  <2>2. \A t \in Tool : ~Editing(t)' /\ ~Generating(t)'
    BY <1>1, <2>1, IdleType DEF Editing, Generating
  <2>3. EditsAreAlone'
    BY <2>2 DEF EditsAreAlone
  <2>4. GenerateComesFirst'
    BY <2>1, <2>2 DEF GenerateComesFirst, Idle
  <2> QED
    BY <2>3, <2>4 DEF IndInv
<1>3. CASE ~\A t \in Tool : tool[t].pc = "idle"
  <2>1. /\ secret' = secret
        /\ \A r \in Replica : replica'[r].ring \in {replica[r].ring, secret, None}
        /\ \A token \in tokens' \ tokens : secret # None /\
              (\A r \in Replica : replica[r].ring \in {secret, None}) => token.kid = secret.current
    BY <1>3
  <2>2. GenerateComesFirst'
    BY <1>1, <2>1 DEF IndInv, GenerateComesFirst, Has, Idle, NoKey
  <2>3. ASSUME NEW t \in Tool, Editing(t)
        PROVE  /\ tool'[t].pc \in {"read", "write", "rename"}
               /\ \A u \in Tool \ {t} : tool'[u].pc = "idle"
               /\ file' # None /\ file' = secret'
               /\ \A r \in Replica : replica'[r].ring \in {secret', None}
               /\ tool'[t].kid \in Kid
               /\ tool'[t].pc = "read" <=> tool'[t].document = None
               /\ tool'[t].pc = "read" /\ tool'[t].action = "retire" =>
                     file'.current = tool'[t].kid \/ \A token \in tokens' : token.kid # tool'[t].kid
    <3>1. /\ tool[t].pc \in {"read", "write", "rename"}
          /\ \A u \in Tool \ {t} : tool[u].pc = "idle"
          /\ file # None /\ file = secret
          /\ \A r \in Replica : replica[r].ring \in {secret, None}
          /\ tool[t].kid \in Kid
          /\ tool[t].pc = "read" <=> tool[t].document = None
          /\ tool[t].pc = "read" /\ tool[t].action = "retire" =>
                file.current = tool[t].kid \/ \A token \in tokens : token.kid # tool[t].kid
      BY <2>3 DEF IndInv, EditsAreAlone
    <3>2. \A token \in tokens' \ tokens : token.kid = file.current
      BY <2>1, <3>1
    <3> QED
      BY <2>1, <3>1, <3>2
  <2>4. EditsAreAlone'
    BY <1>1, <2>3 DEF EditsAreAlone
  <2> QED
    BY <2>2, <2>4 DEF IndInv
<1> QED
  BY <1>2, <1>3

\* Static verifiers get the keys of the file, which has every current key and
\* the key of every token.
LEMMA ExportJwksStep ==
    ASSUME IndInv, ExportJwks
    PROVE  IndInv'
<1>0. /\ UNCHANGED <<time, seeds, file, tool, secret, replica, tokens>>
      /\ \A t \in Tool : tool[t].pc = "idle"
      /\ file # None
      /\ exported' = [k \in Kid |-> IF k \in KeptKeys(file, time) THEN file.keys[k].seed ELSE 0]
  BY DEF ExportJwks, Finished, Loads
<1>1. file \in InPlay
  BY <1>0 DEF InPlay
<1>2. file \in Ring /\ file.keys \in [Kid -> KeySpec]
  BY <1>1, InPlayTypes DEF IndInv
<1>3. exported' \in [Kid -> Nat]
  BY <1>0, <1>2 DEF KeySpec
<1>4. TypeOK'
  BY <1>0, <1>3 DEF IndInv, TypeOK, Loads, Has, InWindow, NoKey
<1>5. InPlay' = InPlay
  BY <1>0 DEF InPlay, Editing
<1>6. RingsAgree' /\ RingsHoldTokens'
  BY <1>0, <1>5, QuietRings DEF IndInv, RingsHoldTokens
<1>7. ASSUME NEW R \in ({secret} \cup {replica[r].ring : r \in Replica}) \ {None},
             time < R.keys[R.current].notAfter
      PROVE  exported'[R.current] = R.keys[R.current].seed
  <2>1. R \in InPlay
    BY DEF InPlay
  <2>2. Has(R, R.current) /\ file.keys[R.current] = R.keys[R.current] /\ R.current \in Kid
    BY <1>1, <2>1, InPlayTypes DEF IndInv, RingsAgree
  <2>3. R.current \in KeptKeys(file, time)
    BY <1>7, <2>2 DEF KeptKeys, Has
  <2> QED
    BY <1>0, <2>2, <2>3
<1>8. ASSUME NEW token \in tokens, time < token.keyEnds
      PROVE  exported'[token.kid] = token.seed
  <2>1. /\ Has(file, token.kid)
        /\ file.keys[token.kid].seed = token.seed
        /\ file.keys[token.kid].notAfter = token.keyEnds
    BY <1>1 DEF IndInv, RingsHoldTokens
  <2>2. token.kid \in Kid
    BY Shapes DEF IndInv, Tokens
  <2>3. token.kid \in KeptKeys(file, time)
    BY <1>8, <2>1, <2>2 DEF KeptKeys
  <2> QED
    BY <1>0, <2>1, <2>2, <2>3
<1>9. ExportedKeys'
  BY <1>0, <1>7, <1>8 DEF ExportedKeys
<1>10. TokensAreSignedInTime' /\ (\A r \in Replica : replica[r].at <= time)'
  BY <1>0 DEF IndInv, TokensAreSignedInTime
<1>11. (secret' = None => tokens' = {} /\ \A r \in Replica : replica'[r].ring = None) /\ (secret' # None => file # None)
  BY <1>0 DEF IndInv, GenerateComesFirst
<1> QED
  BY <1>0, <1>4, <1>6, <1>9, <1>10, <1>11, QuietDeployment

\* The Secret gets the ring of the file, whose current key is exported.
LEMMA ProjectStep ==
    ASSUME IndInv, Project
    PROVE  IndInv'
<1>0. /\ UNCHANGED <<time, seeds, file, tool, exported, replica, tokens>>
      /\ \A t \in Tool : tool[t].pc = "idle"
      /\ file # None /\ secret' = file
      /\ exported[file.current] = file.keys[file.current].seed
  BY DEF Project, Finished
<1>1. TypeOK'
  BY <1>0 DEF IndInv, TypeOK, Loads, Has, InWindow, NoKey
<1>2. InPlay' \subseteq InPlay
  BY <1>0 DEF InPlay, Editing
<1>3. RingsAgree' /\ RingsHoldTokens'
  BY <1>0, <1>2, QuietRings DEF IndInv, RingsHoldTokens
<1>4. ExportedKeys'
  BY <1>0 DEF IndInv, ExportedKeys
<1>5. TokensAreSignedInTime' /\ (\A r \in Replica : replica[r].at <= time)'
  BY <1>0 DEF IndInv, TokensAreSignedInTime
<1>6. secret' # None
  BY <1>0
<1> QED
  BY <1>0, <1>1, <1>3, <1>4, <1>5, <1>6, QuietDeployment

\* A replica starts with the ring of the Secret, or stops.
LEMMA StartOrStopStep ==
    ASSUME IndInv, NEW r \in Replica, NEW c \in Loaded, replica' = [replica EXCEPT ![r] = c],
           c.ring \in {secret, None}, c.at <= time, c.ring # None => Loads(c.ring, c.at),
           UNCHANGED <<time, seeds, file, tool, secret, exported, tokens>>
    PROVE  IndInv'
<1>1. replica \in [Replica -> Loaded]
  BY Shapes DEF IndInv
<1>2. /\ replica' \in [Replica -> Loaded] /\ replica'[r] = c
      /\ \A q \in Replica \ {r} : replica'[q] = replica[q]
  BY <1>1
<1>3. TypeOK'
  BY <1>2 DEF IndInv, TypeOK, Loaded, Loads, Has, InWindow, NoKey
<1>4. {replica'[q].ring : q \in Replica} \subseteq {replica[q].ring : q \in Replica} \cup {secret, None}
  BY <1>2
<1>5. InPlay' \subseteq InPlay
  BY <1>4 DEF InPlay, Editing
<1>6. RingsAgree' /\ RingsHoldTokens'
  BY <1>5, QuietRings DEF IndInv, RingsHoldTokens
<1>7. ExportedKeys'
  BY <1>4 DEF IndInv, ExportedKeys
<1>8. TokensAreSignedInTime' /\ (\A q \in Replica : replica[q].at <= time)'
  BY <1>2 DEF IndInv, TokensAreSignedInTime
<1>9. (secret' = None => tokens' = {} /\ \A q \in Replica : replica'[q].ring = None) /\ (secret' # None => file # None)
  BY <1>2 DEF IndInv, GenerateComesFirst
<1>10. \A q \in Replica : replica'[q].ring \in {replica[q].ring, secret, None}
  BY <1>2
<1> QED
  BY <1>3, <1>6, <1>7, <1>8, <1>9, <1>10, QuietDeployment

LEMMA StartStep ==
    ASSUME IndInv, NEW r \in Replica, Start(r)
    PROVE  IndInv'
<1>1. time \in Nat /\ secret \in Ring \cup {None}
  BY Shapes DEF IndInv
<1> DEFINE c == [ring |-> secret, at |-> time]
<1>2. c \in Loaded /\ c.ring = secret /\ c.at = time
  BY <1>1 DEF Loaded
<1>3. /\ replica' = [replica EXCEPT ![r] = c] /\ Loads(secret, time)
      /\ UNCHANGED <<time, seeds, file, tool, secret, exported, tokens>>
  BY DEF Start
<1>4. c.ring \in {secret, None} /\ c.at <= time /\ Loads(c.ring, c.at)
  BY <1>1, <1>2, <1>3
<1> HIDE DEF c
<1> QED
  BY <1>2, <1>3, <1>4, StartOrStopStep

LEMMA StopStep ==
    ASSUME IndInv, NEW r \in Replica, Stop(r)
    PROVE  IndInv'
<1>1. time \in Nat
  BY Shapes DEF IndInv
<1> DEFINE c == [ring |-> None, at |-> 0]
<1>2. c \in Loaded /\ c.ring = None /\ c.at = 0
  BY DEF Loaded
<1>3. /\ replica' = [replica EXCEPT ![r] = c]
      /\ UNCHANGED <<time, seeds, file, tool, secret, exported, tokens>>
  BY DEF Stop
<1>4. c.ring \in {secret, None} /\ c.at <= time /\ c.ring = None
  BY <1>1, <1>2
<1> HIDE DEF c
<1> QED
  BY <1>2, <1>3, <1>4, StartOrStopStep
\* A token is signed with a key that every ring in play has, and that a probe
\* has seen with the threshold to go.
LEMMA SignStep ==
    ASSUME IndInv, NEW r \in Replica, Sign(r)
    PROVE  IndInv'
<1> DEFINE R == replica[r].ring
           key == R.keys[R.current]
           new == [kid |-> R.current, seed |-> key.seed, exp |-> time + TokenTtl,
                   keyEnds |-> key.notAfter]
<1>0. /\ UNCHANGED <<time, seeds, file, tool, secret, exported, replica>>
      /\ R # None /\ Awaited(r) /\ InWindow(key, time)
      /\ tokens' = tokens \cup {new}
  BY DEF Sign, CurrentKey
<1>1. R \in InPlay
  BY <1>0 DEF InPlay
<1>2. /\ R \in Ring /\ R.current \in Kid /\ key.seed \in Nat /\ key.notAfter \in Int
      /\ time \in Nat
  BY <1>1, InPlayTypes, Shapes DEF IndInv
<1>3. /\ time + TokenTtl + Threshold < key.notAfter + TokenTtl + ProbeLag + Work
      /\ time < key.notAfter /\ time <= time + TokenTtl
  <2>1. PICK arrival \in replica[r].at .. time : arrival >= time - Work /\ Routed(r, arrival)
    BY <1>0 DEF Awaited
  <2>2. PICK t \in replica[r].at .. arrival : t >= arrival - ProbeLag /\ IsReadyAt(r, t)
    BY <2>1 DEF Routed
  <2>3. key.notAfter - t > Threshold
    BY <2>2 DEF IsReadyAt, CurrentKey
  <2>4. replica[r].at \in Nat /\ arrival \in Int /\ t \in Int
    BY <2>1, <2>2, Shapes DEF IndInv, Loaded
  <2>5. time < key.notAfter
    BY <1>0 DEF InWindow
  <2> QED
    BY <1>2, <2>1, <2>2, <2>3, <2>4, <2>5, RotationAssumption
<1>4. /\ new.kid = R.current /\ new.seed = key.seed
      /\ new.exp = time + TokenTtl /\ new.keyEnds = key.notAfter
  OBVIOUS
<1>5. new \in Tokens
  BY <1>2, RotationAssumption DEF Tokens
<1>6. Has(R, R.current) /\ \A S \in InPlay : S.keys[R.current] = key
  BY <1>1 DEF IndInv, RingsAgree
<1>7. exported[R.current] = key.seed
  BY <1>0, <1>3 DEF IndInv, ExportedKeys
<1> HIDE DEF new
<1>8. TypeOK'
  BY <1>0, <1>5 DEF IndInv, TypeOK, Tokens, Loads, Has, InWindow, NoKey
<1>9. InPlay' = InPlay
  BY <1>0 DEF InPlay, Editing
<1>10. RingsAgree'
  BY <1>9 DEF IndInv, RingsAgree, Has, NoKey
<1>11. RingsHoldTokens'
  <2>1. ASSUME NEW token \in tokens'
        PROVE  \A S \in InPlay : /\ Has(S, token.kid)
                                  /\ S.keys[token.kid].seed = token.seed
                                  /\ S.keys[token.kid].notAfter = token.keyEnds
    <3>1. CASE token \in tokens
      BY <3>1 DEF IndInv, RingsHoldTokens
    <3>2. CASE token = new
      BY <1>4, <1>6, <3>2 DEF Has
    <3> QED
      BY <1>0, <3>1, <3>2
  <2> QED
    BY <1>9, <2>1 DEF RingsHoldTokens, Has, NoKey
<1>12. ExportedKeys'
  BY <1>0, <1>4, <1>7 DEF IndInv, ExportedKeys
<1>13. TokensAreSignedInTime'
  BY <1>0, <1>3, <1>4 DEF IndInv, TokensAreSignedInTime
<1>14. (\A q \in Replica : replica[q].at <= time)'
  BY <1>0 DEF IndInv
<1>15. secret # None /\ file # None
  BY <1>0 DEF IndInv, GenerateComesFirst
<1>16. \A token \in tokens' \ tokens :
          (\A q \in Replica : replica[q].ring \in {secret, None}) => token.kid = secret.current
  BY <1>0, <1>4
<1>17. \A q \in Replica : replica'[q].ring \in {replica[q].ring, secret, None}
  BY <1>0
<1> QED
  BY <1>0, <1>8, <1>10, <1>11, <1>12, <1>13, <1>14, <1>15, <1>16, <1>17, QuietDeployment

\* A second passes; tokens that expire are forgotten.
LEMMA TickStep ==
    ASSUME IndInv, Tick
    PROVE  IndInv'
<1>0. /\ UNCHANGED <<seeds, file, tool, secret, exported, replica>>
      /\ time' = time + 1
      /\ tokens' = {token \in tokens : token.exp > time + 1}
  BY DEF Tick
<1>1. time \in Nat /\ tokens \subseteq Tokens
  BY Shapes DEF IndInv
<1>2. \A token \in tokens' : time' <= token.exp /\ (time' < token.keyEnds => time < token.keyEnds)
  BY <1>0, <1>1 DEF Tokens
<1>3. InPlay' = InPlay
  BY <1>0 DEF InPlay, Editing
<1>4. RingsAgree' /\ RingsHoldTokens'
  BY <1>0, <1>3, QuietRings DEF IndInv
<1>5. TypeOK'
  BY <1>0, <1>1 DEF IndInv, TypeOK, Loads, Has, InWindow, NoKey
<1>6. \A S \in ({secret} \cup {replica[r].ring : r \in Replica}) \ {None} :
          time + 1 < S.keys[S.current].notAfter => exported[S.current] = S.keys[S.current].seed
  <2> SUFFICES ASSUME NEW S \in ({secret} \cup {replica[r].ring : r \in Replica}) \ {None},
                      time + 1 < S.keys[S.current].notAfter
               PROVE  exported[S.current] = S.keys[S.current].seed
    OBVIOUS
  <2>1. S \in InPlay
    BY DEF InPlay
  <2>2. S.keys[S.current].notAfter \in Int
    BY <2>1, InPlayTypes DEF IndInv
  <2>3. time < S.keys[S.current].notAfter
    BY <1>1, <2>2
  <2> QED
    BY <2>3 DEF IndInv, ExportedKeys
<1>7. ExportedKeys'
  BY <1>0, <1>2, <1>6 DEF IndInv, ExportedKeys
<1>8. TokensAreSignedInTime'
  BY <1>0, <1>2 DEF IndInv, TokensAreSignedInTime
<1>9. (\A r \in Replica : replica[r].at <= time)'
  <2>1. \A r \in Replica : replica[r].at \in Nat
    BY Shapes DEF IndInv, Loaded
  <2> QED
    BY <1>0, <1>1, <2>1 DEF IndInv
<1>10. (secret' = None => tokens' = {} /\ \A r \in Replica : replica'[r].ring = None) /\ (secret' # None => file # None)
  BY <1>0 DEF IndInv, GenerateComesFirst
<1>11. \A r \in Replica : replica'[r].ring \in {replica[r].ring, secret, None}
  BY <1>0
<1>12. tokens' \ tokens = {}
  BY <1>0
<1> QED
  BY <1>0, <1>4, <1>5, <1>7, <1>8, <1>9, <1>10, <1>11, <1>12, QuietDeployment

-----------------------------------------------------------------------------
(* The theorems.                                                            *)

\* Before the first command there is no ring anywhere.
LEMMA RotationInit == Init => IndInv
<1> SUFFICES ASSUME Init PROVE IndInv
  OBVIOUS
<1>1. /\ file = None /\ secret = None /\ tokens = {} /\ time = 0
      /\ \A r \in Replica : replica[r].ring = None /\ replica[r].at = 0
      /\ \A t \in Tool : tool[t] = Idle
  BY DEF Init
<1>2. \A t \in Tool : ~Editing(t) /\ ~Generating(t)
  BY <1>1, IdleType DEF Editing, Generating
<1>3. tool \in [Tool -> Tasks] /\ replica \in [Replica -> Loaded] /\ exported \in [Kid -> Nat]
  BY IdleType DEF Init, Loaded
<1>4. TypeOK
  BY <1>1, <1>3 DEF Init, TypeOK, Tasks, PCs, Loaded
<1>5. InPlay = {}
  BY <1>1, <1>2 DEF InPlay
<1> QED
  BY <1>1, <1>2, <1>4, <1>5 DEF IndInv, RingsAgree, RingsHoldTokens, ExportedKeys, EditsAreAlone,
                               GenerateComesFirst, TokensAreSignedInTime

\* Every step of the tool, the operator and the replicas keeps the invariant.
LEMMA RotationNext == IndInv /\ [Next]_vars => IndInv'
<1> SUFFICES ASSUME IndInv, [Next]_vars PROVE IndInv'
  OBVIOUS
<1>1. ASSUME NEW t \in Tool, ToolStep(t) PROVE IndInv'
  BY <1>1, GenerateStep, ValidateStep, ReadRingStep, WriteTempStep, RecheckTargetStep,
     RenameStep, KilledStep DEF ToolStep
<1>2. CASE ExportJwks \/ Project \/ Tick
  BY <1>2, ExportJwksStep, ProjectStep, TickStep
<1>3. ASSUME NEW r \in Replica, Start(r) \/ Stop(r) \/ Sign(r) PROVE IndInv'
  BY <1>3, StartStep, StopStep, SignStep
<1>4. CASE UNCHANGED vars
  <2>1. InPlay' \subseteq InPlay
    BY <1>4 DEF vars, InPlay, Editing
  <2>2. EditsAreAlone' /\ GenerateComesFirst'
    BY <1>4 DEF vars, IndInv, EditsAreAlone, GenerateComesFirst, Editing, Generating, Has, Idle, NoKey
  <2>3. tool' \in [Tool -> Tasks] /\ seeds' \in Nat
    BY <1>4, Shapes DEF vars, IndInv
  <2> QED
    BY <1>4, <2>1, <2>2, <2>3, QuietTools DEF vars
<1> QED
  BY <1>1, <1>2, <1>3, <1>4 DEF Next

\* In every reachable state the rings in play have each other's current key and
\* the keys of all live tokens.
THEOREM RotationInvariant == Spec => []IndInv
BY RotationInit, RotationNext, PTL DEF Spec

\* A token whose key has not ended verifies.
LEMMA LiveKeysVerify ==
    ASSUME IndInv, NEW token \in tokens, time < token.keyEnds
    PROVE  Verifies(token)
<1>1. ASSUME NEW r \in Replica, replica[r].ring # None
      PROVE  PublishedBy(r, token)
  <2> DEFINE R == replica[r].ring
  <2>1. R \in InPlay
    BY <1>1 DEF InPlay
  <2>2. /\ Has(R, token.kid)
        /\ R.keys[token.kid].seed = token.seed
        /\ R.keys[token.kid].notAfter = token.keyEnds
    BY <2>1 DEF IndInv, RingsHoldTokens
  <2>3. /\ token.kid \in Kid /\ token.keyEnds \in Int /\ time \in Nat
        /\ replica[r].at \in Nat /\ replica[r].at <= time
    BY Shapes DEF IndInv, Tokens, Loaded
  <2>4. replica[r].at < R.keys[token.kid].notAfter
    BY <2>2, <2>3
  <2> QED
    BY <2>2, <2>3, <2>4 DEF PublishedBy, KeptKeys
<1> QED
  BY <1>1 DEF IndInv, ExportedKeys, Verifies

\* Every live token whose key has not ended verifies against what each running
\* replica publishes and against the last exported set, for any number of
\* rotations, roll-backs, restarts and runs of the tool.
THEOREM TokensVerify == Spec => []OutstandingTokensVerify
<1>1. IndInv => OutstandingTokensVerify
  BY LiveKeysVerify DEF OutstandingTokensVerify
<1> QED
  BY <1>1, RotationInvariant, PTL

\* With every threshold that the configuration accepts, a token outlives its
\* key by less than the time in which a replica that is no longer ready signs.
THEOREM ShortOverhang == Spec => []TokensBarelyOutliveTheirKey
<1>1. ASSUME IndInv, NEW token \in tokens
      PROVE  token.exp < token.keyEnds + ProbeLag + Work
  <2>1. token.exp \in Nat /\ token.keyEnds \in Int
    BY <1>1, Shapes DEF IndInv, Tokens
  <2>2. token.exp + Threshold < token.keyEnds + TokenTtl + ProbeLag + Work
    BY <1>1 DEF IndInv, TokensAreSignedInTime
  <2> QED
    BY <2>1, <2>2, RotationAssumption, ThresholdAssumption
<1>2. IndInv => TokensBarelyOutliveTheirKey
  BY <1>1 DEF TokensBarelyOutliveTheirKey
<1> QED
  BY <1>2, RotationInvariant, PTL

\* A threshold that also covers the probes and the exchanges under way, as the
\* default of seven days does, keeps every token verifiable until it expires.
THEOREM AmpleThreshold ==
    ASSUME TokenTtl + ProbeLag + Work <= Threshold
    PROVE  Spec => [](\A token \in tokens : Verifies(token))
<1>1. ASSUME IndInv, NEW token \in tokens
      PROVE  Verifies(token)
  <2>1. token.exp \in Nat /\ token.keyEnds \in Int /\ time \in Nat
    BY <1>1, Shapes DEF IndInv, Tokens
  <2>2. time <= token.exp /\ token.exp + Threshold < token.keyEnds + TokenTtl + ProbeLag + Work
    BY <1>1 DEF IndInv, TokensAreSignedInTime
  <2>3. time < token.keyEnds
    BY <2>1, <2>2, RotationAssumption
  <2> QED
    BY <1>1, <2>3, LiveKeysVerify
<1>2. IndInv => \A token \in tokens : Verifies(token)
  BY <1>1
<1> QED
  BY <1>2, RotationInvariant, PTL

\* Every reachable state is type-correct, and a running replica has loaded a
\* ring whose current key was valid at that time.
THEOREM RotationTypes == Spec => []TypeOK
<1>1. IndInv => TypeOK
  BY DEF IndInv
<1> QED
  BY <1>1, RotationInvariant, PTL
=============================================================================

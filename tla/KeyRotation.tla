---------------------------- MODULE KeyRotation ----------------------------
(***************************************************************************)
(* Signing key rings: src/bin/keyring-tool.rs edits the ring file offline, *)
(* an operator projects the file into a Kubernetes Secret, and every       *)
(* replica loads the Secret when it starts (src/keys.rs), signs with the   *)
(* current key and publishes the public keys it loaded.                    *)
(*                                                                         *)
(* ES256 and RSA rings go through the same code shape; the model has one   *)
(* ring.  Key material is a number, its seed: two keys may have one key ID *)
(* but never one seed.  A tool process takes one step per file access.     *)
(* The operator follows section 6 of docs/installation.md.                 *)
(***************************************************************************)
EXTENDS Integers, FiniteSets

CONSTANTS
    Kid,         \* key IDs
    Replica,     \* service processes
    Tool,        \* keyring-tool processes that can run at the same time
    Validity,    \* validity periods passed to generate and add
    Backdate,    \* how far before its making a key becomes valid
    TokenTtl,    \* token_ttl
    Threshold,   \* key_expiry_readiness_threshold
    ProbeLag,    \* how long a replica that stops being ready gets requests
    Work,        \* the longest from the arrival of a request to its signature
    MaxTime,     \* bound: last second explored
    MaxSeeds,    \* bound: keys ever made
    None         \* no ring file, no ring loaded, no key ID

ASSUME RotationAssumption ==
    /\ Validity \subseteq Nat \ {0}
    /\ {Backdate, TokenTtl, ProbeLag, Work, MaxTime, MaxSeeds} \subseteq Nat
    /\ Threshold \in Nat

\* Config::from_env accepts every threshold from the lifetime of a token on.
ASSUME ThresholdAssumption == TokenTtl <= Threshold

VARIABLES
    time,      \* seconds
    seeds,     \* keys made so far
    file,      \* the operator's ring file
    tool,      \* per tool process: where it is and the document it works on
    secret,    \* the ring in the Kubernetes Secret
    exported,  \* public keys handed to static verifiers, per key ID
    replica,   \* per replica: the ring it loaded, and when
    tokens     \* unexpired tokens: the key that signed them and their exp

vars == <<time, seeds, file, tool, secret, exported, replica, tokens>>

-----------------------------------------------------------------------------
(* Rings.                                                                   *)

NoKey == [seed |-> 0, notBefore |-> 0, notAfter |-> 0]

KeySpec == [seed : Nat, notBefore : Int, notAfter : Int]

Ring == [current : Kid, keys : [Kid -> KeySpec]]

ASSUME NoneAssumption == None \notin Ring

Has(ring, k) == ring.keys[k] # NoKey

InWindow(key, now) == key.notBefore <= now /\ now < key.notAfter

\* KeyRing::load: the current key is there and in its validity window.
Loads(ring, now) ==
    /\ ring # None
    /\ Has(ring, ring.current)
    /\ InWindow(ring.keys[ring.current], now)

\* Faulty variant: only the current key is kept.
CurrentKeyOnly(ring, at) == {ring.current}

\* The keys of a ring loaded at that time, hence those of its jwks().
KeptKeys(ring, at) == {k \in Kid : Has(ring, k) /\ at < ring.keys[k].notAfter}

\* new_key(algorithm, kid, validity_days).
NewKey(validity) ==
    [seed |-> seeds + 1, notBefore |-> time - Backdate, notAfter |-> time + validity]

-----------------------------------------------------------------------------
(* keyring-tool.                                                            *)

Action == {"generate", "add", "activate", "retire"}

Idle == [pc |-> "idle", action |-> "generate", kid |-> None, document |-> None]

End(t) == tool' = [tool EXCEPT ![t] = Idle]

\* The operator uses a ring file after the commands that write it ended.
Finished == \A t \in Tool : tool[t].pc = "idle"

\* The operator's side of it: "wait for every Pod to restart and JWKS to
\* publish both `kid's" before the next command.
Deployed == Finished /\ file = secret /\ \A r \in Replica : replica[r].ring = secret

\* "Retire the old key only after the 120-second token lifetime ... elapsed."
\* Nothing in section 6 keeps two operators from running generate at once.
Procedure(action, k) ==
    /\ Deployed
    /\ action = "retire" => \A token \in tokens : token.kid # k

\* generate: the target must not exist; a new ring is made of one new key.
Generate(t, k, validity) ==
    /\ tool[t].pc = "idle"
    /\ file = None
    /\ seeds < MaxSeeds
    /\ seeds' = seeds + 1
    /\ tool' = [tool EXCEPT ![t] =
          [pc |-> "write", action |-> "generate", kid |-> k,
           document |-> [current |-> k,
                         keys |-> [j \in Kid |-> IF j = k THEN NewKey(validity) ELSE NoKey]]]]
    /\ UNCHANGED <<time, file, secret, exported, replica, tokens>>

\* add, activate, retire: validate_private loads the file.
Validate(t, action, k) ==
    /\ tool[t].pc = "idle"
    /\ Procedure(action, k)
    /\ Loads(file, time)
    /\ tool' = [tool EXCEPT ![t] =
          [pc |-> "read", action |-> action, kid |-> k, document |-> None]]
    /\ UNCHANGED <<time, seeds, file, secret, exported, replica, tokens>>

\* The document a command makes of the ring it reads.
Edited(action, k, validity) ==
    IF action = "add" THEN [file EXCEPT !.keys[k] = NewKey(validity)]
    ELSE IF action = "activate" THEN [file EXCEPT !.current = k]
    ELSE [file EXCEPT !.keys[k] = NoKey]

Permitted(action, k) ==
    /\ action = "add" => ~Has(file, k)
    /\ action = "activate" => Has(file, k)
    /\ action = "retire" => Has(file, k) /\ file.current # k

\* fs::read, the checks of the command and its edit.
ReadRing(t) ==
    /\ tool[t].pc = "read"
    /\ LET action == tool[t].action
           k == tool[t].kid
       IN  \/ /\ Permitted(action, k)
              /\ action = "add" => seeds < MaxSeeds
              /\ seeds' = IF action = "add" THEN seeds + 1 ELSE seeds
              /\ \E validity \in Validity :
                    tool' = [tool EXCEPT ![t].pc = "write",
                                         ![t].document = Edited(action, k, validity)]
           \/ ~Permitted(action, k) /\ End(t) /\ UNCHANGED seeds
    /\ UNCHANGED <<time, file, secret, exported, replica, tokens>>

\* write_private: a temporary file of its own is written, synced and loaded.
WriteTemp(t) ==
    /\ tool[t].pc = "write"
    /\ \/ /\ tool[t].action = "generate" /\ file # None
          /\ End(t)                                  \* refusing overwrite
       \/ /\ tool[t].action = "generate" => file = None
          /\ Loads(tool[t].document, time)
          /\ tool' = [tool EXCEPT ![t].pc = IF tool[t].action = "generate"
                                            THEN "recheck" ELSE "rename"]
       \/ ~Loads(tool[t].document, time) /\ End(t)
    /\ UNCHANGED <<time, seeds, file, secret, exported, replica, tokens>>

\* The last look at the target of generate.
RecheckTarget(t) ==
    /\ tool[t].pc = "recheck"
    /\ \/ file # None /\ End(t)                    \* target appeared
       \/ file = None /\ tool' = [tool EXCEPT ![t].pc = "rename"]
    /\ UNCHANGED <<time, seeds, file, secret, exported, replica, tokens>>

\* fs::rename replaces whatever is there.
Rename(t) ==
    /\ tool[t].pc = "rename"
    /\ file' = tool[t].document
    /\ End(t)
    /\ UNCHANGED <<time, seeds, secret, exported, replica, tokens>>

\* The process dies, leaving at most a temporary file behind.
Killed(t) ==
    /\ tool[t].pc # "idle"
    /\ End(t)
    /\ UNCHANGED <<time, seeds, file, secret, exported, replica, tokens>>

\* export-jwks: the public keys of the ring, for static verifiers.
ExportJwks ==
    /\ Finished
    /\ Loads(file, time)
    /\ exported' = [k \in Kid |-> IF k \in KeptKeys(file, time) THEN file.keys[k].seed ELSE 0]
    /\ exported' # exported
    /\ UNCHANGED <<time, seeds, file, tool, secret, replica, tokens>>

-----------------------------------------------------------------------------
(* Deployment and service.                                                  *)

\* The file is projected into the Secret; the operator has given the key it
\* activates to every static verifier before.
Project ==
    /\ Finished
    /\ file # secret /\ file # None
    /\ exported[file.current] = file.keys[file.current].seed
    /\ secret' = file
    /\ UNCHANGED <<time, seeds, file, tool, exported, replica, tokens>>

\* A replica starts: load_with_readiness_threshold, or it does not come up.
Start(r) ==
    /\ replica[r].ring = None
    /\ Loads(secret, time)
    /\ replica' = [replica EXCEPT ![r] = [ring |-> secret, at |-> time]]
    /\ UNCHANGED <<time, seeds, file, tool, secret, exported, tokens>>

\* It crashes, or is replaced in a roll-out.
Stop(r) ==
    /\ replica[r].ring # None
    /\ replica' = [replica EXCEPT ![r] = [ring |-> None, at |-> 0]]
    /\ UNCHANGED <<time, seeds, file, tool, secret, exported, tokens>>

CurrentKey(r) == replica[r].ring.keys[replica[r].ring.current]

\* Faulty variant: a key is ready for as long as it is valid.
IsReadyWhileValid(r, now) == InWindow(CurrentKey(r), now)

\* is_ready_at(now).
IsReadyAt(r, now) ==
    InWindow(CurrentKey(r), now) /\ CurrentKey(r).notAfter - now > Threshold

\* Requests reach a replica whose probe has not failed for long enough.
Routed(r, now) == \E t \in replica[r].at .. now : t >= now - ProbeLag /\ IsReadyAt(r, t)

\* An exchange that arrived on the replica has come through the verifier and
\* the ledger, which may have taken it any time up to Work.
Awaited(r) == \E t \in replica[r].at .. time : t >= time - Work /\ Routed(r, t)

\* It takes the time for exp now, and signs: sign_at checks the window, and
\* nothing asks again whether the replica is ready.
Sign(r) ==
    /\ replica[r].ring # None
    /\ Awaited(r)
    /\ InWindow(CurrentKey(r), time)
    /\ tokens' = tokens \cup {[kid |-> replica[r].ring.current, seed |-> CurrentKey(r).seed,
                               exp |-> time + TokenTtl, keyEnds |-> CurrentKey(r).notAfter]}
    /\ UNCHANGED <<time, seeds, file, tool, secret, exported, replica>>

Tick ==
    /\ time < MaxTime
    /\ time' = time + 1
    /\ tokens' = {token \in tokens : token.exp > time + 1}
    /\ UNCHANGED <<seeds, file, tool, secret, exported, replica>>

Init ==
    /\ time = 0
    /\ seeds = 0
    /\ file = None
    /\ tool = [t \in Tool |-> Idle]
    /\ secret = None
    /\ exported = [k \in Kid |-> 0]
    /\ replica = [r \in Replica |-> [ring |-> None, at |-> 0]]
    /\ tokens = {}

ToolStep(t) ==
    \/ \E k \in Kid, validity \in Validity : Generate(t, k, validity)
    \/ \E action \in Action \ {"generate"}, k \in Kid : Validate(t, action, k)
    \/ ReadRing(t) \/ WriteTemp(t) \/ RecheckTarget(t) \/ Rename(t) \/ Killed(t)

Next ==
    \/ \E t \in Tool : ToolStep(t)
    \/ ExportJwks \/ Project
    \/ \E r \in Replica : Start(r) \/ Stop(r) \/ Sign(r)
    \/ Tick

Spec == Init /\ [][Next]_vars

-----------------------------------------------------------------------------
(* Properties.                                                              *)

\* The state has its types; a replica that is up loaded a valid current key.
TypeOK ==
    /\ time \in Nat /\ seeds \in Nat
    /\ {file, secret} \subseteq Ring \cup {None}
    /\ tool \in [Tool -> [pc : {"idle", "read", "write", "recheck", "rename"},
                          action : Action, kid : Kid \cup {None}, document : Ring \cup {None}]]
    /\ exported \in [Kid -> Nat]
    /\ replica \in [Replica -> [ring : Ring \cup {None}, at : Nat]]
    /\ tokens \subseteq [kid : Kid, seed : Nat, exp : Nat, keyEnds : Int]
    /\ \A r \in Replica : replica[r].ring # None => Loads(replica[r].ring, replica[r].at)

\* The key that signed the token is among the published ones.
PublishedBy(r, token) ==
    /\ token.kid \in KeptKeys(replica[r].ring, replica[r].at)
    /\ replica[r].ring.keys[token.kid].seed = token.seed

\* Whoever looks its key up finds it.
Verifies(token) ==
    /\ \A r \in Replica : replica[r].ring # None => PublishedBy(r, token)
    /\ exported[token.kid] = token.seed

(***************************************************************************)
(* docs/installation.md: "the overlap keeps both old and new tokens        *)
(* verifiable".  Throughout rotations, roll-backs, crashes of the tool,    *)
(* restarts of replicas and two runs of generate that overwrite each       *)
(* other's ring, every unexpired token whose key has not ended verifies    *)
(* against the keys that any running replica publishes and against the     *)
(* last exported set.                                                      *)
(***************************************************************************)
OutstandingTokensVerify ==
    \A token \in tokens : time < token.keyEnds => Verifies(token)

(***************************************************************************)
(* sign() looks at the present moment only, load() forgets keys that have  *)
(* ended, and a threshold may be no longer than a token lives.  Even then  *)
(* a token outlives its key, and so may be unverifiable, for less than the *)
(* time in which a replica that is no longer ready goes on signing: until  *)
(* its probe has failed and the exchanges it has accepted are done.        *)
(***************************************************************************)
TokensBarelyOutliveTheirKey ==
    \A token \in tokens : token.exp < token.keyEnds + ProbeLag + Work
=============================================================================

--------------------------------- MODULE Deploy ---------------------------------
(***************************************************************************)
(* The deployer's scripts: npm run setup and deploy (src/deploy.ts),       *)
(* network (src/network.ts) and check-balance, with the files they keep    *)
(* from one run to the next. Scripts run one at a time on a checkout; a    *)
(* run can be interrupted, and can fail, between any two of its awaits.    *)
(*                                                                         *)
(* stateFile is .midnight-state.json: the active network, the wallet made  *)
(* for each public network and the last deployment on each. syncCache is   *)
(* .midnight-wallet-state: per network, the wallet the saved sync state is *)
(* of. What is on the chain is stage (how far the NIGHT of a wallet has    *)
(* come: none, funded, its registration for DUST submitted, registered,    *)
(* generating) and contracts, the deployers in the order of deployment, a  *)
(* contract's address being its place.                                     *)
(***************************************************************************)
EXTENDS Integers, Sequences

CONSTANTS
    Networks,      \* the networks the scripts know
    Undeployed,    \* the local devnet among them, with its genesis wallet
    RegisterTries, \* DEFAULT_DUST_RETRY_ATTEMPTS
    DeployTries,   \* MAX_RETRIES
    MaxScripts     \* bound: runs of a script in a behaviour

ASSUME DeployAssumption ==
    /\ Undeployed \in Networks
    /\ RegisterTries \in Nat /\ DeployTries \in Nat /\ MaxScripts \in Nat

VARIABLES stateFile, syncCache, stage, contracts, made, script, scripts

deployVars == <<stateFile, syncCache, stage, contracts, made, script, scripts>>

-------------------------------------------------------------------------------
(* Wallets, files and a run *)

\* The genesis wallet, a wallet of the environment (MIDNIGHT_WALLET_SEED or
\* _MNEMONIC), and the wallets the scripts generate, numbered; 0 is no wallet.
Genesis == -1
Given == -2
Made == 1 .. MaxScripts
Wallets == {Genesis, Given} \cup Made

NoState == [active |-> Undeployed,
            wallets |-> [n \in Networks |-> 0],
            deployments |-> [n \in Networks |-> <<0, 0>>],
            there |-> FALSE]

Off == [at |-> "off", net |-> Undeployed, wallet |-> 0, view |-> 0, tries |-> 0,
        landed |-> 0, goal |-> "deploy"]

\* stage of the NIGHT coins of the wallet the facade of this run reports on
Coins == stage[script.net][script.view]

-------------------------------------------------------------------------------
(* The state file *)

\* loadState and saveState: read, change and rename over, in one go.
Saved(file) == stateFile' = [file EXCEPT !.there = TRUE]

\* No file yet: the new one starts with the network of the run.
Existing(net) ==
    IF stateFile.there THEN stateFile ELSE [NoState EXCEPT !.active = net]

\* resolveNetwork: the flag, else the active network of the file, else the devnet
Resolved(flag) ==
    IF flag # "none" THEN flag
    ELSE IF stateFile.there THEN stateFile.active ELSE Undeployed

\* setActiveNetwork: npm run network <name>, and the first step of a setup
SetActiveNetwork(net) ==
    /\ script.at = "off"
    /\ ~(stateFile.there /\ stateFile.active = net)
    /\ Saved([Existing(net) EXCEPT !.active = net])
    /\ UNCHANGED <<syncCache, stage, contracts, made, script, scripts>>

\* getOrCreateWallet. A generated wallet is in the file before it is used.
WalletOf(net, env) ==
    IF net = Undeployed THEN Genesis
    ELSE IF env THEN Given
    ELSE IF stateFile.wallets[net] # 0 THEN stateFile.wallets[net] ELSE made + 1

KeepWallet(net, wallet) ==
    IF wallet \in Made /\ wallet > made
    THEN /\ Saved([Existing(net) EXCEPT !.active = net, !.wallets[net] = wallet])
         /\ made' = wallet
    ELSE UNCHANGED <<stateFile, made>>

\* Mutant: recordDeployment starts a file of its own, as if there were none.
DeploymentRecordedAfresh(net, contract, deployer) ==
    Saved([NoState EXCEPT !.active = net, !.deployments[net] = <<contract, deployer>>])

\* recordDeployment
DeploymentRecorded(net, contract, deployer) ==
    Saved([Existing(net) EXCEPT !.deployments[net] = <<contract, deployer>>])

-------------------------------------------------------------------------------
(* A run *)

\* The saved sync state of a network; one that is corrupt counts as none.
CacheOf(net, readable) == IF readable THEN syncCache[net] ELSE 0

\* createWallet restores the saved state, whichever wallet it is of, or starts from
\* the seed when there is none or the SDK refuses it.
Restored(cached, wallet) == IF cached # 0 THEN cached ELSE wallet

\* The start of deploy.ts or check-balance.ts: the network and the wallet are
\* resolved as the module loads.
StartScript(goal, flag, env, restores) ==
    LET net == Resolved(flag)
        wallet == WalletOf(net, env)
    IN /\ script.at = "off"
       /\ scripts < MaxScripts
       /\ scripts' = scripts + 1
       /\ KeepWallet(net, wallet)
       /\ script' = [Off EXCEPT !.at = "sync", !.net = net, !.wallet = wallet, !.goal = goal,
                                !.view = Restored(CacheOf(net, restores), wallet)]
       /\ UNCHANGED <<syncCache, stage, contracts>>

Goes(at) == script' = [script EXCEPT !.at = at, !.tries = 0]
Ends == script' = Off
OnlyScript == UNCHANGED <<stateFile, syncCache, stage, contracts, made, scripts>>

\* waitForSyncedStateWithProgress has no time-out of its own: deploy.ts waits as
\* long as it takes, check-balance.ts gives up and saves what there is.
Synced ==
    /\ script.at = "sync"
    /\ Goes("save")
    /\ OnlyScript

SyncGivesUp ==
    /\ script.at = "sync" /\ script.goal = "check"
    /\ Goes("save")
    /\ OnlyScript

\* persistWalletState: a child that cannot be serialized leaves its old file.
Persisted(ok) ==
    syncCache' = IF ok THEN [syncCache EXCEPT ![script.net] = script.view] ELSE syncCache

\* After the sync: the devnet's wallet must have been minted to, an unfunded
\* wallet of a public network waits for the faucet, a funded one goes on.
PersistSync(ok) ==
    /\ script.at = "save" /\ script.goal = "deploy"
    /\ Persisted(ok)
    /\ CASE Coins # "none" -> Goes("dustState")
         [] Coins = "none" /\ script.net = Undeployed -> Ends
         [] OTHER -> Goes("faucet")
    /\ UNCHANGED <<stateFile, stage, contracts, made, scripts>>

\* The balances are shown; a sync that was given up ends in the same save.
PersistCheck(ok) ==
    /\ script.at = "save" /\ script.goal = "check"
    /\ Persisted(ok)
    /\ Ends
    /\ UNCHANGED <<stateFile, stage, contracts, made, scripts>>

\* The faucet poll: a read of the latest state that comes late counts as zero.
FaucetPolls ==
    /\ script.at = "faucet" /\ Coins # "none"
    /\ Goes("dustState")
    /\ OnlyScript

FaucetGivesUp ==
    /\ script.at = "faucet"
    /\ Ends
    /\ OnlyScript

\* The state before the registration: coins that are not registered are
\* registered first; else DUST is there or waited for.
ReadDustState(answers) ==
    /\ script.at = "dustState"
    /\ IF ~answers THEN Ends
       ELSE Goes(CASE Coins \in {"funded", "pending"} -> "register"
                   [] Coins = "registered" -> "dust"
                   [] OTHER -> "proof")
    /\ OnlyScript

\* isTransientDustError sorts the failures by their text; a time-out is not transient.
Results == {"ok", "transient", "failed"}

\* retryWithBackoff
TriedAgain(result) == result = "transient" /\ script.tries + 1 < RegisterTries

Submitted == stage' = [stage EXCEPT ![script.net][script.view] = "pending"]

\* One attempt of retryWithBackoff: the coins are read again, or taken from the
\* snapshot when the read fails; nothing left to register is a success. The
\* transaction may have been submitted whatever the answer says, unless the
\* facade reports on another wallet than the keys sign for. Only a transient
\* failure is tried again; a time-out and everything else ends the run.
Attempt(fresh, submits, result) ==
    /\ script.at = "register"
    /\ submits => Coins = "funded" /\ script.view = script.wallet
    /\ (result = "ok") => submits \/ (fresh /\ Coins # "funded") \/ Coins = "pending"
    /\ IF submits THEN Submitted ELSE UNCHANGED stage
    /\ CASE result = "ok" -> Goes("dust")
         [] TriedAgain(result) -> script' = [script EXCEPT !.tries = @ + 1]
         [] OTHER -> Ends
    /\ UNCHANGED <<stateFile, syncCache, contracts, made, scripts>>

\* The projection of DUST is recomputed every second, within the time-out.
DustAppears ==
    /\ script.at = "dust" /\ Coins = "generating"
    /\ Goes("proof")
    /\ OnlyScript

DustGivesUp ==
    /\ script.at = "dust"
    /\ Ends
    /\ OnlyScript

\* waitForProofServer: sixty attempts.
ProofServer(ready) ==
    /\ script.at = "proof"
    /\ IF ready THEN Goes("providers") ELSE Ends
    /\ OnlyScript

\* createProviders ends the run when the password for the private state is short,
\* or is missing on a public network.
Providers(strong) ==
    /\ script.at = "providers"
    /\ IF strong THEN Goes("deploy") ELSE Ends
    /\ OnlyScript

\* deployContract: the transaction lands, and the answer comes or does not.
DeployLands ==
    /\ script.at = "deploy" /\ script.landed = 0
    /\ Coins = "generating" /\ script.view = script.wallet
    /\ contracts' = [contracts EXCEPT ![script.net] = Append(@, script.wallet)]
    /\ script' = [script EXCEPT !.landed = Len(contracts'[script.net])]
    /\ UNCHANGED <<stateFile, syncCache, stage, made, scripts>>

ContractDeployed ==
    /\ script.at = "deploy" /\ script.landed # 0
    /\ DeploymentRecorded(script.net, script.landed, script.wallet)
    /\ Goes("saveLast")
    /\ UNCHANGED <<syncCache, stage, contracts, made, scripts>>

\* Short of DUST: synced again, however long that takes, before the next try.
DustShort ==
    /\ script.at = "deploy" /\ script.landed = 0
    /\ script' = [script EXCEPT !.at = "resync"]
    /\ OnlyScript

Resynced ==
    /\ script.at = "resync"
    /\ IF script.tries + 1 < DeployTries
       THEN script' = [script EXCEPT !.at = "deploy", !.tries = @ + 1] ELSE Ends
    /\ OnlyScript

PersistLast(ok) ==
    /\ script.at = "saveLast"
    /\ Persisted(ok)
    /\ Ends
    /\ UNCHANGED <<stateFile, stage, contracts, made, scripts>>

\* Ctrl-C, a crash, or an error nothing catches: a restore that breaks, a sync
\* that is rejected, a deployment that fails for another reason than DUST.
Dies ==
    /\ script.at # "off"
    /\ Ends
    /\ OnlyScript

-------------------------------------------------------------------------------
(* The chain *)

\* The faucet, a registration that is accepted or dropped, DUST that accrues.
Moves == {<<"none", "funded">>, <<"pending", "registered">>, <<"pending", "funded">>,
          <<"registered", "generating">>}

\* Nobody funds an address before a script has shown it. What happens between two
\* scripts is taken to happen as the next one starts.
ChainMoves(net, wallet) ==
    /\ script.at # "off" /\ script.net = net
    /\ wallet = Given \/ stateFile.wallets[net] = wallet \/ stage[net][wallet] # "none"
    /\ \E m \in Moves :
         /\ stage[net][wallet] = m[1]
         /\ stage' = [stage EXCEPT ![net][wallet] = m[2]]
    /\ UNCHANGED <<stateFile, syncCache, contracts, made, script, scripts>>

-------------------------------------------------------------------------------

DeployInit ==
    /\ stateFile = NoState
    /\ syncCache = [n \in Networks |-> 0]
    \* The preset of the devnet has minted to the genesis wallet, or has not.
    /\ \E minted \in {"none", "generating"} :
         stage = [n \in Networks |-> [w \in Wallets |->
                     IF n = Undeployed /\ w = Genesis THEN minted ELSE "none"]]
    /\ contracts = [n \in Networks |-> <<>>]
    /\ made = 0 /\ script = Off /\ scripts = 0

RegisterAttempts ==
    \E fresh, submits \in BOOLEAN, result \in Results :
        Attempt(fresh, submits, result)

DeployNext ==
    \/ \E net \in Networks : SetActiveNetwork(net)
    \/ \E goal \in {"deploy", "check"}, flag \in Networks \cup {"none"}, env, restores \in BOOLEAN :
         StartScript(goal, flag, env, restores)
    \/ Synced \/ SyncGivesUp
    \/ \E ok \in BOOLEAN : PersistSync(ok) \/ PersistCheck(ok) \/ PersistLast(ok) \/ ReadDustState(ok)
    \/ FaucetPolls \/ FaucetGivesUp
    \/ RegisterAttempts
    \/ DustAppears \/ DustGivesUp
    \/ \E ok \in BOOLEAN : ProofServer(ok) \/ Providers(ok)
    \/ DeployLands \/ ContractDeployed \/ DustShort \/ Resynced
    \/ Dies
    \/ \E net \in Networks, wallet \in Wallets : ChainMoves(net, wallet)

-------------------------------------------------------------------------------

DeployTypeOK ==
    /\ stateFile \in [active : Networks, wallets : [Networks -> {0} \cup Made],
                      deployments : [Networks -> (0 .. MaxScripts) \X (Wallets \cup {0})],
                      there : BOOLEAN]
    /\ syncCache \in [Networks -> Wallets \cup {0}]
    /\ made \in 0 .. MaxScripts /\ scripts \in 0 .. MaxScripts
    /\ script.tries \in 0 .. RegisterTries + DeployTries
    /\ (script.at = "off") = (script.wallet = 0)

\* Whatever run is interrupted, fails or is for another network: the seed of every
\* wallet the scripts have generated is still in the state file, so that what the
\* faucet sent there can be spent (getOrCreateWallet, recordDeployment and
\* setActiveNetwork each rewrite the whole file, network.ts 295-316, 350-383).
SeedsAreKept == \A w \in 1 .. made : \E n \in Networks : stateFile.wallets[n] = w

\* A recorded deployment is a contract that is on that network, with the wallet
\* that deployed it (deploy.ts 636-641).
RecordedIsDeployed ==
    \A n \in Networks :
        LET record == stateFile.deployments[n]
        IN record # <<0, 0>> =>
             /\ record[1] \in DOMAIN contracts[n]
             /\ contracts[n][record[1]] = record[2]

\* The waits the script bounds: for the faucet, for DUST (the reads, the attempts
\* at a registration and the projection), and for the proof server.
DeployWaits ==
    <<script.at = "faucet", script.at \in {"dustState", "register", "dust"}, script.at = "proof">>
===============================================================================

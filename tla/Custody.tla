------------------------------ MODULE Custody ------------------------------
(***************************************************************************)
(* Who holds which key: the three hosts of the split deployment with the   *)
(* public manifest and the private key files each was given, the preflight *)
(* of bin/anchoring-preflight.rs with separation.rs, the start of the      *)
(* worker and of the batcher, and the signer of crypto/signer.rs in front  *)
(* of an external key provider.                                            *)
(*                                                                         *)
(* The deployment begins as the runbook describes it.  Then files are      *)
(* copied, lost, garbled and opened to others, manifests edited, variables *)
(* left set, the key behind the provider's alias exchanged, and processes  *)
(* started, after a preflight (as scripts/devnet-anchoring-cycle.sh does)  *)
(* or without one (as systemd does).  The preflight and the process are    *)
(* two programs: each opens the files for itself, and what lies in them    *)
(* may change in between.  A process keeps what it read.                   *)
(*                                                                         *)
(* The seed generated for a role is named after the role.  A public key    *)
(* determines its seed; a signature is what was signed and by which seed.  *)
(***************************************************************************)
EXTENDS Integers, FiniteSets

CONSTANTS
  Spare,        \* seeds that were generated for no role
  Message,      \* transaction messages
  Unset,        \* an environment variable that is not set
  Missing,      \* a file that is not there
  Garbled,      \* content that does not parse
  NoManifest,   \* what a process without a preflight was checked against
  MaxChanges,   \* changes to the configuration in one behaviour
  MaxProcesses, \* processes started in one behaviour
  MaxSigned     \* signatures admitted in one behaviour

ASSUME CustodyAssumption ==
  /\ MaxChanges \in Nat /\ MaxProcesses \in Nat /\ MaxSigned \in Nat
  /\ Unset # Missing

VARIABLES
  hsm,        \* the checkpoint authority is behind a provider, not in a file
  manifest,   \* the public identities configured on each host
  private,    \* the private key files configured on each host
  linked,     \* how the batcher's signing key path names the authority's file
  provider,   \* the seed behind the provider's key reference, or Missing
  challenge,  \* the file of the possession challenge
  proof,      \* the file with the provider's signature over it
  cleared,    \* on each host, what the last preflight saw and passed
  ran,        \* the processes that were started, and what they read
  signed,     \* the signatures the signer admitted to a transaction
  changes     \* changes so far

environment == <<hsm, manifest, private, linked, provider, challenge, proof>>
custodyVars == <<environment, cleared, ran, signed, changes>>

----------------------------------------------------------------------------
(* Keys. *)

\* enum KeyRole.  The master key has no public identity.
PublicRole == {"ProgramAddress", "DeployAuthority", "WorkerPayer",
               "CheckpointAuthority", "BatcherSigning"}
KeyRole == PublicRole \cup {"MasterKey"}

Seed == KeyRole \cup Spare

PublicKey(seed) == <<"public key", seed>>
Identity == {PublicKey(seed) : seed \in Seed}

\* certimining_checkpoint::ID, the address compiled into the program.
CompiledId == PublicKey("ProgramAddress")

Host == {"deployment", "batcher", "worker"}

\* The private variables the preflight allows on a host.
Allowed(host) ==
  CASE host = "deployment" -> {"ProgramAddress", "DeployAuthority"}
    [] host = "batcher"    -> {"BatcherSigning", "MasterKey"}
    [] host = "worker"     -> {"WorkerPayer"} \cup (IF hsm THEN {} ELSE {"CheckpointAuthority"})

KeyFile == [seed : Seed \cup {Garbled}, owner_only : BOOLEAN]
File == KeyFile \cup {Unset, Missing}

\* refuse_a_readable_key, then read_keypair, read_secret or signer.
Readable(file) == file \notin {Unset, Missing}
KeyVerdict(file) ==
  IF ~Readable(file) THEN "NoKey"
  ELSE IF ~file.owner_only THEN "ReadableKey"
  ELSE IF file.seed = Garbled THEN "GarbledKey"
  ELSE "Ok"

\* A file as the runbook says to keep it.
Kept(seed) == [seed |-> seed, owner_only |-> TRUE]

CustodyInit ==
  /\ hsm \in BOOLEAN
  /\ manifest = [h \in Host |-> [r \in PublicRole |-> PublicKey(r)]]
  /\ private = [h \in Host |-> [r \in KeyRole |-> IF r \in Allowed(h) THEN Kept(r) ELSE Unset]]
  /\ linked = FALSE
  /\ provider = "CheckpointAuthority"
  /\ challenge = "fresh"
  /\ proof = [by |-> "CheckpointAuthority", over |-> "fresh"]
  /\ cleared = [h \in Host |-> NoManifest]
  /\ ran = {}
  /\ signed = {}
  /\ changes = 0

----------------------------------------------------------------------------
(* The preflight. *)

\* Mutant: only the two keys that can replace the program are compared.
DeployKeysCollide(keys) ==
  \E r, q \in DOMAIN keys :
     r # q /\ keys[r] = keys[q] /\ {"ProgramAddress", "DeployAuthority"} \cap {r, q} # {}

\* verify_role_separation, for the public or for the secret half.
Collides(keys) == \E r, q \in DOMAIN keys : r # q /\ keys[r] = keys[q]

\* verify_with_key: verify_strict over exactly these bytes.
VerifyWithKey(identity, message, signature) ==
  /\ signature.over = message
  /\ PublicKey(signature.by) = identity

\* verify_hardware_possession: the challenge's size, then the signature file,
\* then verify_consensus_signature.
PossessionVerdict(authority) ==
  IF challenge \in {Missing, "empty", "oversized"} THEN "BadChallenge"
  ELSE IF proof \in {Missing, Garbled} THEN "BadSignatureFile"
  ELSE IF ~VerifyWithKey(authority, challenge, proof) THEN "InvalidSignature"
  ELSE "Ok"

\* The seeds the preflight opened.
Opened(host) == [r \in Allowed(host) |-> private[host][r].seed]

\* run(): the public identities first, then the variables that belong to
\* another role, then the keys of this one.
PreflightVerdict(host) ==
  LET id == manifest[host]
  IN  IF \E r \in PublicRole : id[r] \notin Identity THEN "NoIdentity"
      ELSE IF id["ProgramAddress"] # CompiledId THEN "ProgramMismatch"
      ELSE IF Collides(id) THEN "PublicCollision"
      ELSE IF \E r \in KeyRole \ Allowed(host) : private[host][r] # Unset THEN "ForeignKey"
      ELSE IF \E r \in Allowed(host) : KeyVerdict(private[host][r]) # "Ok" THEN "BadKey"
      ELSE IF \E r \in Allowed(host) \cap PublicRole : PublicKey(private[host][r].seed) # id[r]
        THEN "KeyMismatch"
      ELSE IF host = "worker" /\ hsm /\ PossessionVerdict(id["CheckpointAuthority"]) # "Ok"
        THEN "NoPossession"
      ELSE IF Collides(Opened(host)) THEN "SecretCollision"
      ELSE "Ok"

\* A preflight that passes.  Until the process it is for has started, the
\* script's environment stays as it is, and with it the public identities; the
\* key files are whatever they become.
Preflight(host) ==
  /\ Cardinality(ran) + Cardinality({h \in Host : cleared[h] # NoManifest}) < MaxProcesses
  /\ PreflightVerdict(host) = "Ok"
  /\ cleared' = [cleared EXCEPT ![host] = [manifest |-> manifest[host], keys |-> Opened(host)]]
  /\ UNCHANGED <<environment, ran, signed, changes>>

----------------------------------------------------------------------------
(* Processes. *)

\* refuse_the_authoritys_key: the path as written, or what it resolves to.
\* The batcher's signing key path names the authority's own file.
RefuseTheAuthoritysKey == linked

\* What the process on a host needs before it runs, with the public identities
\* it was given: batcher-handoff its two secrets, anchor-b-worker the batcher's
\* public key and two keypairs, and a worker in front of a provider its payer
\* and a provider that answers with the manifest's authority
\* (ConsensusSigner::connect, which the provider's adapter calls before the
\* worker starts).  None of them compares a key with a public identity.  The
\* adapter, and the tool that deploys with the deployment host's two keys, are
\* not in this repository.
Starts(host, identities) ==
  /\ \A r \in Allowed(host) : KeyVerdict(private[host][r]) = "Ok"
  /\ host = "batcher" => ~RefuseTheAuthoritysKey
  /\ host = "worker" => identities["BatcherSigning"] \in Identity
  /\ host = "worker" /\ hsm =>
       /\ provider # Missing
       /\ identities["CheckpointAuthority"] = PublicKey(provider)

\* A process starts and keeps the keys and identities it reads.  Of the roles
\* in `held' it reads the key that its preflight had opened.
Run(host, given, identities, held) ==
  /\ Cardinality(ran) < MaxProcesses
  /\ Starts(host, identities)
  /\ ran' = ran \cup
       {[host     |-> host,
         manifest |-> given,
         keys     |-> Opened(host),
         held     |-> held,
         trusts   |-> IF host = "worker" THEN identities["BatcherSigning"] ELSE Unset,
         pinned   |-> IF host = "worker" THEN identities["CheckpointAuthority"] ELSE Unset]}
  /\ UNCHANGED <<environment, signed, changes>>

\* The script's process, after its preflight.
StartCleared(host) ==
  /\ cleared[host] # NoManifest
  /\ Run(host, cleared[host].manifest, cleared[host].manifest,
         {r \in Allowed(host) : private[host][r].seed = cleared[host].keys[r]})
  /\ cleared' = [cleared EXCEPT ![host] = NoManifest]

\* The service manager's, without one: its unit is the worker's.
Start ==
  /\ Run("worker", NoManifest, manifest["worker"], {})
  /\ UNCHANGED cleared

\* A worker in front of a provider asks for a signature, and the provider
\* signs with whatever key is behind the reference now, over what it was
\* asked, over something else (a prehash, another algorithm), or not at all.
Answers(message) == [by : {provider} \ {Missing}, over : {message, Garbled}]

\* Mutant: the provider is trusted, since connect compared its key.
TrySignMessageTrusting(p, message) ==
  /\ p.host = "worker" /\ "CheckpointAuthority" \notin DOMAIN p.keys
  /\ Cardinality(signed) < MaxSigned
  /\ \E signature \in Answers(message) :
       signed' = signed \cup
         {[pinned |-> p.pinned, manifest |-> p.manifest,
           asked |-> message, signature |-> signature]}
  /\ UNCHANGED <<environment, cleared, ran, changes>>

\* try_sign_message: sign, verify locally, and only then let it through.
TrySignMessage(p, message) ==
  /\ p.host = "worker" /\ "CheckpointAuthority" \notin DOMAIN p.keys
  /\ Cardinality(signed) < MaxSigned
  /\ \E signature \in Answers(message) :
       /\ VerifyWithKey(p.pinned, message, signature)
       /\ signed' = signed \cup
            {[pinned |-> p.pinned, manifest |-> p.manifest,
              asked |-> message, signature |-> signature]}
  /\ UNCHANGED <<environment, cleared, ran, changes>>

----------------------------------------------------------------------------
(* Operators. *)

Change ==
  /\ changes < MaxChanges
  /\ changes' = changes + 1

\* A change to what only a process that starts would read: once the last one
\* has, it would be lost.
ReadAtStart == Change /\ Cardinality(ran) < MaxProcesses

\* What a variable may come to name.  Of one that another role owns the
\* preflight asks only whether it is set, and no process reads it.
Files(host, r) ==
  IF r \in Allowed(host)
  THEN {Unset, Missing} \cup {Kept(seed) : seed \in Seed \cup {Garbled}}
  ELSE {Unset, Kept(r)}

\* A private variable is set to another file, unset, or the file goes bad.
Configure(host, r, file) ==
  /\ ReadAtStart
  /\ file # private[host][r]
  /\ private' = [private EXCEPT ![host][r] = file]
  /\ linked' = (linked /\ <<host, r>> # <<"batcher", "BatcherSigning">>)
  /\ UNCHANGED <<hsm, manifest, provider, challenge, proof, cleared, ran, signed>>

\* chmod.
OpenToOthers(host, r) ==
  /\ ReadAtStart
  /\ Readable(private[host][r]) /\ private[host][r].owner_only
  /\ private' = [private EXCEPT ![host][r].owner_only = FALSE]
  /\ UNCHANGED <<hsm, manifest, linked, provider, challenge, proof, cleared, ran, signed>>

\* A public identity is changed on one host.
Identify(host, r, identity) ==
  /\ ReadAtStart
  /\ identity # manifest[host][r]
  /\ manifest' = [manifest EXCEPT ![host][r] = identity]
  /\ UNCHANGED <<hsm, private, linked, provider, challenge, proof, cleared, ran, signed>>

\* The batcher is pointed at the authority's own file on a shared machine.
LinkToAuthority ==
  /\ ReadAtStart
  /\ ~linked
  /\ linked' = TRUE
  /\ private' = [private EXCEPT !["batcher"]["BatcherSigning"] = Kept("CheckpointAuthority")]
  /\ UNCHANGED <<hsm, manifest, provider, challenge, proof, cleared, ran, signed>>

\* The provider's alias is overwritten, or its key is gone.
ProviderChanges(seed) ==
  /\ Change
  /\ hsm /\ provider # seed
  /\ provider' = seed
  /\ UNCHANGED <<hsm, manifest, private, linked, challenge, proof, cleared, ran, signed>>

\* The challenge is generated anew, or badly.
ChallengeChanges(file) ==
  /\ ReadAtStart
  /\ hsm /\ challenge # file
  /\ challenge' = file
  /\ UNCHANGED <<hsm, manifest, private, linked, provider, proof, cleared, ran, signed>>

\* The provider's tooling signs the challenge, or leaves something else.
ProofChanges ==
  /\ ReadAtStart
  /\ hsm
  /\ proof' \in {Missing, Garbled} \cup
       {[by |-> seed, over |-> challenge] : seed \in {provider} \ {Missing}}
  /\ proof' # proof
  /\ UNCHANGED <<hsm, manifest, private, linked, provider, challenge, cleared, ran, signed>>

CustodyNext ==
  \/ \E host \in Host : Preflight(host) \/ StartCleared(host)
  \/ Start
  \/ \E p \in ran, message \in Message : TrySignMessage(p, message)
  \/ \E host \in Host, r \in KeyRole :
       \/ \E file \in Files(host, r) : Configure(host, r, file)
       \/ OpenToOthers(host, r)
  \/ \E host \in Host, r \in PublicRole, identity \in Identity \cup {Unset} :
       Identify(host, r, identity)
  \/ LinkToAuthority
  \/ \E seed \in Seed \cup {Missing} : ProviderChanges(seed)
  \/ \E file \in {"fresh", "again", "empty", "oversized", Missing} : ChallengeChanges(file)
  \/ ProofChanges

CustodySpec == CustodyInit /\ [][CustodyNext]_custodyVars

----------------------------------------------------------------------------
(* Properties. *)

Manifest == [PublicRole -> Identity \cup {Unset}]

Process ==
  [host : Host, manifest : Manifest \cup {NoManifest},
   keys : UNION {[roles -> Seed] : roles \in SUBSET KeyRole}, held : SUBSET KeyRole,
   trusts : Identity \cup {Unset}, pinned : Identity \cup {Unset}]

\* Every file, manifest and process is well-formed.
CustodyTypeOK ==
  /\ hsm \in BOOLEAN /\ linked \in BOOLEAN
  /\ manifest \in [Host -> Manifest]
  /\ private \in [Host -> [KeyRole -> File]]
  /\ provider \in Seed \cup {Missing}
  /\ \A p \in ran : p.host \in Host /\ DOMAIN p.keys \subseteq KeyRole
  /\ changes \in 0 .. MaxChanges

\* D-143: processes that started on hosts which had passed the preflight on
\* one manifest, at whatever times and through whatever changes in between,
\* have no seed in common under two roles, as far as their keys are those that
\* the preflight opened: the worker's payer is not the deploy authority, and
\* nobody holds the batcher's key but the batcher.  A file exchanged between
\* the preflight and the process is nobody's claim: the process compares its
\* key with nothing.  The master key has no public half, so it is kept apart
\* from the signing key beside it and from nothing on another host.
KeysAreSeparate ==
  \A p, q \in ran :
     p.manifest = q.manifest /\ p.manifest # NoManifest =>
       \A r \in p.held, s \in q.held :
          r # s /\ (p = q \/ "MasterKey" \notin {r, s}) => p.keys[r] # q.keys[s]

\* D-139: a batcher and a worker whose hosts had passed on one manifest agree
\* on the batcher, if the batcher signs with the key that its preflight opened:
\* what the one signs the other accepts, so the worker does not stop at a
\* handoff it cannot verify.
PassedHostsAgree ==
  \A b, w \in ran :
     /\ b.host = "batcher" /\ w.host = "worker"
     /\ b.manifest = w.manifest /\ b.manifest # NoManifest
     /\ "BatcherSigning" \in b.held
     => w.trusts = PublicKey(b.keys["BatcherSigning"])

\* RUNBOOK-HSM-KEY-MANAGEMENT 7: whatever happens behind the provider's alias
\* after connect, a signature that reaches a transaction is the pinned
\* authority's, over the message that was asked; and on a host that passed,
\* the seed that made it is in no file that a preflight of that deployment and
\* then its process opened for a public role.
SignedAsAsked ==
  \A s \in signed :
     /\ s.signature.over = s.asked
     /\ PublicKey(s.signature.by) = s.pinned
     /\ s.manifest # NoManifest =>
          \A p \in ran : p.manifest = s.manifest =>
             \A r \in p.held \cap PublicRole : p.keys[r] # s.signature.by
=============================================================================

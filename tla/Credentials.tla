----------------------------- MODULE Credentials -----------------------------
(***************************************************************************)
(* Where a platform credential lives and which one the server publishes    *)
(* with (channels/meta-tokens.ts, x-oauth.ts, youtube-tokens.ts,           *)
(* api-keys.ts, runtime/config.ts).                                        *)
(*                                                                         *)
(* A credential has three homes: the .env file (read at startup), a sealed *)
(* row of platform_tokens, and the memory of the server.  It is renewed by *)
(* a loop of the server and replaced by the operator, from the server (the *)
(* OAuth callback) or from a process of the command line.  "threads" is    *)
(* one of the Meta targets, "x" the pair of X, whose refresh token is good *)
(* for one use, "key" one of those that are stored once (an API key, the   *)
(* refresh token of YouTube).                                              *)
(***************************************************************************)
EXTENDS Naturals, FiniteSets

CONSTANTS
  Accounts,         \* the accounts a credential may belong to
  MaxTokens,        \* tokens the platforms issue
  MaxRestarts,      \* restarts of the server
  CredentialFaults  \* subset of AllCredentialFaults

\* "race": the operator connects an account while a renewal is in flight.
\* "answer_lost": the platform renewed and the server never stored it.
\* "env_edited": the server starts with another .env than the one it renewed the
\* token of a connected Meta account under.
AllCredentialFaults == {"race", "answer_lost", "env_edited"}

CredentialKinds == {"threads", "x", "key"}
NoAccount == "no_account"

ASSUME CredentialAssumption ==
  /\ Accounts # {} /\ NoAccount \notin Accounts /\ "env" \notin Accounts
  /\ MaxTokens \in Nat \ {0} /\ MaxRestarts \in Nat /\ CredentialFaults \subseteq AllCredentialFaults

VARIABLES
  kind,      \* the credential looked at; they do not touch each other
  envFile,   \* the token in .env
  envRead,   \* the one the server read: metaTokenSeeds
  stored,    \* its row of platform_tokens
  memory,    \* the token of the server's config
  call,      \* the renewal in flight
  issued,    \* tokens issued so far; each is a number of its own
  owner,     \* [1 .. MaxTokens -> account a token was issued for]
  spent,     \* refresh tokens of X that were used
  chosen,    \* the account the operator wants published to
  connected, \* the operator has connected an account through the browser
  restarts

credentialVars == <<kind, envFile, envRead, stored, memory, call, issued, owner, spent, chosen,
                    connected, restarts>>

Token == 0 .. MaxTokens    \* 0: none
\* seed: the .env token the row is tied to (its fingerprint), 0 when there is none:
\* so is the row of an account just connected through the browser.   fresh: not yet due for renewal.
Row == [token: Token, seed: Token, fresh: BOOLEAN]
NoRow == [token |-> 0, seed |-> 0, fresh |-> FALSE]
Renewal == [token: Token, seed: Token]
NoCall == [token |-> 0, seed |-> 0]

CredentialTypeOK ==
  /\ kind \in CredentialKinds
  /\ envFile \in Token /\ envRead \in Token /\ memory \in Token
  /\ stored \in Row /\ call \in Renewal
  /\ issued \in Token /\ owner \in [1 .. MaxTokens -> Accounts \cup {NoAccount}]
  /\ spent \subseteq 1 .. MaxTokens /\ chosen \in Accounts \cup {NoAccount}
  /\ connected \in BOOLEAN /\ restarts \in 0 .. MaxRestarts

\* A Studio seeded from .env for one account, started once.
CredentialInit ==
  \E a \in Accounts :
    /\ kind \in CredentialKinds
    /\ envFile = 1 /\ envRead = 1 /\ memory = 1 /\ stored = NoRow /\ call = NoCall
    /\ issued = 1 /\ owner = [n \in 1 .. MaxTokens |-> IF n = 1 THEN a ELSE NoAccount]
    /\ spent = {} /\ chosen = a /\ connected = FALSE /\ restarts = 0

\* MUTANT: the row always wins over .env.
StoredAlways(seed, kept) == IF stored.token = 0 THEN kept ELSE stored.token

\* applyStoredMetaTokens: a row yields to a .env value other than the one it grew
\* from.  The rows of the other kinds never do.
YieldsToEnv(seed) == kind = "threads" /\ stored.seed # 0 /\ stored.seed # seed

\* applyStoredCredentials: the token a process has in the end, kept being what it
\* had.
Applied(seed, kept) == IF stored.token = 0 \/ YieldsToEnv(seed) THEN kept ELSE stored.token

\* The row is the history of the token in memory, and not of another seed.
OwnRow == stored.token # 0 /\ (stored.seed = 0 \/ stored.seed = envRead)

Issue(a) == /\ issued < MaxTokens /\ issued' = issued + 1
            /\ owner' = [owner EXCEPT ![issued + 1] = a]

Store(seed) == stored' = [token |-> issued + 1, seed |-> seed, fresh |-> TRUE]

\* What the platform may have done when an answer does not arrive.
Unheard == {spent} \cup (IF kind = "x" /\ call # NoCall /\ "answer_lost" \in CredentialFaults
                         THEN {spent \cup {call.token}} ELSE {})

(***************************************************************************)
(* The server                                                              *)
(***************************************************************************)

\* renewMetaTokens and refreshXToken up to the call of the platform.  A row of Meta
\* is tied to the .env token the server read, also one that was tied to none.
RenewalAsks ==
  /\ kind # "key" /\ memory # 0 /\ call = NoCall
  /\ ~stored.fresh \/ (kind = "threads" /\ ~OwnRow)
  /\ call' = [token |-> memory,
              seed |-> IF kind = "x" THEN 0 ELSE IF OwnRow /\ stored.seed # 0 THEN stored.seed ELSE envRead]
  /\ UNCHANGED <<kind, envFile, envRead, stored, memory, issued, owner, spent, chosen, connected, restarts>>

\* The new token is stored and used at once.
RenewalDone ==
  /\ call # NoCall /\ call.token \notin spent
  /\ Issue(owner[call.token]) /\ Store(call.seed)
  /\ spent' = IF kind = "x" THEN spent \cup {call.token} ELSE spent
  /\ memory' = issued + 1 /\ call' = NoCall
  /\ UNCHANGED <<kind, envFile, envRead, chosen, connected, restarts>>

\* Refused, or lost before or after the platform renewed.
RenewalFails ==
  /\ call # NoCall /\ call' = NoCall /\ spent' \in Unheard
  /\ UNCHANGED <<kind, envFile, envRead, stored, memory, issued, owner, chosen, connected, restarts>>

\* The loop "credentials": applyStoredCredentials.
ApplyStored ==
  /\ memory' = Applied(envRead, memory)
  /\ UNCHANGED <<kind, envFile, envRead, stored, call, issued, owner, spent, chosen, connected, restarts>>

\* The row of an account the operator connected follows an .env the operator did not
\* choose it in.
TiedToEnv == kind = "threads" /\ connected /\ YieldsToEnv(envFile)

\* loadRuntimeConfig: .env is read again, and what is stored applied to it.  The
\* operator chose by replacing .env, unless the account is one .env has no say in:
\* a token "sitting there is not the operator's newest intent".
Restart ==
  /\ restarts < MaxRestarts /\ restarts' = restarts + 1
  /\ TiedToEnv => "env_edited" \in CredentialFaults
  /\ envRead' = envFile /\ memory' = Applied(envFile, envFile)
  /\ chosen' = IF envFile # envRead /\ (stored.token = 0 \/ (kind = "threads" /\ ~connected))
               THEN IF envFile = 0 THEN NoAccount ELSE owner[envFile]
               ELSE chosen
  /\ call' = NoCall /\ spent' \in Unheard
  /\ UNCHANGED <<kind, envFile, stored, issued, owner, connected>>

\* Hours or days pass, in which the loops ran: the token is due for renewal.
Ages ==
  /\ kind # "key" /\ stored.fresh /\ memory = Applied(envRead, memory)
  /\ stored' = [stored EXCEPT !.fresh = FALSE]
  /\ UNCHANGED <<kind, envFile, envRead, memory, call, issued, owner, spent, chosen, connected, restarts>>

(***************************************************************************)
(* The operator                                                            *)
(***************************************************************************)

InstallMetaToken(a) == kind = "threads" /\ Issue(a) /\ Store(0)
ExchangeXCode(a) == kind = "x" /\ Issue(a) /\ Store(0)
StoreApiKey(a) == kind = "key" /\ Issue(a) /\ Store(0)   \* and installYouTubeToken

\* The operator connects an account, in the server or in a process of its own,
\* which leaves the server's memory alone.
Connect(a) ==
  /\ call = NoCall \/ "race" \in CredentialFaults
  /\ InstallMetaToken(a) \/ ExchangeXCode(a) \/ StoreApiKey(a)
  /\ chosen' = a /\ connected' = TRUE
  /\ memory' \in {memory, issued + 1}
  /\ UNCHANGED <<kind, envFile, envRead, call, spent, restarts>>

\* The operator replaces the token in .env or removes it.
EditEnv(a) ==
  /\ \/ Issue(a) /\ envFile' = issued + 1
     \/ envFile # 0 /\ envFile' = 0 /\ UNCHANGED <<issued, owner>>
  /\ UNCHANGED <<kind, envRead, stored, memory, call, spent, chosen, connected, restarts>>

CredentialNext ==
  \/ RenewalAsks \/ RenewalDone \/ RenewalFails \/ ApplyStored \/ Restart \/ Ages
  \/ \E a \in Accounts : Connect(a) \/ EditEnv(a)

CredentialSpec == CredentialInit /\ [][CredentialNext]_credentialVars

(***************************************************************************)
(* Properties                                                              *)
(***************************************************************************)

\* What the server publishes with once the loop "credentials" has run.
Effective == Applied(envRead, memory)

\* The server publishes to the account the operator chose last, in .env or in a
\* browser, through every renewal and restart; and the refresh token of X it
\* would use next was not used before (applyStoredMetaTokens, renewMetaTokens,
\* applyStoredXTokens, refreshXToken).
AccountIsChosen == IF Effective = 0 THEN chosen = NoAccount ELSE owner[Effective] = chosen
TokenIsUnused == Effective \notin spent
CredentialHolds == AccountIsChosen /\ TokenIsUnused

\* "It becomes the database-owned credential immediately and on every later
\* restart" (meta-tokens.ts:142): once the operator has connected an account of
\* Meta, the server publishes to the one connected last.
ConnectedStays == kind = "threads" /\ connected => Effective # 0 /\ owner[Effective] = chosen
=============================================================================

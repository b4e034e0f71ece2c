--------------------------- MODULE OperationsProofs ---------------------------
(***************************************************************************)
(* Theorems of the components an operator runs the service with: the       *)
(* credentials it publishes under, the breaker that pauses a platform, the *)
(* deployments of both hosts, the commands on what is already public and   *)
(* the notices the operators get.                                          *)
(* For every value of their constants, within what each theorem assumes.   *)
(***************************************************************************)
EXTENDS Credentials, Breaker, Deployment, RemoteCopies, Notices, SequenceTheorems, TLAPS

-----------------------------------------------------------------------------
-----------------------------------------------------------------------------
(* Credentials *)

\* For any accounts, tokens and restarts.  Each fault breaks one half of
\* CredentialHolds: an account the operator connects while a renewal is in flight
\* ("race") and an .env edited under an account that was connected and renewed since
\* ("env_edited") cost the choice, an answer that is lost ("answer_lost") the token of X.
\* What the server would publish with (Effective) depends on whether the stored row
\* grew from the .env token the server read.  ChosenInv says which of the three homes
\* agree: memory is that token whenever the row does not decide (EnvInMemory) or is
\* due for renewal (DueInMemory), a renewal carries the account chosen (CallFits),
\* a token new in .env is one no row grew from (EnvIsNew), and only the row of a
\* connected account of Meta is tied to no .env token (SeedUntilConnected).

Names == {envFile, envRead, memory, stored.token, stored.seed, call.token, call.seed}
NamesIssued == CredentialTypeOK /\ \A n \in Names : n <= issued
SpentIsPast == (\A n \in spent : n <= issued) /\ (kind # "x" => spent = {})
RenewalIsReal == call # NoCall => call.token # 0
CredentialTyped == NamesIssued /\ SpentIsPast /\ RenewalIsReal

EnvInMemory == stored.token = 0 \/ YieldsToEnv(envRead) => memory = envRead
DueInMemory == ~stored.fresh => memory = Effective
CallFits == call # NoCall =>
  owner[call.token] = chosen /\ ~(kind = "threads" /\ call.seed # 0 /\ call.seed # envRead)
SeedUntilConnected == kind = "threads" /\ ~connected =>
  (stored.token # 0 => stored.seed # 0) /\ (call # NoCall => call.seed # 0)
EnvIsNew == envFile # 0 /\ envFile # envRead => stored.seed # envFile /\ call.seed # envFile
ChosenInv == EnvInMemory /\ DueInMemory /\ CallFits /\ EnvIsNew /\ SeedUntilConnected /\ AccountIsChosen

\* A token of X that was used is neither the one stored nor, without a row, that of .env.
UnusedInv == stored.token \notin spent /\ (stored.token = 0 => spent = {})

LEMMA Typed == CredentialTypeOK =>
  /\ envFile \in Nat /\ envRead \in Nat /\ memory \in Nat /\ issued \in Nat
  /\ stored.token \in Nat /\ stored.seed \in Nat /\ stored.fresh \in BOOLEAN
  /\ call.token \in Nat /\ call.seed \in Nat
  /\ stored = [token |-> stored.token, seed |-> stored.seed, fresh |-> stored.fresh]
  /\ call = [token |-> call.token, seed |-> call.seed]
BY CredentialAssumption DEF CredentialTypeOK, Token, Row, Renewal

LEMMA NamesAre == (\A n \in Names : n <= issued) <=>
  /\ envFile <= issued /\ envRead <= issued /\ memory <= issued /\ stored.token <= issued
  /\ stored.seed <= issued /\ call.token <= issued /\ call.seed <= issued
BY DEF Names

\* What a process applies is a token it may have.
LEMMA AppliedIssued ==
  ASSUME NamesIssued, NEW t \in Token, t <= issued, NEW seed
  PROVE  Applied(seed, t) \in Token /\ Applied(seed, t) <= issued
BY Typed, NamesAre DEF NamesIssued, CredentialTypeOK, Applied, Row

LEMMA NoCallTyped == NamesIssued => NoCall \in Renewal /\ NoCall.token = 0 /\ NoCall.seed = 0 /\ 0 <= issued
BY CredentialAssumption, Typed DEF NamesIssued, NoCall, Renewal, Token

\* What the platform may have done with a token it was shown.
LEMMA UnheardTyped ==
  ASSUME CredentialTyped, NEW s \in Unheard
  PROVE  s \subseteq 1 .. MaxTokens /\ (\A n \in s : n <= issued) /\ (kind # "x" => s = {})
<1>1. spent \subseteq 1 .. MaxTokens /\ (\A n \in spent : n <= issued) /\ (kind # "x" => spent = {})
  BY DEF CredentialTyped, SpentIsPast, NamesIssued, CredentialTypeOK
<1>2. call # NoCall => call.token \in 1 .. MaxTokens /\ call.token <= issued
  BY Typed, NamesAre, CredentialAssumption DEF CredentialTyped, RenewalIsReal, NamesIssued, CredentialTypeOK,
     Renewal, Token
<1> QED BY <1>1, <1>2 DEF Unheard

\* A new token, with the facts every step that issues one shares.
LEMMA Issued ==
  ASSUME CredentialTyped, NEW a \in Accounts \cup {NoAccount}, Issue(a)
  PROVE  /\ issued' = issued + 1 /\ issued' \in Token /\ issued' \notin spent /\ issued \in Nat /\ issued' # 0
         /\ owner' \in [1 .. MaxTokens -> Accounts \cup {NoAccount}] /\ owner'[issued'] = a
         /\ \A n \in Nat : n <= issued => owner'[n] = owner[n] /\ n <= issued'
         /\ \A n \in spent : n <= issued'
<1>1. issued' = issued + 1 /\ issued \in Nat /\ issued' \in 1 .. MaxTokens
  BY Typed, CredentialAssumption DEF CredentialTyped, NamesIssued, Issue, CredentialTypeOK, Token
<1>2. owner \in [1 .. MaxTokens -> Accounts \cup {NoAccount}] /\ owner' = [owner EXCEPT ![issued + 1] = a]
  BY DEF CredentialTyped, NamesIssued, CredentialTypeOK, Issue
<1>3. \A n \in spent : n <= issued /\ n \in Nat
  BY DEF CredentialTyped, NamesIssued, CredentialTypeOK, SpentIsPast
<1>4. \A n \in Nat : n <= issued => owner'[n] = owner[n]
  BY <1>1, <1>2
<1> QED BY <1>1, <1>2, <1>3, <1>4 DEF Token

\* Who a renewal renews for.
LEMMA Renewed ==
  ASSUME CredentialTyped, call # NoCall
  PROVE  owner[call.token] \in Accounts \cup {NoAccount} /\ call.token \in 1 .. MaxTokens
BY Typed, CredentialAssumption DEF CredentialTyped, RenewalIsReal, NamesIssued, CredentialTypeOK, Renewal, Token

-----------------------------------------------------------------------------
(* Types, whatever the platform and the operator do *)

LEMMA CredentialStarts == CredentialInit => CredentialTyped /\ ChosenInv /\ UnusedInv
<1> SUFFICES ASSUME CredentialInit PROVE CredentialTyped /\ ChosenInv /\ UnusedInv
  OBVIOUS
<1>1. 1 \in Token /\ 0 \in Token /\ 1 \in 1 .. MaxTokens /\ 0 \in 0 .. MaxRestarts
  BY CredentialAssumption DEF Token
<1>2. NamesIssued
  <2>1. stored \in Row /\ call \in Renewal
    BY <1>1 DEF CredentialInit, NoRow, NoCall, Row, Renewal
  <2>2. CredentialTypeOK
    BY <1>1, <2>1 DEF CredentialInit, CredentialTypeOK
  <2> QED BY <2>2, NamesAre DEF CredentialInit, NamesIssued, NoRow, NoCall
<1>3. EnvInMemory /\ DueInMemory /\ CallFits /\ EnvIsNew /\ SeedUntilConnected
      /\ SpentIsPast /\ RenewalIsReal /\ UnusedInv
  BY DEF CredentialInit, EnvInMemory, DueInMemory, CallFits, SeedUntilConnected, EnvIsNew, SpentIsPast, RenewalIsReal, UnusedInv,
         Effective, Applied, YieldsToEnv, NoRow, NoCall
<1>4. AccountIsChosen
  BY <1>1 DEF CredentialInit, AccountIsChosen, Effective, Applied, YieldsToEnv, NoRow
<1> QED BY <1>2, <1>3, <1>4 DEF CredentialTyped, ChosenInv

LEMMA TypesKept ==
  ASSUME CredentialTyped, [CredentialNext]_credentialVars
  PROVE  CredentialTyped'
<1> USE DEF CredentialTyped
<1>0. /\ kind \in CredentialKinds /\ envFile \in Token /\ envRead \in Token /\ memory \in Token
      /\ stored \in Row /\ call \in Renewal /\ issued \in Token
      /\ owner \in [1 .. MaxTokens -> Accounts \cup {NoAccount}] /\ spent \subseteq 1 .. MaxTokens
      /\ chosen \in Accounts \cup {NoAccount} /\ connected \in BOOLEAN /\ restarts \in 0 .. MaxRestarts
  BY DEF NamesIssued, CredentialTypeOK
<1>1. /\ envFile <= issued /\ envRead <= issued /\ memory <= issued /\ stored.token <= issued
      /\ stored.seed <= issued /\ call.token <= issued /\ call.seed <= issued
      /\ envFile \in Nat /\ envRead \in Nat /\ memory \in Nat /\ issued \in Nat /\ stored.token \in Nat
      /\ stored.seed \in Nat /\ call.token \in Nat /\ call.seed \in Nat
  BY NamesAre, Typed DEF NamesIssued
<1>2. NoCall \in Renewal /\ NoCall.token = 0 /\ NoCall.seed = 0 /\ 0 <= issued
  BY NoCallTyped
<1>3. 0 \in Token
  BY CredentialAssumption DEF Token
<1>4. CASE RenewalAsks
  <2>1. /\ UNCHANGED <<kind, envFile, envRead, stored, memory, issued, owner, spent, chosen, connected, restarts>>
        /\ memory # 0
        /\ call' = [token |-> memory, seed |-> IF kind = "x" THEN 0 ELSE IF OwnRow /\ stored.seed # 0 THEN stored.seed ELSE envRead]
    BY <1>4 DEF RenewalAsks
  <2>2. stored.seed \in Token
    BY <1>0 DEF Row
  <2>3. call' \in Renewal /\ call'.token = memory /\ call'.token <= issued /\ call'.seed <= issued
    BY <1>0, <1>1, <1>2, <1>3, <2>1, <2>2 DEF Renewal
  <2>4. CredentialTypeOK'
    BY <1>0, <2>1, <2>3 DEF CredentialTypeOK
  <2>5. NamesIssued'
    BY <1>1, <2>1, <2>3, <2>4 DEF NamesIssued, Names
  <2> QED BY <2>1, <2>3, <2>5 DEF SpentIsPast, RenewalIsReal
<1>5. CASE RenewalDone
  <2>1. /\ call # NoCall /\ Issue(owner[call.token]) /\ stored' = [token |-> issued + 1, seed |-> call.seed, fresh |-> TRUE]
        /\ spent' = (IF kind = "x" THEN spent \cup {call.token} ELSE spent)
        /\ memory' = issued + 1 /\ call' = NoCall /\ UNCHANGED <<kind, envFile, envRead, chosen, connected, restarts>>
    BY <1>5 DEF RenewalDone, Store
  <2>2. owner[call.token] \in Accounts \cup {NoAccount} /\ call.token \in 1 .. MaxTokens
    BY <2>1, Renewed
  <2>3. /\ issued' = issued + 1 /\ issued' \in Token /\ owner' \in [1 .. MaxTokens -> Accounts \cup {NoAccount}]
        /\ \A n \in spent : n <= issued'
    BY <2>1, <2>2, Issued
  <2>4. stored' \in Row
    BY <1>0, <2>1, <2>3 DEF Row, Renewal
  <2>5. CredentialTypeOK'
    BY <1>0, <1>2, <2>1, <2>2, <2>3, <2>4 DEF CredentialTypeOK
  <2>6. NamesIssued'
    BY <1>1, <1>2, <2>1, <2>3, <2>5 DEF NamesIssued, Names
  <2>7. SpentIsPast'
    BY <1>1, <2>1, <2>3 DEF SpentIsPast
  <2> QED BY <2>1, <2>6, <2>7 DEF RenewalIsReal
<1>6. CASE RenewalFails
  <2>1. /\ UNCHANGED <<kind, envFile, envRead, stored, memory, issued, owner, chosen, connected, restarts>>
        /\ call' = NoCall /\ spent' \in Unheard
    BY <1>6 DEF RenewalFails
  <2>2. spent' \subseteq 1 .. MaxTokens /\ (\A n \in spent' : n <= issued) /\ (kind # "x" => spent' = {})
    BY <2>1, UnheardTyped
  <2>3. CredentialTypeOK'
    BY <1>0, <1>2, <2>1, <2>2 DEF CredentialTypeOK
  <2>4. NamesIssued'
    BY <1>1, <1>2, <2>1, <2>3 DEF NamesIssued, Names
  <2> QED BY <2>1, <2>2, <2>4 DEF SpentIsPast, RenewalIsReal
<1>7. CASE ApplyStored
  <2>1. /\ UNCHANGED <<kind, envFile, envRead, stored, call, issued, owner, spent, chosen, connected, restarts>>
        /\ memory' = Applied(envRead, memory)
    BY <1>7 DEF ApplyStored
  <2>2. memory' \in Token /\ memory' <= issued
    BY <1>0, <1>1, <2>1, AppliedIssued
  <2>3. CredentialTypeOK'
    BY <1>0, <2>1, <2>2 DEF CredentialTypeOK
  <2>4. NamesIssued'
    BY <1>1, <2>1, <2>2, <2>3 DEF NamesIssued, Names
  <2> QED BY <2>1, <2>4 DEF SpentIsPast, RenewalIsReal
<1>8. CASE Restart
  <2>1. /\ UNCHANGED <<kind, envFile, stored, issued, owner, connected>> /\ restarts < MaxRestarts /\ restarts' = restarts + 1
        /\ envRead' = envFile /\ memory' = Applied(envFile, envFile) /\ call' = NoCall /\ spent' \in Unheard
        /\ chosen' \in {chosen, NoAccount, owner[envFile]} /\ (envFile = 0 => chosen' \in {chosen, NoAccount})
    BY <1>8 DEF Restart
  <2>2. memory' \in Token /\ memory' <= issued
    BY <1>0, <1>1, <2>1, AppliedIssued
  <2>3. spent' \subseteq 1 .. MaxTokens /\ (\A n \in spent' : n <= issued) /\ (kind # "x" => spent' = {})
    BY <2>1, UnheardTyped
  <2>4. envFile # 0 => owner[envFile] \in Accounts \cup {NoAccount}
    BY <1>0, CredentialAssumption DEF Token
  <2>5. chosen' \in Accounts \cup {NoAccount} /\ restarts' \in 0 .. MaxRestarts
    BY <1>0, <2>1, <2>4, CredentialAssumption
  <2>6. CredentialTypeOK'
    BY <1>0, <1>2, <2>1, <2>2, <2>3, <2>5 DEF CredentialTypeOK
  <2>7. NamesIssued'
    BY <1>1, <1>2, <2>1, <2>2, <2>6 DEF NamesIssued, Names
  <2> QED BY <2>1, <2>3, <2>7 DEF SpentIsPast, RenewalIsReal
<1>9. CASE Ages
  <2>1. /\ UNCHANGED <<kind, envFile, envRead, memory, call, issued, owner, spent, chosen, connected, restarts>>
        /\ stored'.token = stored.token /\ stored'.seed = stored.seed /\ stored' \in Row
    BY <1>0, <1>9 DEF Ages, Row
  <2>2. CredentialTypeOK'
    BY <1>0, <2>1 DEF CredentialTypeOK
  <2>3. NamesIssued'
    BY <1>1, <2>1, <2>2 DEF NamesIssued, Names
  <2> QED BY <2>1, <2>3 DEF SpentIsPast, RenewalIsReal
<1>10. ASSUME NEW a \in Accounts, Connect(a) PROVE CredentialTyped'
  <2>1. /\ Issue(a) /\ chosen' = a /\ connected' = TRUE /\ memory' \in {memory, issued + 1}
        /\ stored' = [token |-> issued + 1, seed |-> 0, fresh |-> TRUE]
        /\ UNCHANGED <<kind, envFile, envRead, call, spent, restarts>>
    BY <1>10 DEF Connect, InstallMetaToken, ExchangeXCode, StoreApiKey, Store
  <2>2. /\ issued' = issued + 1 /\ issued' \in Token /\ owner' \in [1 .. MaxTokens -> Accounts \cup {NoAccount}]
        /\ \A n \in spent : n <= issued'
    BY <2>1, Issued
  <2>3. stored' \in Row /\ memory' \in Token
    BY <1>0, <1>3, <2>1, <2>2 DEF Row
  <2>4. CredentialTypeOK'
    BY <1>0, <2>1, <2>2, <2>3 DEF CredentialTypeOK
  <2>5. NamesIssued'
    BY <1>1, <2>1, <2>2, <2>4 DEF NamesIssued, Names
  <2> QED BY <2>1, <2>2, <2>5 DEF SpentIsPast, RenewalIsReal
<1>11. ASSUME NEW a \in Accounts, EditEnv(a) PROVE CredentialTyped'
  <2>1. UNCHANGED <<kind, envRead, stored, memory, call, spent, chosen, connected, restarts>>
    BY <1>11 DEF EditEnv
  <2>2. /\ issued' \in Token /\ owner' \in [1 .. MaxTokens -> Accounts \cup {NoAccount}] /\ issued <= issued'
        /\ issued' \in Nat /\ envFile' \in Token /\ envFile' <= issued' /\ \A n \in spent : n <= issued'
    <3>1. CASE Issue(a) /\ envFile' = issued + 1
      BY <1>1, <3>1, Issued DEF Token
    <3>2. CASE envFile' = 0 /\ UNCHANGED <<issued, owner>>
      BY <1>0, <1>1, <1>2, <1>3, <3>2 DEF SpentIsPast
    <3> QED BY <1>11, <3>1, <3>2 DEF EditEnv
  <2>3. CredentialTypeOK'
    BY <1>0, <2>1, <2>2 DEF CredentialTypeOK
  <2>4. NamesIssued'
    BY <1>1, <2>1, <2>2, <2>3 DEF NamesIssued, Names
  <2> QED BY <2>1, <2>2, <2>4 DEF SpentIsPast, RenewalIsReal
<1>12. CASE UNCHANGED credentialVars
  BY <1>12 DEF credentialVars, NamesIssued, CredentialTypeOK, Names, SpentIsPast, RenewalIsReal
<1> QED BY <1>4, <1>5, <1>6, <1>7, <1>8, <1>9, <1>10, <1>11, <1>12 DEF CredentialNext

LEMMA CredentialsTyped == CredentialSpec => []CredentialTyped
BY CredentialStarts, TypesKept, PTL DEF CredentialSpec

-----------------------------------------------------------------------------
(* The account that was chosen, while no connection races a renewal *)

LEMMA ChosenStep ==
  ASSUME CredentialTyped, ChosenInv, [CredentialNext]_credentialVars,
         "race" \notin CredentialFaults, "env_edited" \notin CredentialFaults
  PROVE  ChosenInv'
<1> USE DEF ChosenInv
<1>1. /\ envFile <= issued /\ envRead <= issued /\ memory <= issued /\ stored.token <= issued
      /\ stored.seed <= issued /\ call.token <= issued /\ call.seed <= issued
      /\ envFile \in Nat /\ envRead \in Nat /\ memory \in Nat /\ issued \in Nat /\ stored.token \in Nat
      /\ stored.seed \in Nat /\ call.token \in Nat /\ call.seed \in Nat
  BY NamesAre, Typed DEF CredentialTyped, NamesIssued
<1>2. Effective \in Nat /\ Effective <= issued
  BY <1>1 DEF Effective, Applied
\* The server shows the platform the token it would publish with.
<1>3. CASE RenewalAsks
  <2>1. /\ UNCHANGED <<kind, envFile, envRead, stored, memory, issued, owner, spent, chosen, connected, restarts>>
        /\ memory # 0
        /\ call' = [token |-> memory, seed |-> IF kind = "x" THEN 0 ELSE IF OwnRow /\ stored.seed # 0 THEN stored.seed ELSE envRead]
    BY <1>3 DEF RenewalAsks
  <2>2. memory = Effective
    <3>1. CASE ~stored.fresh
      BY <3>1 DEF DueInMemory
    <3>2. CASE kind = "threads" /\ ~OwnRow
      BY <3>2 DEF OwnRow, Effective, Applied, YieldsToEnv
    <3> QED BY <1>3, <3>1, <3>2 DEF RenewalAsks
  <2>3. CallFits'
    <3>1. owner[memory] = chosen
      BY <2>1, <2>2 DEF AccountIsChosen
    <3> QED BY <2>1, <3>1 DEF CallFits, OwnRow
  <2>4. EnvIsNew'
    BY <2>1 DEF EnvIsNew
  <2>5. Effective' = Effective /\ (YieldsToEnv(envRead)' <=> YieldsToEnv(envRead))
    BY <2>1 DEF Effective, Applied, YieldsToEnv
  <2>6. EnvInMemory' /\ DueInMemory' /\ AccountIsChosen'
    BY <2>1, <2>5 DEF EnvInMemory, DueInMemory, AccountIsChosen
  <2>7. SeedUntilConnected'
    <3>1. CASE OwnRow
      BY <2>1, <3>1 DEF OwnRow, SeedUntilConnected
    <3>2. CASE ~OwnRow
      BY <2>1, <2>2, <3>2 DEF OwnRow, SeedUntilConnected, Effective, Applied, YieldsToEnv, EnvInMemory
    <3> QED BY <3>1, <3>2
  <2> QED BY <2>3, <2>4, <2>6, <2>7
<1>4. CASE RenewalDone
  <2>1. /\ call # NoCall /\ Issue(owner[call.token])
        /\ stored' = [token |-> issued + 1, seed |-> call.seed, fresh |-> TRUE]
        /\ memory' = issued + 1 /\ call' = NoCall /\ UNCHANGED <<kind, envFile, envRead, chosen, connected, restarts>>
    BY <1>4 DEF RenewalDone, Store
  <2>2. owner[call.token] = chosen /\ chosen \in Accounts \cup {NoAccount}
    BY <2>1, Renewed DEF CallFits
  <2>3. issued' = issued + 1 /\ issued' # 0 /\ owner'[issued'] = chosen
    BY <2>1, <2>2, Issued
  <2>4. Effective' = issued' /\ ~YieldsToEnv(envRead)'
    BY <2>1, <2>3 DEF Effective, Applied, YieldsToEnv, CallFits
  <2>5. EnvInMemory' /\ DueInMemory' /\ CallFits' /\ AccountIsChosen'
    BY <1>1, <2>1, <2>3, <2>4 DEF EnvInMemory, DueInMemory, CallFits, AccountIsChosen
  <2>6. EnvIsNew'
    BY <2>1 DEF EnvIsNew, NoCall
  <2>7. SeedUntilConnected'
    BY <2>1 DEF SeedUntilConnected
  <2> QED BY <2>5, <2>6, <2>7
<1>5. CASE RenewalFails
  <2>1. UNCHANGED <<kind, envFile, envRead, stored, memory, issued, owner, chosen, connected>> /\ call' = NoCall
    BY <1>5 DEF RenewalFails
  <2>2. Effective' = Effective /\ (YieldsToEnv(envRead)' <=> YieldsToEnv(envRead))
    BY <2>1 DEF Effective, Applied, YieldsToEnv
  <2> QED BY <2>1, <2>2 DEF EnvInMemory, DueInMemory, CallFits, EnvIsNew, SeedUntilConnected, AccountIsChosen, NoCall
<1>6. CASE ApplyStored
  <2>1. UNCHANGED <<kind, envFile, envRead, stored, call, issued, owner, chosen, connected>> /\ memory' = Effective
    BY <1>6 DEF ApplyStored, Effective
  <2>2. Effective' = Effective /\ (YieldsToEnv(envRead)' <=> YieldsToEnv(envRead))
    BY <2>1 DEF Effective, Applied, YieldsToEnv
  <2>3. EnvInMemory' /\ DueInMemory'
    BY <2>1, <2>2 DEF EnvInMemory, DueInMemory, Effective, Applied
  <2> QED BY <2>1, <2>2, <2>3 DEF CallFits, EnvIsNew, SeedUntilConnected, AccountIsChosen
\* .env has a say after a restart only if no row decides: either it is the token
\* the server read before, or it is new, no account was connected and no row grew
\* from it.
<1>7. CASE Restart
  <2>1. /\ UNCHANGED <<kind, envFile, stored, issued, owner, connected>>
        /\ envRead' = envFile /\ memory' = Applied(envFile, envFile) /\ call' = NoCall /\ ~TiedToEnv
    BY <1>7 DEF Restart
  <2>2. Effective' = memory' /\ (YieldsToEnv(envRead)' <=> YieldsToEnv(envFile))
    BY <2>1 DEF Effective, Applied, YieldsToEnv
  <2>3. SeedUntilConnected'
    BY <2>1 DEF SeedUntilConnected
  <2>4. CASE envFile # envRead /\ (stored.token = 0 \/ (kind = "threads" /\ ~connected))
    <3>1. memory' = envFile
      BY <2>1, <2>4 DEF Applied, YieldsToEnv, EnvIsNew, SeedUntilConnected
    <3>2. chosen' = IF envFile = 0 THEN NoAccount ELSE owner[envFile]
      BY <1>7, <2>4 DEF Restart
    <3>3. AccountIsChosen'
      BY <2>1, <2>2, <3>1, <3>2 DEF AccountIsChosen
    <3> QED BY <2>1, <2>2, <2>3, <3>1, <3>3 DEF EnvInMemory, DueInMemory, CallFits, EnvIsNew
  <2>5. CASE ~(envFile # envRead /\ (stored.token = 0 \/ (kind = "threads" /\ ~connected)))
    <3>1. chosen' = chosen
      BY <1>7, <2>5 DEF Restart
    <3>2. memory' = Effective
      <4>1. CASE envFile = envRead
        BY <2>1, <4>1 DEF Effective, Applied, YieldsToEnv, EnvInMemory
      <4>2. CASE envFile # envRead
        <5>1. ~YieldsToEnv(envFile)
          BY <2>1, <2>5, <4>2 DEF TiedToEnv, YieldsToEnv
        <5>2. ~YieldsToEnv(envRead)
          BY <5>1, <4>2 DEF YieldsToEnv, EnvIsNew
        <5> QED BY <2>1, <2>5, <4>2, <5>1, <5>2 DEF Effective, Applied
      <4> QED BY <4>1, <4>2
    <3>3. AccountIsChosen'
      BY <2>1, <2>2, <3>1, <3>2 DEF AccountIsChosen
    <3>4. EnvInMemory'
      BY <2>1, <2>2 DEF EnvInMemory, Applied
    <3> QED BY <2>1, <2>2, <2>3, <3>3, <3>4 DEF DueInMemory, CallFits, EnvIsNew
  <2> QED BY <2>4, <2>5
<1>8. CASE Ages
  <2>1. /\ UNCHANGED <<kind, envFile, envRead, memory, call, issued, owner, chosen, connected>>
        /\ stored'.token = stored.token /\ stored'.seed = stored.seed /\ memory = Effective
    BY <1>8 DEF Ages, Effective
  <2>2. Effective' = Effective /\ (YieldsToEnv(envRead)' <=> YieldsToEnv(envRead))
    BY <2>1 DEF Effective, Applied, YieldsToEnv
  <2> QED BY <2>1, <2>2 DEF EnvInMemory, DueInMemory, CallFits, EnvIsNew, SeedUntilConnected, AccountIsChosen
<1>9. ASSUME NEW a \in Accounts, Connect(a) PROVE ChosenInv'
  <2>1. /\ call = NoCall /\ Issue(a) /\ chosen' = a /\ connected' = TRUE /\ memory' \in {memory, issued + 1}
        /\ stored' = [token |-> issued + 1, seed |-> 0, fresh |-> TRUE]
        /\ UNCHANGED <<kind, envFile, envRead, call>>
    BY <1>9 DEF Connect, InstallMetaToken, ExchangeXCode, StoreApiKey, Store
  <2>2. issued' = issued + 1 /\ issued' # 0 /\ owner'[issued'] = a
    BY <2>1, Issued
  <2>3. Effective' = issued' /\ ~YieldsToEnv(envRead)'
    BY <2>1, <2>2 DEF Effective, Applied, YieldsToEnv
  <2>4. EnvInMemory' /\ DueInMemory' /\ CallFits' /\ AccountIsChosen'
    BY <1>1, <2>1, <2>2, <2>3 DEF EnvInMemory, DueInMemory, CallFits, AccountIsChosen
  <2>5. EnvIsNew'
    BY <2>1 DEF EnvIsNew, NoCall
  <2>6. SeedUntilConnected'
    BY <2>1 DEF SeedUntilConnected
  <2> QED BY <2>4, <2>5, <2>6
<1>10. ASSUME NEW a \in Accounts, EditEnv(a) PROVE ChosenInv'
  <2>1. UNCHANGED <<kind, envRead, stored, memory, call, spent, chosen, connected, restarts>>
    BY <1>10 DEF EditEnv
  <2>2. Effective' = Effective /\ (YieldsToEnv(envRead)' <=> YieldsToEnv(envRead))
    BY <2>1 DEF Effective, Applied, YieldsToEnv
  <2>3. /\ envFile' = 0 \/ envFile' = issued + 1
        /\ \A n \in Nat : n <= issued => owner'[n] = owner[n]
    <3>1. CASE Issue(a) /\ envFile' = issued + 1
      BY <3>1, Issued
    <3>2. CASE envFile' = 0 /\ UNCHANGED <<issued, owner>>
      BY <3>2
    <3> QED BY <1>10, <3>1, <3>2 DEF EditEnv
  <2>4. EnvInMemory' /\ DueInMemory' /\ CallFits' /\ AccountIsChosen'
    BY <1>1, <1>2, <2>1, <2>2, <2>3 DEF EnvInMemory, DueInMemory, CallFits, AccountIsChosen
  <2>5. EnvIsNew'
    BY <1>1, <2>1, <2>3 DEF EnvIsNew
  <2>6. SeedUntilConnected'
    BY <2>1 DEF SeedUntilConnected
  <2> QED BY <2>4, <2>5, <2>6
<1>11. CASE UNCHANGED credentialVars
  <2>1. UNCHANGED <<kind, envFile, envRead, stored, memory, call, issued, owner, chosen, connected>>
    BY <1>11 DEF credentialVars
  <2>2. Effective' = Effective /\ (YieldsToEnv(envRead)' <=> YieldsToEnv(envRead))
    BY <2>1 DEF Effective, Applied, YieldsToEnv
  <2> QED BY <2>1, <2>2 DEF EnvInMemory, DueInMemory, CallFits, EnvIsNew, SeedUntilConnected, AccountIsChosen
<1> QED BY <1>3, <1>4, <1>5, <1>6, <1>7, <1>8, <1>9, <1>10, <1>11 DEF CredentialNext

-----------------------------------------------------------------------------
(* The token of X, while every renewal is heard of *)

LEMMA UnusedStep ==
  ASSUME CredentialTyped, UnusedInv, [CredentialNext]_credentialVars, "answer_lost" \notin CredentialFaults
  PROVE  UnusedInv'
<1> USE DEF UnusedInv
<1>1. CASE RenewalDone
  <2>1. /\ call # NoCall /\ Issue(owner[call.token])
        /\ stored' = [token |-> issued + 1, seed |-> call.seed, fresh |-> TRUE]
        /\ spent' \subseteq spent \cup {call.token}
    BY <1>1 DEF RenewalDone, Store
  <2>2. /\ issued' = issued + 1 /\ issued' \notin spent /\ issued' # 0 /\ issued \in Nat
    BY <2>1, Renewed, Issued
  <2>3. call.token \in Nat /\ call.token <= issued
    BY Typed, NamesAre DEF CredentialTyped, NamesIssued
  <2>4. stored'.token = issued' /\ issued' # call.token
    BY <2>1, <2>2, <2>3
  <2> QED BY <2>1, <2>2, <2>4
<1>2. CASE RenewalFails \/ Restart
  <2>1. UNCHANGED <<stored, spent>>
    BY <1>2 DEF RenewalFails, Restart, Unheard
  <2> QED BY <2>1
<1>3. CASE RenewalAsks \/ ApplyStored \/ Ages \/ UNCHANGED credentialVars \/ \E a \in Accounts : EditEnv(a)
  <2>1. stored'.token = stored.token /\ spent' = spent
    BY <1>3, Typed DEF RenewalAsks, ApplyStored, Ages, EditEnv, credentialVars, CredentialTyped, NamesIssued
  <2> QED BY <2>1
<1>4. ASSUME NEW a \in Accounts, Connect(a) PROVE UnusedInv'
  <2>1. Issue(a) /\ stored' = [token |-> issued + 1, seed |-> 0, fresh |-> TRUE] /\ spent' = spent
    BY <1>4 DEF Connect, InstallMetaToken, ExchangeXCode, StoreApiKey, Store
  <2>2. issued' = issued + 1 /\ issued' \notin spent /\ issued' # 0
    BY <2>1, Issued
  <2> QED BY <2>1, <2>2
<1> QED BY <1>1, <1>2, <1>3, <1>4 DEF CredentialNext

LEMMA UnusedIsEnough == CredentialTyped /\ UnusedInv => TokenIsUnused
BY DEF CredentialTyped, SpentIsPast, UnusedInv, TokenIsUnused, Effective, Applied, YieldsToEnv

-----------------------------------------------------------------------------

\* Whatever the platform and the operator do, each home of a credential holds a token
\* that was issued, and a renewal is always of one (applyStoredCredentials,
\* renewMetaTokens, refreshXToken).
THEOREM CredentialsAreTyped == CredentialSpec => []CredentialTypeOK
<1>1. CredentialTyped => CredentialTypeOK
  BY DEF CredentialTyped, NamesIssued
<1> QED BY <1>1, CredentialsTyped, PTL

\* While no connection races a renewal, and while the server does not start with
\* another .env than the one it renewed the token of a connected Meta account under,
\* it publishes to the account the operator chose last, through any restarts, other
\* edits of .env and answers that are lost (applyStoredMetaTokens, renewMetaTokens,
\* loadRuntimeConfig).
THEOREM ChosenAccountIsUsed ==
  ASSUME "race" \notin CredentialFaults, "env_edited" \notin CredentialFaults
  PROVE  CredentialSpec => []AccountIsChosen
<1>1. CredentialInit => ChosenInv
  BY CredentialStarts
<1>2. CredentialTyped /\ ChosenInv /\ [CredentialNext]_credentialVars => ChosenInv'
  BY ChosenStep
<1>3. ChosenInv => AccountIsChosen
  BY DEF ChosenInv
<1> QED BY <1>1, <1>2, <1>3, CredentialsTyped, PTL DEF CredentialSpec

\* While no answer of a renewal is lost, the refresh token of X the server would use
\* next was not used before, even if the operator connects an account meanwhile
\* (refreshXToken, applyStoredXTokens).
THEOREM RefreshTokenIsUnused ==
  ASSUME "answer_lost" \notin CredentialFaults
  PROVE  CredentialSpec => []TokenIsUnused
<1>1. CredentialInit => UnusedInv
  BY CredentialStarts
<1>2. CredentialTyped /\ UnusedInv /\ [CredentialNext]_credentialVars => UnusedInv'
  BY UnusedStep
<1>3. CredentialTyped /\ UnusedInv => TokenIsUnused
  BY UnusedIsEnough
<1> QED BY <1>1, <1>2, <1>3, CredentialsTyped, PTL DEF CredentialSpec

\* Without any of the faults, both (renewMetaTokens, refreshXToken).
THEOREM CredentialsAreKept ==
  ASSUME CredentialFaults = {}
  PROVE  CredentialSpec => [](CredentialTypeOK /\ CredentialHolds)
<1>1. /\ "race" \notin CredentialFaults /\ "answer_lost" \notin CredentialFaults
      /\ "env_edited" \notin CredentialFaults
  OBVIOUS
<1>2. CredentialSpec => []AccountIsChosen
  BY <1>1, ChosenAccountIsUsed
<1>3. CredentialSpec => []TokenIsUnused
  BY <1>1, RefreshTokenIsUnused
<1>4. AccountIsChosen /\ TokenIsUnused => CredentialHolds
  BY DEF CredentialHolds
<1> QED BY <1>2, <1>3, <1>4, CredentialsAreTyped, PTL

-----------------------------------------------------------------------------
-----------------------------------------------------------------------------
(* Credential breaker *)

\* Every threshold, pause, cooldown and budget, any number of deliveries and any length
\* of time.  Only a few operators write the breaker's row, the alert or the probe's
\* throttle, so the argument goes by them: what Refused, Answered and Pinged do to each
\* part of the invariant is a lemma, and the actions only have to be told apart by the
\* operator they use.

Gauge == [row: BOOLEAN, streak: Nat, until: Nat, ping: Nat, answer: Nat]

\* The streak counts what was refused since the last answer, and from the threshold
\* on the pause runs from the last refusal.
GaugeFollows(g) ==
  /\ g.streak = ledger.refusals
  /\ ~g.row => g.streak = 0
  /\ g.streak < Threshold => g.until = 0
  /\ g.streak >= Threshold => g.until = ledger.refused + Pause

\* The throttle remembers the last probe, less the rest it was spared.
ProbeRests ==
  /\ rounds.probed # 0 => gauge.ping # 0 /\ gauge.ping + PingEvery = rounds.probed + rounds.rest
  /\ ~rounds.rushed

\* An event that was recorded is unacknowledged or was alerted of within a cooldown.
AlertFollows ==
  /\ bulletin.recorded <= instant /\ ledger.tripped <= instant
  /\ bulletin.recorded # 0 =>
       \/ bulletin.pending > 0
       \/ bulletin.alerted # 0 /\ bulletin.alerted + AlertQuiet >= bulletin.recorded
  /\ TripIsTold

BreakerInv == BreakerTypeOK /\ GaugeFollows(gauge) /\ ProbeRests /\ AlertFollows

-----------------------------------------------------------------------------
(* Initial states *)

LEMMA BreakerStarts == BreakerInit => BreakerInv
<1> SUFFICES ASSUME BreakerInit PROVE BreakerInv
  OBVIOUS
<1>1. BreakerTypeOK
  BY BreakerAssumption DEF BreakerInit, BreakerTypeOK, FirstInstant, Parcel
<1>2. GaugeFollows(gauge)
  BY BreakerAssumption DEF BreakerInit, GaugeFollows
<1>3. ProbeRests /\ AlertFollows
  BY BreakerAssumption DEF BreakerInit, ProbeRests, AlertFollows, TripIsTold, FirstInstant
<1> QED BY <1>1, <1>2, <1>3 DEF BreakerInv

-----------------------------------------------------------------------------
(* What is recorded of one answer *)

Times ==
  /\ instant \in Nat /\ instant >= PingEvery
  /\ Threshold \in Nat /\ Threshold > 0 /\ Pause \in Nat /\ AlertQuiet \in Nat
  /\ PingRetry \in Nat /\ PingRetry > 0 /\ PingEvery \in Nat /\ PingEvery > PingRetry

LEMMA TimesType == BreakerTypeOK => Times
<1>1. \A c \in {Threshold, Pause, PingRetry, AlertQuiet, Tries, PartialTries} : c \in Nat /\ c > 0
  BY BreakerAssumption
<1> QED BY <1>1, BreakerAssumption DEF BreakerTypeOK, Times, FirstInstant

\* What a step does to the breaker's row, the ledger and the bulletin.
Noted(g) == RecordFailure(g) \/ RecordSuccess(g) \/ (gauge' = g /\ UNCHANGED <<bulletin, ledger>>)

LEMMA RecordedType ==
  ASSUME BreakerTypeOK, NEW g \in Gauge, Noted(g)
  PROVE  /\ gauge' \in Gauge /\ gauge'.ping = g.ping
         /\ bulletin' \in [pending: Nat, recorded: Nat, alerted: Nat]
         /\ ledger' \in [refusals: Nat, refused: Nat, tripped: Nat, patient: BOOLEAN]
<1>1. Times
  BY TimesType
<1>2. CASE RecordFailure(g)
  <2>1. gauge' = Refused(g) /\ g.streak + 1 \in Nat /\ instant + Pause \in Nat
    BY <1>1, <1>2 DEF RecordFailure, Gauge, Times
  <2>4. gauge' \in Gauge /\ gauge'.ping = g.ping
    BY <2>1 DEF Refused, Gauge
  <2>2. bulletin' \in [pending: Nat, recorded: Nat, alerted: Nat]
    <3>1. bulletin' \in {bulletin, [bulletin EXCEPT !.pending = @ + 1, !.recorded = instant]}
      BY <1>2 DEF RecordFailure
    <3>2. bulletin.pending + 1 \in Nat /\ bulletin \in [pending: Nat, recorded: Nat, alerted: Nat]
      BY DEF BreakerTypeOK
    <3> QED BY <1>1, <3>1, <3>2 DEF Times
  <2>3. ledger' \in [refusals: Nat, refused: Nat, tripped: Nat, patient: BOOLEAN]
    <3>1. PICK last \in {instant, ledger.tripped} :
            ledger' = [ledger EXCEPT !.refusals = @ + 1, !.refused = instant, !.tripped = last]
      BY <1>2 DEF RecordFailure
    <3>2. /\ ledger.refusals + 1 \in Nat /\ last \in Nat
          /\ ledger \in [refusals: Nat, refused: Nat, tripped: Nat, patient: BOOLEAN]
      BY <1>1, <3>1 DEF BreakerTypeOK, Times
    <3> QED BY <1>1, <3>1, <3>2 DEF Times
  <2> QED BY <2>2, <2>3, <2>4
<1>3. CASE RecordSuccess(g)
  BY <1>1, <1>3 DEF RecordSuccess, Answered, Gauge, BreakerTypeOK, Times
<1>4. CASE gauge' = g /\ UNCHANGED <<bulletin, ledger>>
  BY <1>4 DEF BreakerTypeOK
<1> QED BY <1>2, <1>3, <1>4 DEF Noted

LEMMA RecordedFollows ==
  ASSUME BreakerTypeOK, NEW g \in Gauge, GaugeFollows(g), Noted(g)
  PROVE  GaugeFollows(gauge)'
<1>1. CASE RecordFailure(g)
  <2>1. /\ gauge' = Refused(g) /\ ledger'.refusals = ledger.refusals + 1 /\ ledger'.refused = instant
    BY <1>1 DEF RecordFailure, BreakerTypeOK
  <2> QED BY <2>1, TimesType, BreakerAssumption DEF GaugeFollows, Refused, Gauge, BreakerTypeOK, Times
<1>2. CASE RecordSuccess(g)
  <2>1. gauge' = Answered(g) /\ ledger'.refusals = 0 /\ ledger'.refused = ledger.refused
    BY <1>2 DEF RecordSuccess, BreakerTypeOK
  <2> QED BY <2>1, BreakerAssumption DEF GaugeFollows, Answered, Gauge
<1>3. CASE gauge' = g /\ UNCHANGED <<bulletin, ledger>>
  BY <1>3 DEF GaugeFollows
<1> QED BY <1>1, <1>2, <1>3 DEF Noted

LEMMA RecordedIsTold ==
  ASSUME BreakerTypeOK, NEW g \in Gauge, AlertFollows, Noted(g), instant' = instant
  PROVE  AlertFollows'
<1>1. Times
  BY TimesType
<1>2. CASE RecordFailure(g)
  <2> DEFINE trips == g.streak + 1 = Threshold
             fresh == bulletin.recorded = 0 \/ instant - bulletin.recorded > Pause
  <2>1. ledger'.tripped = IF trips THEN instant ELSE ledger.tripped
    BY <1>2 DEF RecordFailure, BreakerTypeOK
  <2>2. CASE trips /\ fresh
    <3>1. bulletin'.pending = bulletin.pending + 1 /\ bulletin'.recorded = instant
      BY <1>2, <2>2 DEF RecordFailure, BreakerTypeOK
    <3> QED BY <1>1, <2>1, <2>2, <3>1 DEF AlertFollows, TripIsTold, BreakerTypeOK, Times
  <2>3. CASE ~(trips /\ fresh)
    <3>1. bulletin' = bulletin
      BY <1>2, <2>3 DEF RecordFailure
    <3>2. TripIsTold'
      BY <1>1, <2>1, <2>3, <3>1, BreakerAssumption DEF AlertFollows, TripIsTold, BreakerTypeOK, Times
    <3> QED BY <1>1, <2>1, <3>1, <3>2 DEF AlertFollows, BreakerTypeOK, Times
  <2> QED BY <2>2, <2>3
<1>3. CASE RecordSuccess(g)
  BY <1>3 DEF RecordSuccess, AlertFollows, TripIsTold, BreakerTypeOK
<1>4. CASE gauge' = g /\ UNCHANGED <<bulletin, ledger>>
  BY <1>4 DEF AlertFollows, TripIsTold
<1> QED BY <1>2, <1>3, <1>4 DEF Noted

-----------------------------------------------------------------------------
(* The actions *)

\* An answer that is recorded, whoever asked, or nothing recorded at all.
LEMMA RecordedKeeps ==
  ASSUME BreakerInv, Noted(gauge), UNCHANGED <<instant, rounds>>,
         parcels' \in [Deliveries -> Parcel], callers' \subseteq {"sweep", "probe"}
  PROVE  BreakerInv'
<1>1. gauge \in Gauge
  BY DEF BreakerInv, BreakerTypeOK, Gauge
<1>2. BreakerTypeOK'
  BY <1>1, RecordedType DEF BreakerInv, BreakerTypeOK, Gauge
<1>3. GaugeFollows(gauge)'
  BY <1>1, RecordedFollows DEF BreakerInv
<1>4. ProbeRests'
  BY <1>1, RecordedType DEF BreakerInv, ProbeRests
<1>5. AlertFollows'
  BY <1>1, RecordedIsTold DEF BreakerInv
<1> QED BY <1>2, <1>3, <1>4, <1>5 DEF BreakerInv

LEMMA RowsType ==
  ASSUME BreakerTypeOK, NEW p \in Deliveries
  PROVE  /\ parcels[p] \in Parcel /\ parcels[p].spent + 1 \in Nat /\ instant + 1 \in Nat
         /\ \A status \in {"queued", "calling", "published", "failed", "in_doubt"} :
              [parcels EXCEPT ![p].status = status] \in [Deliveries -> Parcel]
BY TimesType DEF BreakerTypeOK, Parcel, Times

\* The row after an attempt was spent.
Spent(p, status, due) ==
  [parcels EXCEPT ![p].spent = @ + 1, ![p].status = status, ![p].due = due, ![p].tried = instant]

LEMMA SpentType ==
  ASSUME BreakerTypeOK, NEW p \in Deliveries, NEW status \in {"queued", "failed"},
         NEW due \in {instant + 1, parcels[p].due}
  PROVE  Spent(p, status, due) \in [Deliveries -> Parcel]
<1> DEFINE row == [parcels[p] EXCEPT !.spent = @ + 1, !.status = status, !.due = due, !.tried = instant]
<1>1. parcels \in [Deliveries -> Parcel] /\ instant \in Nat
  BY TimesType DEF BreakerTypeOK, Times
<1>2. due \in Nat /\ parcels[p].spent + 1 \in Nat /\ parcels[p] \in Parcel
  BY <1>1, RowsType DEF Parcel
<1>3. row \in Parcel
  BY <1>1, <1>2 DEF Parcel
<1>4. Spent(p, status, due) = [parcels EXCEPT ![p] = row]
  BY <1>1, <1>2 DEF Spent, Parcel
<1> HIDE DEF row
<1> QED BY <1>1, <1>3, <1>4

LEMMA TriesLaterType ==
  ASSUME BreakerTypeOK, NEW p \in Deliveries, TriesLater(p)
  PROVE  parcels' \in [Deliveries -> Parcel]
<1> DEFINE again == parcels[p].spent + 1 < Tries
<1>1. CASE again
  <2>1. parcels' = Spent(p, "queued", instant + 1)
    BY <1>1 DEF TriesLater, Spent
  <2> QED BY <2>1, SpentType
<1>2. CASE ~again
  <2>1. parcels' = Spent(p, "failed", parcels[p].due)
    BY <1>2, RowsType DEF TriesLater, Spent, BreakerTypeOK, Parcel
  <2> QED BY <2>1, SpentType
<1> QED BY <1>1, <1>2

LEMMA SettlesType ==
  ASSUME BreakerTypeOK, NEW p \in Deliveries,
         NEW status \in {"queued", "calling", "published", "failed", "in_doubt"}, Settles(p, status)
  PROVE  parcels' \in [Deliveries -> Parcel]
BY RowsType DEF Settles

LEMMA TakeDeliveryKeeps ==
  ASSUME BreakerInv, NEW p \in Deliveries, TakeDelivery(p)
  PROVE  BreakerInv'
<1>1. BreakerTypeOK /\ Noted(gauge) /\ UNCHANGED <<instant, rounds, callers>>
  BY DEF BreakerInv, TakeDelivery, NothingRecorded, Noted
<1>2. CASE TriesLater(p)
  BY <1>1, <1>2, TriesLaterType, RecordedKeeps DEF BreakerTypeOK
<1>3. CASE parcels' = [parcels EXCEPT ![p].status = "calling", ![p].since = instant]
  <2>1. [parcels[p] EXCEPT !.status = "calling", !.since = instant] \in Parcel
    BY <1>1, RowsType, TimesType DEF Parcel, Times
  <2>2. parcels' \in [Deliveries -> Parcel]
    BY <1>1, <1>3, <2>1 DEF BreakerTypeOK
  <2> QED BY <1>1, <2>2, RecordedKeeps DEF BreakerTypeOK
<1> QED BY <1>2, <1>3 DEF TakeDelivery

LEMMA HandsBackHalfKeeps ==
  ASSUME BreakerInv, NEW p \in Deliveries, HandsBackHalf(p), UNCHANGED <<instant, callers, rounds>>
  PROVE  BreakerInv'
<1>1. BreakerTypeOK
  BY DEF BreakerInv
<1>2. parcels' \in [Deliveries -> Parcel]
  <2> DEFINE again == parcels[p].spent + 1 < PartialTries /\ gauge.answer <= parcels[p].since
  <2>1. CASE again
    <3>1. parcels' = Spent(p, "queued", instant + 1)
      BY <2>1 DEF HandsBackHalf, Spent
    <3> QED BY <1>1, <3>1, SpentType
  <2>2. CASE ~again
    <3>1. parcels' = Spent(p, "failed", parcels[p].due)
      BY <1>1, <2>2, RowsType DEF HandsBackHalf, Spent, BreakerTypeOK, Parcel
    <3> QED BY <1>1, <3>1, SpentType
  <2> QED BY <2>1, <2>2
<1>3. CASE RecordFailure(gauge)
  BY <1>1, <1>2, <1>3, RecordedKeeps DEF Noted, BreakerTypeOK
<1>4. CASE UNCHANGED <<gauge, bulletin>> /\ ledger' \in {[ledger EXCEPT !.patient = b] : b \in BOOLEAN}
  <2>1. /\ ledger' \in [refusals: Nat, refused: Nat, tripped: Nat, patient: BOOLEAN]
        /\ ledger'.refusals = ledger.refusals /\ ledger'.refused = ledger.refused
        /\ ledger'.tripped = ledger.tripped
    BY <1>1, <1>4 DEF BreakerTypeOK
  <2>2. BreakerTypeOK'
    BY <1>1, <1>2, <1>4, <2>1 DEF BreakerTypeOK
  <2>3. GaugeFollows(gauge)' /\ ProbeRests' /\ AlertFollows'
    BY <1>4, <2>1 DEF BreakerInv, GaugeFollows, ProbeRests, AlertFollows, TripIsTold
  <2> QED BY <2>2, <2>3 DEF BreakerInv
<1>5. /\ ledger.patient \in BOOLEAN
      /\ \A x : (ledger.patient \/ x) \in BOOLEAN
  BY <1>1 DEF BreakerTypeOK
<1> QED BY <1>3, <1>4, <1>5 DEF HandsBackHalf

LEMMA DeliveryAnsweredKeeps ==
  ASSUME BreakerInv, NEW p \in Deliveries, DeliveryAnswered(p)
  PROVE  BreakerInv'
<1>1. BreakerTypeOK /\ UNCHANGED <<instant, callers, rounds>>
  BY DEF BreakerInv, DeliveryAnswered
<1>2. CASE HandsBackHalf(p)
  BY <1>1, <1>2, HandsBackHalfKeeps
<1>3. CASE ~HandsBackHalf(p)
  <2>1. Noted(gauge)
    BY <1>3 DEF DeliveryAnswered, Noted, NothingRecorded
  <2>2. parcels' \in [Deliveries -> Parcel]
    <3>1. CASE TriesLater(p)
      BY <1>1, <3>1, TriesLaterType
    <3>2. CASE Settles(p, "published") \/ Settles(p, "failed") \/ Settles(p, "queued") \/ Settles(p, "in_doubt")
      BY <1>1, <3>2, SettlesType
    <3> QED BY <1>3, <3>1, <3>2 DEF DeliveryAnswered
  <2> QED BY <1>1, <2>1, <2>2, RecordedKeeps DEF BreakerTypeOK
<1> QED BY <1>2, <1>3

LEMMA SweepKeeps == ASSUME BreakerInv, SweepAsks \/ SweepAnswered PROVE BreakerInv'
<1>1. BreakerTypeOK
  BY DEF BreakerInv
<1>2. CASE SweepAsks
  BY <1>1, <1>2, RecordedKeeps DEF SweepAsks, Noted, NothingRecorded, BreakerTypeOK
<1>3. CASE SweepAnswered
  <2>1. Noted(gauge) /\ UNCHANGED <<instant, rounds>> /\ callers' \subseteq {"sweep", "probe"}
    BY <1>1, <1>3 DEF SweepAnswered, Noted, NothingRecorded, BreakerTypeOK
  <2>2. parcels' \in [Deliveries -> Parcel]
    <3>1. CASE parcels' = parcels
      BY <1>1, <3>1 DEF BreakerTypeOK
    <3>2. CASE \E p \in Deliveries : Settles(p, "published")
      BY <1>1, <3>2, SettlesType
    <3> QED BY <1>3, <3>1, <3>2 DEF SweepAnswered
  <2> QED BY <2>1, <2>2, RecordedKeeps
<1> QED BY <1>2, <1>3

LEMMA ProbeAsksKeeps == ASSUME BreakerInv, ProbeAsks PROVE BreakerInv'
<1>1. BreakerTypeOK /\ Times
  BY TimesType DEF BreakerInv
<1>2. UNCHANGED <<gauge, bulletin, ledger, instant, parcels>> /\ callers' \subseteq {"sweep", "probe"}
  BY <1>1 DEF ProbeAsks, NothingRecorded, BreakerTypeOK
<1>3. ~(rounds.probed # 0 /\ instant - rounds.probed < rounds.rest)
  BY <1>1 DEF ProbeAsks, ProbeDue, BreakerInv, ProbeRests, BreakerTypeOK, Times
<1>4. rounds' = rounds
  BY <1>1, <1>3 DEF ProbeAsks, BreakerTypeOK
<1> QED BY <1>1, <1>2, <1>4, RecordedKeeps DEF Noted, BreakerTypeOK

\* The probe writes its own time first and its answer after it.
LEMMA PingedKeeps ==
  ASSUME BreakerInv, NEW back \in {0, PingEvery - PingRetry}
  PROVE  /\ Pinged(gauge, back) \in Gauge /\ GaugeFollows(Pinged(gauge, back))
         /\ Pinged(gauge, back).ping = instant - back /\ instant - back \in Nat \ {0}
<1>1. BreakerTypeOK /\ Times
  BY TimesType DEF BreakerInv
<1>2. instant - back \in Nat \ {0}
  BY <1>1 DEF Times
<1>3. gauge \in Gauge
  BY <1>1 DEF BreakerTypeOK, Gauge
<1> QED BY <1>1, <1>2, <1>3 DEF Pinged, Gauge, BreakerInv, GaugeFollows

LEMMA ProbedKeeps ==
  ASSUME BreakerInv, UNCHANGED <<instant, parcels>>, callers' \subseteq {"sweep", "probe"},
         NEW back \in {0, PingEvery - PingRetry}, Noted(Pinged(gauge, back)),
         NEW rest \in Nat, rest = PingEvery - back,
         rounds' = [rounds EXCEPT !.probed = instant, !.rest = rest]
  PROVE  BreakerInv'
<1>1. BreakerTypeOK /\ Times
  BY TimesType DEF BreakerInv
<1> DEFINE g == Pinged(gauge, back)
<1>3. g \in Gauge /\ GaugeFollows(g) /\ g.ping = instant - back /\ instant - back \in Nat \ {0}
  BY PingedKeeps
<1> HIDE DEF g
<1>4. /\ gauge' \in Gauge /\ gauge'.ping = g.ping
      /\ bulletin' \in [pending: Nat, recorded: Nat, alerted: Nat]
      /\ ledger' \in [refusals: Nat, refused: Nat, tripped: Nat, patient: BOOLEAN]
  BY <1>1, <1>3, RecordedType DEF g
<1>5. GaugeFollows(gauge)'
  BY <1>1, <1>3, RecordedFollows DEF g
<1>6. AlertFollows'
  BY <1>1, <1>3, RecordedIsTold DEF g, BreakerInv
<1>7. /\ rounds' \in [probed: Nat, rest: Nat, rushed: BOOLEAN] /\ rounds'.probed = instant
      /\ rounds'.rest = rest /\ rounds'.rushed = rounds.rushed
  BY <1>1 DEF BreakerTypeOK, Times
<1>8. ProbeRests'
  BY <1>1, <1>3, <1>4, <1>7 DEF BreakerInv, ProbeRests, Times
<1>9. BreakerTypeOK'
  BY <1>1, <1>4, <1>7 DEF BreakerTypeOK, Gauge
<1> QED BY <1>5, <1>6, <1>8, <1>9 DEF BreakerInv

LEMMA ProbeAnsweredKeeps == ASSUME BreakerInv, ProbeAnswered PROVE BreakerInv'
<1>1. Times /\ UNCHANGED <<instant, parcels>> /\ callers' \subseteq {"sweep", "probe"}
  BY TimesType DEF BreakerInv, ProbeAnswered, BreakerTypeOK
<1>2. /\ PingEvery \in Nat /\ PingEvery = PingEvery - 0
      /\ PingRetry \in Nat /\ PingRetry = PingEvery - (PingEvery - PingRetry)
  BY <1>1 DEF Times
<1>3. CASE /\ RecordSuccess(Pinged(gauge, 0)) \/ RecordFailure(Pinged(gauge, 0))
           /\ rounds' = [rounds EXCEPT !.probed = instant, !.rest = PingEvery]
  <2>1. Noted(Pinged(gauge, 0))
    BY <1>3 DEF Noted
  <2> QED BY <1>1, <1>2, <1>3, <2>1, ProbedKeeps
<1>4. CASE /\ gauge' = Pinged(gauge, PingEvery - PingRetry) /\ UNCHANGED <<bulletin, ledger>>
           /\ rounds' = [rounds EXCEPT !.probed = instant, !.rest = PingRetry]
  <2>1. Noted(Pinged(gauge, PingEvery - PingRetry))
    BY <1>4 DEF Noted
  <2> QED BY <1>1, <1>2, <1>4, <2>1, ProbedKeeps
<1> QED BY <1>3, <1>4 DEF ProbeAnswered

LEMMA RegisterTargetKeeps == ASSUME BreakerInv, RegisterTarget PROVE BreakerInv'
<1>1. gauge' = [gauge EXCEPT !.row = TRUE] /\ UNCHANGED <<instant, parcels, callers, bulletin, ledger, rounds>>
  BY DEF RegisterTarget
<1>2. BreakerTypeOK'
  BY <1>1 DEF BreakerInv, BreakerTypeOK
<1>3. GaugeFollows(gauge)' /\ ProbeRests' /\ AlertFollows'
  BY <1>1 DEF BreakerInv, BreakerTypeOK, GaugeFollows, ProbeRests, AlertFollows, TripIsTold
<1> QED BY <1>2, <1>3 DEF BreakerInv

LEMMA DeliverAlertKeeps == ASSUME BreakerInv, DeliverAlert PROVE BreakerInv'
<1>1. BreakerTypeOK /\ Times /\ UNCHANGED <<instant, gauge, parcels, callers, ledger, rounds>>
  BY TimesType DEF BreakerInv, DeliverAlert
<1> DEFINE cooling == bulletin.alerted # 0 /\ instant - bulletin.alerted < AlertQuiet
<1>2. PICK alerted \in {instant, bulletin.alerted} :
        /\ bulletin' = [bulletin EXCEPT !.pending = @ - 1, !.alerted = alerted]
        /\ IF cooling THEN alerted = bulletin.alerted ELSE alerted = instant
  BY DEF DeliverAlert
<1>3. bulletin.pending > 0 /\ alerted \in Nat
  BY <1>1, <1>2 DEF DeliverAlert, BreakerTypeOK, Times
<1>4. /\ bulletin' \in [pending: Nat, recorded: Nat, alerted: Nat]
      /\ bulletin'.recorded = bulletin.recorded /\ bulletin'.alerted = alerted
  <2>1. bulletin.pending - 1 \in Nat /\ bulletin \in [pending: Nat, recorded: Nat, alerted: Nat]
    BY <1>1, <1>3 DEF BreakerTypeOK
  <2> QED BY <1>2, <1>3, <2>1
<1>5. alerted # 0 /\ alerted + AlertQuiet >= instant
  BY <1>1, <1>2, <1>3 DEF BreakerTypeOK, Times
<1>6. AlertFollows'
  BY <1>1, <1>3, <1>4, <1>5 DEF BreakerInv, AlertFollows, TripIsTold, BreakerTypeOK, Times
<1>7. BreakerTypeOK' /\ GaugeFollows(gauge)' /\ ProbeRests'
  BY <1>1, <1>4 DEF BreakerInv, BreakerTypeOK, GaugeFollows, ProbeRests
<1> QED BY <1>6, <1>7 DEF BreakerInv

LEMMA KillProcessKeeps == ASSUME BreakerInv, KillProcess PROVE BreakerInv'
<1>1. BreakerTypeOK /\ Noted(gauge) /\ UNCHANGED <<instant, rounds>>
  BY DEF BreakerInv, KillProcess, NothingRecorded, Noted
<1>2. CASE parcels' = parcels
  BY <1>1, <1>2, RecordedKeeps DEF KillProcess, BreakerTypeOK
<1>3. CASE \E p \in Deliveries : \E status \in {"in_doubt", "queued"} :
             parcels' = [parcels EXCEPT ![p].status = status, ![p].spent = Counted(p)]
  <2>1. PICK p \in Deliveries, status \in {"in_doubt", "queued"} :
          parcels' = [parcels EXCEPT ![p].status = status, ![p].spent = Counted(p)]
    BY <1>3
  <2>2. parcels[p] \in Parcel /\ Counted(p) \in Nat
    BY <1>1, RowsType DEF Counted, Parcel
  <2>3. [parcels[p] EXCEPT !.status = status, !.spent = Counted(p)] \in Parcel
    BY <2>2 DEF Parcel
  <2>4. parcels' \in [Deliveries -> Parcel]
    BY <1>1, <2>1, <2>3 DEF BreakerTypeOK
  <2> QED BY <1>1, <2>4, RecordedKeeps DEF KillProcess
<1> QED BY <1>2, <1>3 DEF KillProcess

LEMMA TimePassesKeeps == ASSUME BreakerInv, TimePasses PROVE BreakerInv'
<1>1. /\ BreakerTypeOK /\ Times /\ instant' = instant + 1 /\ instant < LastInstant
      /\ UNCHANGED <<gauge, parcels, callers, bulletin, ledger, rounds>>
  BY TimesType DEF BreakerInv, TimePasses
<1>2. BreakerTypeOK'
  BY <1>1, BreakerAssumption DEF BreakerTypeOK, FirstInstant, Times
<1>3. GaugeFollows(gauge)' /\ ProbeRests' /\ AlertFollows'
  BY <1>1 DEF BreakerInv, BreakerTypeOK, GaugeFollows, ProbeRests, AlertFollows, TripIsTold, Times
<1> QED BY <1>2, <1>3 DEF BreakerInv

-----------------------------------------------------------------------------
(* The theorems *)

LEMMA BreakerKeeps == BreakerInv /\ [BreakerNext]_breakerVars => BreakerInv'
<1> SUFFICES ASSUME BreakerInv, [BreakerNext]_breakerVars PROVE BreakerInv'
  OBVIOUS
<1>1. CASE UNCHANGED breakerVars
  BY <1>1 DEF breakerVars, BreakerInv, BreakerTypeOK, GaugeFollows, ProbeRests, AlertFollows, TripIsTold
<1>2. CASE \E p \in Deliveries : TakeDelivery(p) \/ DeliveryAnswered(p)
  BY <1>2, TakeDeliveryKeeps, DeliveryAnsweredKeeps
<1>3. CASE SweepAsks \/ SweepAnswered
  BY <1>3, SweepKeeps
<1>4. CASE ProbeAsks
  BY <1>4, ProbeAsksKeeps
<1>5. CASE ProbeAnswered
  BY <1>5, ProbeAnsweredKeeps
<1>6. CASE RegisterTarget
  BY <1>6, RegisterTargetKeeps
<1>7. CASE DeliverAlert
  BY <1>7, DeliverAlertKeeps
<1>8. CASE KillProcess
  BY <1>8, KillProcessKeeps
<1>9. CASE TimePasses
  BY <1>9, TimePassesKeeps
<1> QED BY <1>1, <1>2, <1>3, <1>4, <1>5, <1>6, <1>7, <1>8, <1>9 DEF BreakerNext

\* Every reachable state of the breaker satisfies the invariant.
THEOREM BreakerInductive == BreakerSpec => []BreakerInv
BY BreakerStarts, BreakerKeeps, PTL DEF BreakerSpec

\* Whatever deliveries, the sweep and the probe are answered, in whatever order and
\* with whatever deaths in between: the target is paused for a Pause after Threshold
\* refusals, never for anything else, its probes keep their distance, and a trip is
\* alerted unless an alert within the two cooldowns stands for it.
THEOREM BreakerIsSound == BreakerSpec => [](BreakerTypeOK /\ BreakerHolds)
<1>1. BreakerInv => BreakerTypeOK /\ BreakerHolds
  <2> SUFFICES ASSUME BreakerInv PROVE BreakerTypeOK /\ BreakerHolds
    OBVIOUS
  <2>1. BreakerTypeOK /\ Times
    BY TimesType DEF BreakerInv
  <2>2. PausedAfterRefusals /\ OnlyRefusalsPause
    BY <2>1 DEF BreakerInv, GaugeFollows, PausedAfterRefusals, OnlyRefusalsPause, Blocked, BreakerTypeOK, Times
  <2>3. ProbesAreSpaced /\ TripIsTold
    BY DEF BreakerInv, ProbeRests, AlertFollows, ProbesAreSpaced
  <2> QED BY <2>1, <2>2, <2>3 DEF BreakerHolds
<1> QED BY <1>1, BreakerInductive, PTL

-----------------------------------------------------------------------------
-----------------------------------------------------------------------------
(* Deployments *)

\* What is running follows what was written, what was written what was asked, and what is
\* recorded what answered: each step of an agent is told by how far it has Reached.  The
\* remote host only ever works for the promotion the main one has under way (Followed).

TargetRecord == [current: Release, previous: Release]

OpSteps == {"idle", "activate", "written", "pulled", "replaced", "asked", "activated", "failed"}

DeployOperation ==
  [pc: OpSteps, kind: {"deploy", "rollback"}, t: DeployTargets, release: Release,
   before: TargetRecord, previous: Release, undo: BOOLEAN, tries: 0 .. Attempts]

DeployTyped ==
  /\ env \in [Compose -> Release] /\ running \in [Compose -> Release]
  /\ record \in [DeployTargets -> TargetRecord]
  /\ op \in [Agents -> DeployOperation]
  /\ reply \in {"none", "ok", "rolled_back", "broken"}
  /\ promoting \in [t: DeployTargets, release: Release]
  /\ proven \in [DeployTargets -> SUBSET Releases] /\ promoted \subseteq Releases
  /\ trouble \subseteq DeployTargets /\ ops \in 0 .. MaxOps /\ crashes \in 0 .. MaxCrashes

\* An agent works on targets of its own, and only "vm" is asked of the other.
OpsShaped ==
  /\ \/ op["main"].t \in {"alex", "maru"} /\ op["main"].pc # "asked"
     \/ op["main"].t = "vm" /\ op["main"].pc \in {"activate", "asked", "activated", "failed"}
  /\ op["remote"].pc # "asked" /\ op["remote"].kind = "deploy"
  /\ op["remote"].t = "vm_local" \/ op["remote"].pc = "idle"

OpSound(o) ==
  /\ o.pc # "idle" => o.release # 0
  /\ o.undo => o.previous # 0
  /\ o.kind = "rollback" => ~o.undo /\ o.release = o.before.previous
  /\ o.pc \in {"activate", "asked"} => o.tries < Attempts

PromotionSound ==
  promoting = NoPromotion \/ (promoting.t \in {"maru", "vm"} /\ promoting.release \in Releases)

Reached(g) ==
  op[g].t \in Compose =>
    /\ op[g].pc \in {"written", "pulled", "replaced", "activated"} => env[op[g].t] = Goal(g)
    /\ op[g].pc \in {"replaced", "activated"} => running[op[g].t] = Goal(g)

Works(t) == op[AgentOf(t)].pc # "idle" /\ op[AgentOf(t)].t = t

Agrees(t, h) == record[t].current = running[h] /\ record[t].current = env[h]

Resting(t) == ~Works(t) /\ t \notin trouble /\ record[t].current # 0

HostRuns(r) == op["remote"].pc = "idle" /\ running["vm_local"] = r /\ env["vm_local"] = r

Followed ==
  /\ op["main"].pc = "asked" =>
       /\ op["remote"].pc # "idle" => reply = "none" /\ op["remote"].release = Goal("main")
       /\ reply = "ok" => HostRuns(Goal("main"))
  /\ op["main"].t = "vm" /\ op["main"].pc = "activated" => HostRuns(Goal("main"))
  /\ op["remote"].pc # "idle" => "vm" \in trouble \/ Works("vm")

DeployInv ==
  /\ DeployTyped /\ OpsShaped /\ PromotionSound /\ Followed
  /\ \A g \in Agents : OpSound(op[g]) /\ Reached(g)
  /\ \A t \in Compose : Resting(t) => Agrees(t, t)
  /\ Resting("vm") => Agrees("vm", "vm_local")

Healthy(rec, t) == rec.current \in proven[t] \cup {0} /\ rec.previous \in proven[t] \cup {0}

HealthInv ==
  /\ \A t \in DeployTargets : Healthy(record[t], t)
  /\ \A g \in Agents :
       /\ Healthy(op[g].before, op[g].t) /\ op[g].previous \in proven[op[g].t] \cup {0}
       /\ op[g].pc = "activated" => Goal(g) \in proven[op[g].t]
  /\ promoting = NoPromotion \/ promoting.release \in proven["alex"]
  /\ promoted \subseteq proven["alex"]

LEMMA DeployingShape ==
  ASSUME DeployTyped, NEW t \in DeployTargets, NEW r \in Releases
  PROVE  LET d == Deploying(t, r) IN
         /\ d \in DeployOperation
         /\ d.pc = "activate" /\ d.kind = "deploy" /\ d.t = t /\ d.release = r
         /\ d.before = record[t] /\ ~d.undo /\ d.tries = 0
<1>1. record[t] \in TargetRecord
  BY DEF DeployTyped
<1>2. CurrentImage(t) \in Release
  BY <1>1 DEF CurrentImage, DeployTyped, TargetRecord, DeployTargets
<1>3. Displaced(t) \in Release
  BY <1>1, <1>2 DEF Displaced, TargetRecord
<1>4. /\ Idle \in DeployOperation
      /\ Idle = [pc |-> "idle", kind |-> "deploy", t |-> "alex", release |-> 0, before |-> NoRecord,
                 previous |-> 0, undo |-> FALSE, tries |-> 0]
  BY DeployAssumption DEF Idle, DeployOperation, OpSteps, DeployTargets, Compose, Release, NoRecord,
     TargetRecord
<1>5. (IF record[t].current = r THEN record[t].previous ELSE Displaced(t)) \in Release
  BY <1>1, <1>3 DEF TargetRecord
<1>6. r \in Release
  BY DEF Release
<1>7. QED
  BY <1>1, <1>4, <1>5, <1>6 DEF Deploying, DeployOperation, OpSteps

LEMMA IdleShape ==
  /\ Idle \in DeployOperation
  /\ Idle.pc = "idle" /\ Idle.kind = "deploy" /\ Idle.t = "alex" /\ Idle.before = NoRecord
  /\ ~Idle.undo /\ Idle.previous = 0 /\ Idle.release = 0
BY DeployAssumption DEF Idle, DeployOperation, OpSteps, DeployTargets, Compose, Release, NoRecord,
   TargetRecord

LEMMA DeployStep ==
  ASSUME DeployInv, NEW r \in Releases, Deploy(r)
  PROVE  DeployInv'
<1>1. DeployTyped'
  <2>1. "alex" \in DeployTargets
    BY DEF DeployTargets, Compose
  <2>2. op' \in [Agents -> DeployOperation]
    BY <2>1, DeployingShape DEF DeployInv, Deploy, DeployTyped
  <2>3. ops' \in 0 .. MaxOps
    BY DeployAssumption DEF DeployInv, DeployTyped, Deploy, Requested
  <2>4. QED
    BY <2>2, <2>3 DEF DeployInv, DeployTyped, Deploy
<1>2. OpsShaped'
  BY DEF DeployInv, OpsShaped, Deploy, Deploying
<1>3. PromotionSound'
  BY DEF DeployInv, PromotionSound, Deploy
<1>4. Followed'
  BY DEF DeployInv, Followed, Works, Deploy, Deploying, At
<1>5. \A x \in Agents : OpSound(op[x])'
  BY DeployAssumption DEF DeployInv, OpSound, Deploy, Deploying, Idle
<1>6. \A x \in Agents : Reached(x)'
  BY DEF DeployInv, Reached, Goal, Deploy, Deploying
<1>7. \A x \in Compose : (Resting(x) => Agrees(x, x))'
  BY DEF DeployInv, Resting, Works, Agrees, Deploy, At
<1>8. (Resting("vm") => Agrees("vm", "vm_local"))'
  BY DEF DeployInv, Resting, Works, Agrees, Deploy, At
<1>9. QED
  BY <1>1, <1>2, <1>3, <1>4, <1>5, <1>6, <1>7, <1>8 DEF DeployInv

LEMMA PromoteStep ==
  ASSUME DeployInv, NEW t \in DeployTargets, NEW r \in Releases, Promote(t, r)
  PROVE  DeployInv'
<1>1. DeployTyped'
  BY DeployAssumption DEF DeployInv, Promote, Requested, DeployTyped, Release
<1>2. OpsShaped'
  BY DEF DeployInv, OpsShaped, Promote
<1>3. PromotionSound'
  BY DEF PromotionSound, Promote
<1>4. Followed'
  BY DEF DeployInv, Followed, HostRuns, Works, Goal, Promote
<1>5. \A x \in Agents : OpSound(op[x])'
  BY DEF DeployInv, Promote
<1>6. \A x \in Agents : Reached(x)'
  BY DEF DeployInv, Reached, Goal, Promote
<1>7. \A x \in Compose : (Resting(x) => Agrees(x, x))'
  BY DEF DeployInv, Resting, Works, Agrees, Promote
<1>8. (Resting("vm") => Agrees("vm", "vm_local"))'
  BY DEF DeployInv, Resting, Works, Agrees, Promote
<1>9. QED
  BY <1>1, <1>2, <1>3, <1>4, <1>5, <1>6, <1>7, <1>8 DEF DeployInv

LEMMA PromotionLocksStep ==
  ASSUME DeployInv, PromotionLocks
  PROVE  DeployInv'
<1>1. promoting.t \in {"maru", "vm"} /\ promoting.release \in Releases
  BY DEF DeployInv, PromotionSound, PromotionLocks
<1>2. op' = op \/ (At("main", "idle") /\ op' = [op EXCEPT !["main"] = Deploying(promoting.t, promoting.release)])
  BY DEF PromotionLocks
<1>3. DeployTyped'
  <2>1. promoting.t \in DeployTargets
    BY <1>1 DEF DeployTargets, Compose
  <2>2. op' \in [Agents -> DeployOperation]
    BY <1>1, <1>2, <2>1, DeployingShape DEF DeployInv, DeployTyped
  <2>3. promoted' \subseteq Releases /\ promoting' \in [t: DeployTargets, release: Release]
    BY <1>1 DEF DeployInv, DeployTyped, PromotionLocks, NoPromotion, DeployTargets, Compose, Release
  <2>4. QED
    BY <2>2, <2>3 DEF DeployInv, DeployTyped, PromotionLocks
<1>4. PromotionSound'
  BY DEF PromotionSound, PromotionLocks
<1>5. CASE op' = op
  BY <1>3, <1>4, <1>5 DEF DeployInv, PromotionLocks, OpsShaped, Followed, HostRuns, Works, Reached, Goal,
     Resting, Agrees
<1>6. CASE /\ At("main", "idle")
           /\ op' = [op EXCEPT !["main"] = Deploying(promoting.t, promoting.release)]
  <2>1. PICK d \in DeployOperation :
             /\ d.pc = "activate" /\ d.kind = "deploy" /\ d.t = promoting.t /\ d.release = promoting.release
             /\ ~d.undo /\ d.tries = 0 /\ op' = [op EXCEPT !["main"] = d]
    <3>1. promoting.t \in DeployTargets
      BY <1>1 DEF DeployTargets, Compose
    <3>2. LET d == Deploying(promoting.t, promoting.release) IN
          /\ d \in DeployOperation /\ d.pc = "activate" /\ d.kind = "deploy" /\ d.t = promoting.t
          /\ d.release = promoting.release /\ ~d.undo /\ d.tries = 0
      BY <1>1, <3>1, DeployingShape DEF DeployInv
    <3>3. QED
      BY <1>6, <3>2
  <2>2. OpsShaped'
    BY <1>1, <2>1 DEF DeployInv, DeployTyped, OpsShaped, Agents
  <2>3. Followed'
    BY <1>1, <1>6, <2>1 DEF DeployInv, Followed, Works, PromotionLocks, At
  <2>4. \A x \in Agents : OpSound(op[x])'
    BY <1>1, <2>1, DeployAssumption DEF DeployInv, DeployTyped, OpSound
  <2>5. \A x \in Agents : Reached(x)'
    BY <1>1, <2>1 DEF DeployInv, Reached, Goal, PromotionLocks
  <2>6. \A x \in Compose : (Resting(x) => Agrees(x, x))'
    BY <1>1, <1>6, <2>1 DEF DeployInv, Resting, Works, Agrees, PromotionLocks, At
  <2>7. (Resting("vm") => Agrees("vm", "vm_local"))'
    BY <1>1, <1>6, <2>1 DEF DeployInv, Resting, Works, Agrees, PromotionLocks, At
  <2>8. QED
    BY <1>3, <1>4, <2>2, <2>3, <2>4, <2>5, <2>6, <2>7 DEF DeployInv
<1>7. QED
  BY <1>2, <1>5, <1>6

LEMMA RollbackStep ==
  ASSUME DeployInv, NEW t \in DeployTargets, NEW r \in Releases, Rollback(t, r)
  PROVE  DeployInv'
<1>1. DeployTyped'
  <2>1. record[t] \in TargetRecord /\ AgentOf(t) = "main"
    BY DEF DeployInv, DeployTyped, Rollback
  <2>2. [Idle EXCEPT !.pc = "activate", !.kind = "rollback", !.t = t, !.release = record[t].previous, !.before = record[t]]
          \in DeployOperation
    BY <2>1, IdleShape DEF DeployOperation, OpSteps, TargetRecord
  <2>3. op' \in [Agents -> DeployOperation]
    BY <2>2 DEF DeployInv, Rollback, DeployTyped
  <2>4. ops' \in 0 .. MaxOps
    BY DeployAssumption DEF DeployInv, DeployTyped, Rollback, Requested
  <2>5. QED
    BY <2>3, <2>4 DEF DeployInv, DeployTyped, Rollback
<1>2. OpsShaped'
  BY DEF DeployInv, OpsShaped, Rollback, AgentOf, Compose, DeployTargets
<1>3. PromotionSound'
  BY DEF DeployInv, PromotionSound, Rollback
<1>4. Followed'
  BY DEF DeployInv, Followed, Works, Rollback, At
<1>5. \A x \in Agents : OpSound(op[x])'
  BY DeployAssumption DEF DeployInv, OpSound, Rollback, Idle
<1>6. \A x \in Agents : Reached(x)'
  BY DEF DeployInv, Reached, Goal, Rollback
<1>7. \A x \in Compose : (Resting(x) => Agrees(x, x))'
  BY DEF DeployInv, Resting, Works, Agrees, Rollback, At
<1>8. (Resting("vm") => Agrees("vm", "vm_local"))'
  BY DEF DeployInv, Resting, Works, Agrees, Rollback, At
<1>9. QED
  BY <1>1, <1>2, <1>3, <1>4, <1>5, <1>6, <1>7, <1>8 DEF DeployInv

LEMMA WriteImageStep ==
  ASSUME DeployInv, NEW g \in Agents, WriteImage(g)
  PROVE  DeployInv'
<1>1. DeployTyped'
  <2>1. Goal(g) \in Release /\ op[g] \in DeployOperation
    BY DEF DeployInv, DeployTyped, DeployOperation, Goal
  <2>2. op' \in [Agents -> DeployOperation]
    BY <2>1 DEF DeployInv, DeployTyped, WriteImage, Reach, DeployOperation, OpSteps
  <2>3. env' \in [Compose -> Release]
    BY <2>1 DEF DeployInv, DeployTyped, WriteImage
  <2>4. QED
    BY <2>2, <2>3 DEF DeployInv, DeployTyped, WriteImage
<1>2. OpsShaped'
  BY DEF DeployInv, OpsShaped, WriteImage, At, Reach, Compose
<1>3. PromotionSound'
  BY DEF DeployInv, PromotionSound, WriteImage
<1>4. Followed'
  BY DEF DeployInv, Followed, HostRuns, Works, Goal, WriteImage, At, Reach, Agents
<1>5. \A x \in Agents : OpSound(op[x])'
  BY DEF DeployInv, OpSound, WriteImage, At, Reach
<1>6. \A x \in Agents : Reached(x)'
  BY DEF DeployInv, Reached, Goal, OpsShaped, WriteImage, At, Reach, Agents, DeployTyped
<1>7. \A x \in Compose : (Resting(x) => Agrees(x, x))'
  BY DEF DeployInv, Resting, Works, Agrees, OpsShaped, WriteImage, At, Reach, Agents, AgentOf
<1>8. (Resting("vm") => Agrees("vm", "vm_local"))'
  BY DEF DeployInv, Resting, Works, Agrees, OpsShaped, Followed, WriteImage, At, Reach, Agents
<1>9. QED
  BY <1>1, <1>2, <1>3, <1>4, <1>5, <1>6, <1>7, <1>8 DEF DeployInv

LEMMA PullStep ==
  ASSUME DeployInv, NEW g \in Agents, Pull(g)
  PROVE  DeployInv'
<1>1. DeployTyped'
  BY DEF DeployInv, Pull, Reach, Agents, Compose, DeployTargets, DeployTyped, DeployOperation, OpSteps
<1>2. OpsShaped'
  BY DEF DeployInv, OpsShaped, Pull, At, Reach, Agents, Compose, DeployTyped, DeployOperation
<1>3. PromotionSound'
  BY DEF DeployInv, PromotionSound, Pull
<1>4. Followed'
  BY DEF DeployInv, Followed, HostRuns, Works, Goal, Pull, At, Reach, Agents, AgentOf, DeployTargets,
     DeployTyped, DeployOperation
<1>5. \A x \in Agents : OpSound(op[x])'
  BY DEF DeployInv, OpSound, Pull, At, Reach, Agents, DeployTyped, DeployOperation
<1>6. \A x \in Agents : Reached(x)'
  BY DEF DeployInv, Reached, Goal, Pull, At, Reach, Agents, DeployTyped, DeployOperation
<1>7. \A x \in Compose : (Resting(x) => Agrees(x, x))'
  BY DEF DeployInv, Resting, Works, Agrees, Pull, Reach, Agents, AgentOf, DeployTyped, DeployOperation
<1>8. (Resting("vm") => Agrees("vm", "vm_local"))'
  BY DEF DeployInv, Resting, Works, Agrees, OpsShaped, Pull, At, Reach, Agents, AgentOf, DeployTyped
<1>9. QED
  BY <1>1, <1>2, <1>3, <1>4, <1>5, <1>6, <1>7, <1>8 DEF DeployInv

LEMMA ReplaceStep ==
  ASSUME DeployInv, NEW g \in Agents, Replace(g)
  PROVE  DeployInv'
<1>1. DeployTyped'
  <2>1. Goal(g) \in Release /\ op[g] \in DeployOperation
    BY DEF DeployInv, DeployTyped, DeployOperation, Goal
  <2>2. op' \in [Agents -> DeployOperation]
    BY <2>1 DEF DeployInv, DeployTyped, Replace, Reach, DeployOperation, OpSteps
  <2>3. running' \in [Compose -> Release]
    BY <2>1 DEF DeployInv, DeployTyped, Replace, Release
  <2>4. QED
    BY <2>2, <2>3 DEF DeployInv, DeployTyped, Replace
<1>2. OpsShaped'
  BY DEF DeployInv, OpsShaped, Replace, At, Reach, Agents, DeployTyped, DeployOperation
<1>3. PromotionSound'
  BY DEF DeployInv, PromotionSound, Replace
<1>4. Followed'
  BY DEF DeployInv, Followed, HostRuns, Works, Goal, Replace, At, Reach, Agents, AgentOf, DeployTyped,
     DeployOperation
<1>5. \A x \in Agents : OpSound(op[x])'
  BY DEF DeployInv, OpSound, Replace, At, Reach, Agents, Compose, DeployTyped, DeployOperation
<1>6. \A x \in Agents : Reached(x)'
  BY DEF DeployInv, Reached, Goal, OpsShaped, Replace, At, Reach, Agents, DeployTyped, DeployOperation
<1>7. \A x \in Compose : (Resting(x) => Agrees(x, x))'
  BY DEF DeployInv, Resting, Works, Agrees, OpsShaped, Replace, At, Reach, Agents, AgentOf, DeployTyped,
     DeployOperation
<1>8. (Resting("vm") => Agrees("vm", "vm_local"))'
  BY DEF DeployInv, Resting, Works, Agrees, OpsShaped, Followed, Replace, At, Reach, Agents, AgentOf,
     Compose, DeployTyped
<1>9. QED
  BY <1>1, <1>2, <1>3, <1>4, <1>5, <1>6, <1>7, <1>8 DEF DeployInv

LEMMA WaitForHealthyStep ==
  ASSUME DeployInv, NEW g \in Agents, WaitForHealthy(g)
  PROVE  DeployInv'
<1>1. DeployTyped'
  <2>1. Goal(g) \in Release /\ op[g] \in DeployOperation
    BY DEF DeployInv, DeployTyped, DeployOperation, Goal
  <2>2. op' \in [Agents -> DeployOperation]
    BY <2>1 DEF DeployInv, DeployTyped, WaitForHealthy, Reach, DeployOperation, OpSteps
  <2>3. Goal(g) \in Releases
    BY <2>1 DEF DeployInv, OpSound, WaitForHealthy, At, Goal, Release
  <2>4. proven' \in [DeployTargets -> SUBSET Releases]
    BY <2>1, <2>3 DEF DeployInv, DeployTyped, WaitForHealthy, DeployOperation
  <2>5. QED
    BY <2>2, <2>4 DEF DeployInv, DeployTyped, WaitForHealthy
<1>2. OpsShaped'
  BY DEF DeployInv, OpsShaped, WaitForHealthy, At, Reach, Agents, DeployTyped, DeployOperation
<1>3. PromotionSound'
  BY DEF DeployInv, PromotionSound, WaitForHealthy
<1>4. Followed'
  BY DEF DeployInv, Followed, HostRuns, Works, Goal, OpsShaped, WaitForHealthy, At, Reach, Agents, AgentOf,
     DeployTyped, DeployOperation
<1>5. \A x \in Agents : OpSound(op[x])'
  BY DEF DeployInv, OpSound, WaitForHealthy, At, Reach, Agents, DeployTyped, DeployOperation
<1>6. \A x \in Agents : Reached(x)'
  BY DEF DeployInv, Reached, Goal, WaitForHealthy, At, Reach, Agents, DeployTyped, DeployOperation
<1>7. \A x \in Compose : (Resting(x) => Agrees(x, x))'
  BY DEF DeployInv, Resting, Works, Agrees, WaitForHealthy, Reach, Agents, AgentOf, DeployTargets,
     DeployTyped, DeployOperation
<1>8. (Resting("vm") => Agrees("vm", "vm_local"))'
  BY DEF DeployInv, Resting, Works, Agrees, OpsShaped, WaitForHealthy, At, Reach, Agents, AgentOf, DeployTyped
<1>9. QED
  BY <1>1, <1>2, <1>3, <1>4, <1>5, <1>6, <1>7, <1>8 DEF DeployInv

LEMMA AskRemoteStep ==
  ASSUME DeployInv, AskRemote
  PROVE  DeployInv'
<1>1. /\ op["main"] \in DeployOperation /\ op["main"].t = "vm" /\ op["main"].pc = "activate"
      /\ Goal("main") \in Releases
  BY DEF DeployInv, DeployTyped, DeployOperation, AskRemote, At, Goal, OpSound, Agents, Release
<1>2. PICK m \in DeployOperation : m = [op["main"] EXCEPT !.pc = "asked"]
  BY <1>1 DEF DeployOperation, OpSteps
<1>3. PICK f \in DeployOperation : f = [op["main"] EXCEPT !.pc = "failed"]
  BY <1>1 DEF DeployOperation, OpSteps
<1>4. PICK d \in DeployOperation :
         /\ d = Deploying("vm_local", Goal("main"))
         /\ d.pc = "activate" /\ d.kind = "deploy" /\ d.t = "vm_local" /\ d.release = Goal("main")
         /\ ~d.undo /\ d.tries = 0
  BY <1>1, DeployingShape DEF DeployInv, DeployTargets, Compose
<1>5. \/ At("remote", "idle") /\ op' = [op EXCEPT !["main"] = m, !["remote"] = d] /\ reply' = "none"
      \/ ~At("remote", "idle") /\ op' = [op EXCEPT !["main"] = f] /\ reply' = reply
  BY <1>2, <1>3, <1>4 DEF AskRemote, DeployInv, DeployTyped, Agents
<1>6. /\ m.pc = "asked" /\ m.t = "vm" /\ m.release = op["main"].release /\ m.undo = op["main"].undo
      /\ m.previous = op["main"].previous /\ m.before = op["main"].before /\ m.kind = op["main"].kind
      /\ m.tries = op["main"].tries
      /\ f.pc = "failed" /\ f.t = "vm" /\ f.release = op["main"].release /\ f.undo = op["main"].undo
      /\ f.previous = op["main"].previous /\ f.before = op["main"].before /\ f.kind = op["main"].kind
  BY <1>1, <1>2, <1>3 DEF DeployOperation
<1>7. DeployTyped'
  BY <1>4, <1>5 DEF DeployInv, DeployTyped, AskRemote
<1>8. \/ At("remote", "idle") /\ op'["main"] = m /\ op'["remote"] = d /\ reply' = "none"
      \/ ~At("remote", "idle") /\ op'["main"] = f /\ op'["remote"] = op["remote"] /\ reply' = reply
  BY <1>5 DEF DeployInv, DeployTyped, Agents
<1>9. OpsShaped'
  BY <1>4, <1>6, <1>8 DEF DeployInv, OpsShaped
<1>10. PromotionSound'
  BY DEF DeployInv, PromotionSound, AskRemote
<1>11. Followed'
  BY <1>1, <1>4, <1>6, <1>8 DEF Followed, Works, AgentOf, Goal
<1>12. \A x \in Agents : OpSound(op[x])'
  BY <1>1, <1>4, <1>6, <1>8, DeployAssumption DEF DeployInv, OpSound, Agents, Goal, Release
<1>13. \A x \in Agents : Reached(x)'
  BY <1>1, <1>4, <1>6, <1>8 DEF DeployInv, Reached, Goal, Agents, AskRemote
<1>14. \A x \in Compose : (Resting(x) => Agrees(x, x))'
  BY <1>1, <1>4, <1>6, <1>8 DEF DeployInv, Resting, Works, Agrees, AgentOf, AskRemote
<1>15. (Resting("vm") => Agrees("vm", "vm_local"))'
  BY <1>1, <1>6, <1>8 DEF Resting, Works, AgentOf
<1>16. QED
  BY <1>7, <1>9, <1>10, <1>11, <1>12, <1>13, <1>14, <1>15 DEF DeployInv

LEMMA RemoteAnswersStep ==
  ASSUME DeployInv, RemoteAnswers
  PROVE  DeployInv'
<1>1. DeployTyped'
  <2>1. Goal("main") \in Releases /\ op["main"] \in DeployOperation /\ op["main"].tries + 1 \in 0 .. Attempts
    BY DeployAssumption DEF DeployInv, DeployTyped, DeployOperation, Goal, OpSound, RemoteAnswers, At,
       Release, Agents
  <2>2. op' \in [Agents -> DeployOperation]
    BY <2>1 DEF DeployInv, DeployTyped, RemoteAnswers, RetryOrFail, Reach, DeployOperation, OpSteps, Agents
  <2>3. proven' \in [DeployTargets -> SUBSET Releases]
    BY <2>1 DEF DeployInv, DeployTyped, RemoteAnswers, DeployTargets
  <2>4. QED
    BY <2>2, <2>3 DEF DeployInv, DeployTyped, RemoteAnswers
<1>2. OpsShaped'
  BY DEF DeployInv, OpsShaped, RemoteAnswers, RetryOrFail, Reach, Agents, DeployTyped, DeployOperation
<1>3. PromotionSound'
  BY DEF DeployInv, PromotionSound, RemoteAnswers
<1>4. Followed'
  BY DEF DeployInv, Followed, HostRuns, Goal, RemoteAnswers, RetryOrFail, At, Reach, Agents, DeployTyped,
     DeployOperation
<1>5. \A x \in Agents : OpSound(op[x])'
  BY DEF DeployInv, OpSound, RemoteAnswers, RetryOrFail, At, Reach, Agents, DeployTargets, DeployTyped,
     DeployOperation
<1>6. \A x \in Agents : Reached(x)'
  BY DEF DeployInv, Reached, Goal, OpsShaped, RemoteAnswers, RetryOrFail, At, Reach, Compose, DeployTargets,
     DeployTyped, DeployOperation
<1>7. \A x \in Compose : (Resting(x) => Agrees(x, x))'
  BY DEF DeployInv, Resting, Works, Agrees, RemoteAnswers, RetryOrFail, Reach, Agents, AgentOf, DeployTyped,
     DeployOperation
<1>8. (Resting("vm") => Agrees("vm", "vm_local"))'
  BY DEF DeployInv, Resting, Works, Agrees, RemoteAnswers, RetryOrFail, Reach, Agents, AgentOf, DeployTyped,
     DeployOperation
<1>9. QED
  BY <1>1, <1>2, <1>3, <1>4, <1>5, <1>6, <1>7, <1>8 DEF DeployInv

LEMMA RemoteUnheardStep ==
  ASSUME DeployInv, RemoteUnheard
  PROVE  DeployInv'
<1>1. DeployTyped'
  BY DEF DeployInv, RemoteUnheard, RetryOrFail, Reach, Agents, DeployTyped, DeployOperation, OpSteps
<1>2. OpsShaped'
  BY DEF DeployInv, OpsShaped, RemoteUnheard, RetryOrFail, Reach, Agents, DeployTyped, DeployOperation
<1>3. PromotionSound'
  BY DEF DeployInv, PromotionSound, RemoteUnheard
<1>4. Followed'
  BY DEF DeployInv, Followed, Works, Goal, OpsShaped, RemoteUnheard, RetryOrFail, At, Reach, AgentOf,
     DeployTyped, DeployOperation
<1>5. \A x \in Agents : OpSound(op[x])'
  BY DEF DeployInv, OpSound, RemoteUnheard, RetryOrFail, At, Reach, Agents, DeployTyped, DeployOperation
<1>6. \A x \in Agents : Reached(x)'
  BY DEF DeployInv, Reached, Goal, RemoteUnheard, RetryOrFail, Reach, Compose, DeployTargets, DeployTyped,
     DeployOperation
<1>7. \A x \in Compose : (Resting(x) => Agrees(x, x))'
  BY DEF DeployInv, Resting, Works, Agrees, RemoteUnheard, RetryOrFail, Reach, Agents, AgentOf, DeployTyped,
     DeployOperation
<1>8. (Resting("vm") => Agrees("vm", "vm_local"))'
  BY DEF DeployInv, Resting, Works, Agrees, RemoteUnheard, RetryOrFail, Reach, AgentOf, DeployTyped,
     DeployOperation
<1>9. QED
  BY <1>1, <1>2, <1>3, <1>4, <1>5, <1>6, <1>7, <1>8 DEF DeployInv

LEMMA SucceedsStep ==
  ASSUME DeployInv, NEW g \in Agents, Succeeds(g)
  PROVE  DeployInv'
<1>1. DeployTyped'
  BY DeployAssumption DEF DeployInv, Succeeds, Recorded, RecordUndone, Answer, Idle, Compose, DeployTargets,
     NoRecord, DeployTyped, DeployOperation, TargetRecord, Release, OpSteps
<1>2. OpsShaped'
  BY DEF DeployInv, OpsShaped, Succeeds, Idle
<1>3. PromotionSound'
  BY DEF DeployInv, PromotionSound, Succeeds
<1>4. Followed'
  BY DEF DeployInv, Followed, HostRuns, Works, Reached, Goal, OpsShaped, Succeeds, At, Answer, Idle, Agents,
     DeployTargets, DeployTyped, DeployOperation
<1>5. \A x \in Agents : OpSound(op[x])'
  BY DEF DeployInv, OpSound, Succeeds, Idle
<1>6. \A x \in Agents : Reached(x)'
  BY DEF DeployInv, Reached, Goal, Succeeds, Idle
<1>7. \A x \in Compose : (Resting(x) => Agrees(x, x))'
  BY DEF DeployInv, Resting, Works, Agrees, Reached, Goal, OpSound, Succeeds, At, Recorded, RecordUndone,
     DeployTyped, DeployOperation
<1>8. (Resting("vm") => Agrees("vm", "vm_local"))'
  BY DEF DeployInv, Resting, Works, Agrees, Goal, OpsShaped, Followed, HostRuns, OpSound, Succeeds, At,
     Recorded, RecordUndone, Agents, DeployTyped, DeployOperation
<1>9. QED
  BY <1>1, <1>2, <1>3, <1>4, <1>5, <1>6, <1>7, <1>8 DEF DeployInv

LEMMA RollBackStep ==
  ASSUME DeployInv, NEW g \in Agents, RollBack(g)
  PROVE  DeployInv'
<1>1. DeployTyped'
  BY DEF DeployInv, RollBack, At, DeployTyped, DeployOperation
<1>2. OpsShaped'
  BY DEF DeployInv, RollBack, At, DeployTyped, DeployOperation
<1>3. PromotionSound'
  BY DEF DeployInv, PromotionSound, RollBack
<1>4. Followed'
  BY DEF DeployInv, RollBack, At, DeployTyped, DeployOperation
<1>5. \A x \in Agents : OpSound(op[x])'
  BY DeployAssumption DEF DeployInv, OpSound, RollBack, At, DeployTyped
<1>6. \A x \in Agents : Reached(x)'
  BY DEF DeployInv, Reached, Goal, RollBack, DeployTyped
<1>7. \A x \in Compose : (Resting(x) => Agrees(x, x))'
  BY DEF DeployInv, RollBack, At, DeployTyped, DeployOperation
<1>8. (Resting("vm") => Agrees("vm", "vm_local"))'
  BY DEF DeployInv, RollBack, At, DeployTyped, DeployOperation
<1>9. QED
  BY <1>1, <1>2, <1>3, <1>4, <1>5, <1>6, <1>7, <1>8 DEF DeployInv

LEMMA GiveUpStep ==
  ASSUME DeployInv, NEW g \in Agents, GiveUp(g)
  PROVE  DeployInv'
<1>1. DeployTyped'
  <2>1. op[g].t \in DeployTargets
    BY DEF DeployInv, DeployTyped, DeployOperation
  <2>2. op' \in [Agents -> DeployOperation]
    BY IdleShape DEF DeployInv, DeployTyped, GiveUp
  <2>3. QED
    BY <2>1, <2>2 DEF DeployInv, DeployTyped, GiveUp, Answer
<1>2. OpsShaped'
  BY DEF DeployInv, OpsShaped, GiveUp, Idle
<1>3. PromotionSound'
  BY DEF DeployInv, PromotionSound, GiveUp
<1>4. Followed'
  BY DEF DeployInv, Followed, HostRuns, Works, Goal, GiveUp, Answer, Idle, DeployTyped
<1>5. \A x \in Agents : OpSound(op[x])'
  BY DEF DeployInv, OpSound, GiveUp, Idle
<1>6. \A x \in Agents : Reached(x)'
  BY DEF DeployInv, Reached, Goal, GiveUp, Idle
<1>7. \A x \in Compose : (Resting(x) => Agrees(x, x))'
  BY DEF DeployInv, Resting, Works, Agrees, GiveUp
<1>8. (Resting("vm") => Agrees("vm", "vm_local"))'
  BY DEF DeployInv, Resting, Works, Agrees, GiveUp
<1>9. QED
  BY <1>1, <1>2, <1>3, <1>4, <1>5, <1>6, <1>7, <1>8 DEF DeployInv

LEMMA AgentDiesStep ==
  ASSUME DeployInv, NEW g \in Agents, AgentDies(g)
  PROVE  DeployInv'
<1>1. DeployTyped'
  <2>1. op[g].t \in DeployTargets
    BY DEF DeployInv, DeployTyped, DeployOperation
  <2>2. op' \in [Agents -> DeployOperation]
    BY IdleShape DEF DeployInv, DeployTyped, AgentDies
  <2>3. record' \in [DeployTargets -> TargetRecord]
    BY <2>1 DEF DeployInv, DeployTyped, AgentDies, TargetRecord, NoRecord, Release
  <2>4. crashes' \in 0 .. MaxCrashes
    BY DeployAssumption DEF DeployInv, DeployTyped, AgentDies
  <2>5. QED
    BY <2>1, <2>2, <2>3, <2>4 DEF DeployInv, DeployTyped, AgentDies
<1>2. OpsShaped'
  BY DEF DeployInv, OpsShaped, AgentDies, Idle
<1>3. PromotionSound'
  BY DEF DeployInv, PromotionSound, AgentDies
<1>4. Followed'
  BY DEF DeployInv, Followed, HostRuns, Works, Goal, AgentDies, Idle
<1>5. \A x \in Agents : OpSound(op[x])'
  BY DEF DeployInv, OpSound, AgentDies, Idle
<1>6. \A x \in Agents : Reached(x)'
  BY DEF DeployInv, Reached, Goal, AgentDies, Idle
<1>7. \A x \in Compose : (Resting(x) => Agrees(x, x))'
  BY DEF DeployInv, Resting, Works, Agrees, AgentDies, DeployTargets, DeployTyped
<1>8. (Resting("vm") => Agrees("vm", "vm_local"))'
  BY DEF DeployInv, Resting, Works, Agrees, AgentDies, DeployTargets, DeployTyped
<1>9. QED
  BY <1>1, <1>2, <1>3, <1>4, <1>5, <1>6, <1>7, <1>8 DEF DeployInv

(***************************************************************************)
(* The invariant holds                                                     *)
(***************************************************************************)

LEMMA DeployInitInv == DeployInit => DeployInv
<1> SUFFICES ASSUME DeployInit PROVE DeployInv
  OBVIOUS
<1>1. op["main"] = Idle /\ op["remote"] = Idle
  BY DEF DeployInit, Agents
<1>2. DeployTyped
  <2>1. op \in [Agents -> DeployOperation]
    BY IdleShape DEF DeployInit
  <2>2. promoting \in [t: DeployTargets, release: Release]
    BY DEF DeployInit, NoPromotion, DeployTargets, Compose, Release
  <2>3. QED
    BY <2>1, <2>2, DeployAssumption DEF DeployInit, DeployTyped, TargetRecord, NoRecord, Release
<1>3. OpsShaped /\ PromotionSound /\ Followed
  BY <1>1, IdleShape DEF DeployInit, OpsShaped, PromotionSound, Followed, HostRuns
<1>4. \A g \in Agents : OpSound(op[g]) /\ Reached(g)
  BY <1>1, IdleShape DEF Agents, OpSound, Reached
<1>5. \A t \in DeployTargets : ~Resting(t)
  BY DEF DeployInit, Resting, NoRecord
<1>6. QED
  BY <1>2, <1>3, <1>4, <1>5 DEF DeployInv, DeployTargets

LEMMA DeployInvStep == DeployInv /\ [DeployNext]_deployVars => DeployInv'
<1> SUFFICES ASSUME DeployInv, [DeployNext]_deployVars PROVE DeployInv'
  OBVIOUS
<1>1. CASE DeployNext
  BY <1>1, DeployStep, PromoteStep, PromotionLocksStep, RollbackStep, WriteImageStep, PullStep, ReplaceStep,
     WaitForHealthyStep, AskRemoteStep, RemoteAnswersStep, RemoteUnheardStep, SucceedsStep, RollBackStep,
     GiveUpStep, AgentDiesStep
  DEF DeployNext
<1>2. CASE UNCHANGED deployVars
  BY <1>2 DEF deployVars, DeployInv, DeployTyped, OpsShaped, PromotionSound, Followed, HostRuns, Works,
     OpSound, Reached, Goal, Resting, Agrees
<1>3. QED
  BY <1>1, <1>2

LEMMA InvRecordIsRunning == DeployInv => DeployTypeOK /\ RecordIsRunning
<1> SUFFICES ASSUME DeployInv PROVE DeployTypeOK /\ RecordIsRunning
  OBVIOUS
<1>1. DeployTypeOK
  BY DEF DeployInv, DeployTyped, DeployTypeOK, DeployOperation, TargetRecord, OpSteps
<1>2. RecordIsRunning
  BY DEF DeployInv, RecordIsRunning, EndedWell, Resting, Agrees, Works, At, AgentOf, DeployTargets
<1>3. QED
  BY <1>1, <1>2

\* The state files name what runs: whatever fails, dies or is answered late,
\* the record of a target whose last operation ended well is the image its
\* container runs and would be restarted with (deploy, rollback, activate).
THEOREM RecordsAreTrue == DeploySpec => [](DeployTypeOK /\ RecordIsRunning)
<1>1. DeploySpec => []DeployInv
  BY DeployInitInv, DeployInvStep, PTL DEF DeploySpec
<1>2. QED
  BY <1>1, InvRecordIsRunning, PTL

(***************************************************************************)
(* Only healthy releases                                                   *)
(***************************************************************************)

\* A step that starts over or moves on without being found healthy leaves the
\* records as they are.
LEMMA HealthKept ==
  ASSUME DeployTyped, HealthInv, NEW g \in Agents, NEW o \in DeployOperation,
         op' = [op EXCEPT ![g] = o],
         \/ o = Idle
         \/ /\ o.before = op[g].before /\ o.t = op[g].t /\ o.previous = op[g].previous
            /\ o.pc # "activated",
         UNCHANGED <<record, promoting, proven, promoted>>
  PROVE  HealthInv'
<1>1. op'[g] = o /\ \A x \in Agents \ {g} : op'[x] = op[x]
  BY DEF DeployTyped
<1>2. ASSUME NEW x \in Agents
      PROVE  /\ Healthy(op[x].before, op[x].t)' /\ (op[x].previous \in proven[op[x].t] \cup {0})'
             /\ (op[x].pc = "activated" => Goal(x) \in proven[op[x].t])'
  <2>1. CASE x # g
    BY <1>1, <2>1 DEF HealthInv, Healthy, Goal
  <2>2. CASE x = g /\ o = Idle
    BY <1>1, <2>2, IdleShape DEF Healthy, NoRecord
  <2>3. CASE x = g /\ o # Idle
    BY <1>1, <2>3 DEF HealthInv, Healthy
  <2>4. QED
    BY <2>1, <2>2, <2>3
<1>3. QED
  BY <1>2 DEF HealthInv, Healthy

LEMMA HealthStep ==
  ASSUME "unproven" \notin DeployFaults, DeployInv, HealthInv, [DeployNext]_deployVars
  PROVE  HealthInv'
<1> USE DEF HealthInv, Healthy
<1>1. ASSUME NEW r \in Releases, Deploy(r) PROVE HealthInv'
  BY <1>1 DEF Goal, Compose, DeployTargets, Deploy, Deploying, Seeded
<1>2. ASSUME NEW t \in DeployTargets, NEW r \in Releases, Promote(t, r) PROVE HealthInv'
  BY <1>2, DeployAssumption DEF Goal, Compose, DeployTargets, Promote, SourceRuns
<1>3. ASSUME PromotionLocks PROVE HealthInv'
  <2>1. promoting.t \in DeployTargets /\ promoting.release \in Releases /\ promoting.release \in proven["alex"]
    BY <1>3 DEF DeployInv, PromotionSound, PromotionLocks, DeployTargets, Compose
  <2>2. Displaced(promoting.t) \in proven[promoting.t] \cup {0}
    BY <1>3 DEF PromotionLocks, Seeded
  <2>3. CASE op' = op
    BY <1>3, <2>1, <2>3 DEF PromotionLocks, Goal
  <2>4. CASE op' = [op EXCEPT !["main"] = Deploying(promoting.t, promoting.release)]
    <3> DEFINE o == Deploying(promoting.t, promoting.release)
    <3>1. o.pc = "activate" /\ o.before = record[promoting.t] /\ o.t = promoting.t
      BY <2>1, DeployingShape DEF DeployInv
    <3>2. o.previous \in proven[promoting.t] \cup {0}
      BY <2>1, <2>2 DEF Deploying, Idle
    <3>3. op'["main"] = o /\ op'["remote"] = op["remote"]
      BY <2>4 DEF DeployInv, DeployTyped, Agents
    <3> HIDE DEF o
    <3>4. \A x \in Agents : /\ Healthy(op[x].before, op[x].t)' /\ (op[x].previous \in proven[op[x].t] \cup {0})'
                            /\ (op[x].pc = "activated" => Goal(x) \in proven[op[x].t])'
      BY <1>3, <2>1, <3>1, <3>2, <3>3 DEF PromotionLocks, Agents, Goal
    <3>5. QED
      BY <1>3, <2>1, <3>4 DEF PromotionLocks, NoPromotion
  <2>5. QED
    BY <1>3, <2>3, <2>4 DEF PromotionLocks
<1>4. ASSUME NEW t \in DeployTargets, NEW r \in Releases, Rollback(t, r) PROVE HealthInv'
  BY <1>4 DEF Goal, Rollback, Idle
<1>5. ASSUME NEW g \in Agents, WriteImage(g) PROVE HealthInv'
  <2> DEFINE o == [op[g] EXCEPT !.pc = "written"]
  <2>1. DeployTyped /\ op[g] \in DeployOperation
    BY DEF DeployInv, DeployTyped
  <2>2. op' = [op EXCEPT ![g] = o]
    BY <1>5 DEF WriteImage, Reach
  <2>3. /\ o \in DeployOperation /\ o.pc # "activated"
        /\ o.before = op[g].before /\ o.t = op[g].t /\ o.previous = op[g].previous
    BY <2>1, DeployAssumption DEF DeployOperation, OpSteps
  <2> HIDE DEF o
  <2>4. QED
    BY <1>5, <2>1, <2>2, <2>3, HealthKept DEF WriteImage
<1>6. ASSUME NEW g \in Agents, Pull(g) PROVE HealthInv'
  <2>1. DeployTyped /\ op[g] \in DeployOperation
    BY DEF DeployInv, DeployTyped
  <2>2. PICK pc \in {"pulled", "failed"} : Reach(g, pc)
    BY <1>6 DEF Pull
  <2> DEFINE o == [op[g] EXCEPT !.pc = pc]
  <2>3. op' = [op EXCEPT ![g] = o]
    BY <2>2 DEF Reach
  <2>4. /\ o \in DeployOperation /\ o.pc # "activated"
        /\ o.before = op[g].before /\ o.t = op[g].t /\ o.previous = op[g].previous
    BY <2>1 DEF DeployOperation, OpSteps
  <2> HIDE DEF o
  <2>5. QED
    BY <1>6, <2>1, <2>3, <2>4, HealthKept DEF Pull
<1>7. ASSUME NEW g \in Agents, Replace(g) PROVE HealthInv'
  <2>1. DeployTyped /\ op[g] \in DeployOperation
    BY DEF DeployInv, DeployTyped
  <2>2. PICK pc \in {"replaced", "failed"} : Reach(g, pc)
    BY <1>7 DEF Replace
  <2> DEFINE o == [op[g] EXCEPT !.pc = pc]
  <2>3. op' = [op EXCEPT ![g] = o]
    BY <2>2 DEF Reach
  <2>4. /\ o \in DeployOperation /\ o.pc # "activated"
        /\ o.before = op[g].before /\ o.t = op[g].t /\ o.previous = op[g].previous
    BY <2>1 DEF DeployOperation, OpSteps
  <2> HIDE DEF o
  <2>5. QED
    BY <1>7, <2>1, <2>3, <2>4, HealthKept DEF Replace
<1>8. ASSUME NEW g \in Agents, WaitForHealthy(g) PROVE HealthInv'
  BY <1>8 DEF DeployInv, DeployTyped, DeployOperation, TargetRecord, Goal, Agents, Compose, DeployTargets,
     WaitForHealthy, Reach
<1>9. ASSUME AskRemote PROVE HealthInv'
  <2>1. Goal("main") \in Releases /\ "vm_local" \in DeployTargets
    BY <1>9 DEF DeployInv, DeployTyped, DeployOperation, AskRemote, At, Goal, OpSound, Agents, Release,
       DeployTargets, Compose
  <2>2. Displaced("vm_local") \in proven["vm_local"] \cup {0}
    BY <1>9 DEF AskRemote, Seeded
  <2> DEFINE o == Deploying("vm_local", Goal("main"))
  <2>3. o.pc = "activate" /\ o.before = record["vm_local"] /\ o.t = "vm_local"
    BY <2>1, DeployingShape DEF DeployInv
  <2>4. o.previous \in proven["vm_local"] \cup {0}
    BY <2>1, <2>2 DEF Deploying, Idle
  <2>5. op["main"] \in DeployOperation /\ op["remote"] \in DeployOperation
    BY DEF DeployInv, DeployTyped, Agents
  <2>6. /\ op'["main"].before = op["main"].before /\ op'["main"].t = op["main"].t
        /\ op'["main"].previous = op["main"].previous /\ op'["main"].pc # "activated"
        /\ op'["remote"] \in {op["remote"], o}
    BY <1>9, <2>5 DEF DeployInv, DeployTyped, DeployOperation, AskRemote, Agents
  <2> HIDE DEF o
  <2>7. \A x \in Agents : /\ Healthy(op[x].before, op[x].t)' /\ (op[x].previous \in proven[op[x].t] \cup {0})'
                          /\ (op[x].pc = "activated" => Goal(x) \in proven[op[x].t])'
    BY <1>9, <2>1, <2>3, <2>4, <2>6 DEF AskRemote, Agents, Goal
  <2>8. QED
    BY <1>9, <2>7 DEF AskRemote
<1>10. ASSUME RemoteAnswers PROVE HealthInv'
  BY <1>10 DEF DeployInv, DeployTyped, DeployOperation, OpsShaped, Goal, Agents, Compose, DeployTargets,
     RemoteAnswers, RetryOrFail, At, Reach
<1>11. ASSUME RemoteUnheard PROVE HealthInv'
  BY <1>11, DeployAssumption DEF DeployInv, DeployTyped, DeployOperation, Goal, Compose, DeployTargets,
     RemoteUnheard, RetryOrFail, Reach
<1>12. ASSUME NEW g \in Agents, Succeeds(g) PROVE HealthInv'
  BY <1>12 DEF Goal, NoRecord, Succeeds, At, Recorded, RecordUndone, Idle
<1>13. ASSUME NEW g \in Agents, RollBack(g) PROVE HealthInv'
  <2> DEFINE o == [op[g] EXCEPT !.undo = TRUE, !.pc = "activate", !.tries = 0]
  <2>1. DeployTyped /\ op[g] \in DeployOperation
    BY DEF DeployInv, DeployTyped
  <2>2. op' = [op EXCEPT ![g] = o]
    BY <1>13 DEF RollBack
  <2>3. /\ o.pc = "activate" /\ o.undo \in BOOLEAN /\ o.tries = 0 /\ o.kind = op[g].kind
        /\ o.before = op[g].before /\ o.t = op[g].t /\ o.previous = op[g].previous
    BY <2>1 DEF DeployOperation
  <2>4. o \in DeployOperation
    <3>1. 0 \in 0 .. Attempts /\ "activate" \in OpSteps
      BY DeployAssumption DEF OpSteps
    <3>2. QED
      BY <2>1, <3>1 DEF DeployOperation
  <2> HIDE DEF o, HealthInv, Healthy
  <2>5. QED
    BY <1>13, <2>1, <2>2, <2>3, <2>4, HealthKept DEF RollBack
<1>14. ASSUME NEW g \in Agents, GiveUp(g) PROVE HealthInv'
  BY <1>14, IdleShape, HealthKept DEF DeployInv, GiveUp
<1>15. ASSUME NEW g \in Agents, AgentDies(g) PROVE HealthInv'
  BY <1>15 DEF DeployInv, DeployTyped, Goal, NoRecord, AgentDies, Idle
<1>16. CASE UNCHANGED deployVars
  BY <1>16 DEF deployVars, Goal
<1>17. QED
  BY <1>1, <1>2, <1>3, <1>4, <1>5, <1>6, <1>7, <1>8, <1>9, <1>10, <1>11, <1>12, <1>13, <1>14, <1>15, <1>16
     DEF DeployNext

\* What the agents have on record can be run and can be gone back to, unless a
\* target without a record is deployed to over what a failed attempt left there
\* (deploy, rollback, promote).
THEOREM AgentsKeepReleases ==
  ASSUME "unproven" \notin DeployFaults
  PROVE  DeploySpec => []ReleasesHold
<1>1. DeployInit => HealthInv
  BY IdleShape DEF DeployInit, HealthInv, Healthy, NoRecord, Agents
<1>2. DeployInv /\ HealthInv /\ [DeployNext]_deployVars => HealthInv'
  BY HealthStep
<1>3. DeployInv /\ HealthInv => ReleasesHold
  BY InvRecordIsRunning DEF ReleasesHold, OnlyHealthyReleases, HealthInv, Healthy
<1>4. QED
  BY <1>1, <1>2, <1>3, DeployInitInv, DeployInvStep, PTL DEF DeploySpec

-----------------------------------------------------------------------------
-----------------------------------------------------------------------------
(* Remote copies *)

\* What a delivery made at the platform and what an operator's command takes away are
\* known to somebody at every step (KnowsItsObjects): the platform's answer, the job's
\* progress, the target's row or the command under way.

Settled == "unsettled" \notin RemoteFaults
Linked == "unlinked" \notin RemoteFaults

TargetRow == [status: {"absent", "queued", "publishing", "published", "failed", "deleted"}, ids: Objects,
              url: Address]
JobRow == [status: {"none", "queued", "publishing", "published", "failed", "cancelled"},
           resume: Objects, round: Nat]
CommandRow == [pc: {"idle", "acting", "verified"}, kind: Kinds, named: BOOLEAN, seen: TargetRow,
               todo: Objects, deleted: SUBSET Object, remaining: Objects]

RemoteRows ==
  /\ target \in TargetRow /\ job \in JobRow /\ delivery \in [sent: Objects]
  /\ command \in [Commands -> CommandRow]
  /\ live \subseteq Object /\ round \in [Object -> Nat]
  /\ made \in 0 .. MaxObjects /\ asked \in 0 .. MaxAsked

\* The row and the job say the same of the target.
StatusesAgree ==
  /\ job.status = "queued" <=> target.status = "queued"
  /\ job.status = "publishing" <=> target.status = "publishing"
  /\ job.status = "published" <=> target.status = "published"
  /\ job.status = "failed" <=> target.status = "failed"
  /\ job.status = "cancelled" <=> target.status = "deleted"
  /\ job.status = "none" <=> target.status = "absent"

OfRound(s) == \A x \in ToSet(s) : x \in 1 .. made /\ round[x] = job.round
\* What the audience sees is named, and it is of the job's own round.
LiveIsNamed ==
  /\ live \subseteq 1 .. made
  /\ target.status \in {"absent", "queued", "deleted"} => live = {}
  /\ target.status = "queued" => job.resume = <<>>
  /\ target.status # "published" => target.ids = <<>>
  /\ target.status = "publishing" => live \subseteq ToSet(delivery.sent) /\ OfRound(delivery.sent)
  /\ target.status = "published" => /\ live \subseteq ToSet(target.ids) /\ OfRound(target.ids)
                                    /\ target.ids # <<>>
  /\ target.status = "failed" => live \subseteq ToSet(job.resume) /\ OfRound(job.resume)
RoundsPass == target.status # "absent" => \A x \in 1 .. made : round[x] <= job.round

\* A command knows of each object it saw whether it took it down; what it saw
\* published in this round covers what is live.
KnowsItsObjects(o) ==
  /\ ToSet(o.seen.ids) \subseteq 1 .. made /\ o.deleted \subseteq 1 .. made
  /\ o.deleted \cap live = {}
  /\ Len(o.todo) + Len(o.remaining) <= Parts /\ ToSet(o.remaining) \cup ToSet(o.todo) \subseteq ToSet(o.seen.ids)
  /\ o.seen.status = "published" =>
       /\ o.seen.ids # <<>> /\ \A x \in ToSet(o.seen.ids) : round[x] = round[o.seen.ids[1]]
       /\ o.pc = "acting" => ToSet(o.seen.ids) \subseteq o.deleted \cup ToSet(o.todo) \cup ToSet(o.remaining)
       /\ o.pc = "verified" => live \cap ToSet(o.seen.ids) = {}
       /\ target.status \in {"queued", "publishing"} => \A x \in ToSet(o.seen.ids) : round[x] < job.round
       /\ target.status = "published" /\ round[o.seen.ids[1]] = job.round => live \subseteq ToSet(o.seen.ids)
\* A purge reads a target at rest; a command without a fence has nothing to take
\* down, and runs alone on a target that is gone.
KeepsApart(c, o) ==
  /\ o.pc = "verified" => o.seen.status \in {"published", "deleted"}
  /\ Unfenced(o) => /\ target.status = "deleted"
                    /\ \A d \in Commands \ {c} : command[d].pc = "idle"

RemoteInv ==
  /\ RemoteRows /\ StatusesAgree /\ LiveIsNamed /\ RoundsPass
  /\ \A c \in Commands : command[c].pc # "idle" => KnowsItsObjects(command[c]) /\ KeepsApart(c, command[c])

\* An address is that of an object of the delivery it stands for, in the row and in
\* what a command saw of it.
LinkFits == target.status = "published" => target.url \in 1 .. made /\ round[target.url] = job.round
SeenLinkFits(o) == o.seen.status = "published" =>
  o.seen.url \in 1 .. made /\ round[o.seen.url] = round[o.seen.ids[1]]
LinksFit == LinkFits /\ \A c \in Commands : command[c].pc # "idle" => SeenLinkFits(command[c])

-----------------------------------------------------------------------------
(* Sequences of objects *)

LEMMA ObjectsAreSequences ==
  \A s : s \in Objects <=> s \in Seq(Object) /\ Len(s) <= Parts
<1>1. ASSUME NEW s, s \in Objects PROVE s \in Seq(Object) /\ Len(s) <= Parts
  <2>1. PICK n \in 0 .. Parts : s \in [1 .. n -> Object]
    BY <1>1 DEF Objects
  <2>2. n \in Nat /\ n <= Parts
    BY <2>1, RemoteAssumption
  <2>3. s \in Seq(Object)
    BY <2>1, <2>2
  <2>4. Len(s) = n
    BY <2>1, <2>2, <2>3, LenProperties
  <2> QED BY <2>2, <2>3, <2>4
<1>2. ASSUME NEW s, s \in Seq(Object), Len(s) <= Parts PROVE s \in Objects
  <2>1. Len(s) \in 0 .. Parts /\ s \in [1 .. Len(s) -> Object]
    BY <1>2, LenProperties, RemoteAssumption
  <2> QED BY <2>1 DEF Objects
<1> QED BY <1>1, <1>2

LEMMA ToSetOfEmpty == <<>> \in Objects /\ ToSet(<<>>) = {} /\ Len(<<>>) = 0
<1>1. <<>> \in Seq(Object) /\ Len(<<>>) = 0
  BY EmptySeq
<1>2. DOMAIN <<>> = {}
  OBVIOUS
<1>3. ToSet(<<>>) = {}
  BY <1>2 DEF ToSet
<1>4. 0 <= Parts
  BY RemoteAssumption
<1> QED BY <1>1, <1>3, <1>4, ObjectsAreSequences

LEMMA ToSetOfAppend ==
  ASSUME NEW s \in Objects, NEW x \in Object
  PROVE  /\ Append(s, x) \in Seq(Object) /\ Len(Append(s, x)) = Len(s) + 1
         /\ ToSet(Append(s, x)) = ToSet(s) \cup {x} /\ Len(s) \in Nat /\ Append(s, x) # <<>>
<1>1. s \in Seq(Object)
  BY ObjectsAreSequences
<1>2. Len(s) \in Nat /\ DOMAIN s = 1 .. Len(s)
  BY <1>1, LenProperties
<1>3. /\ Append(s, x) \in Seq(Object) /\ Len(Append(s, x)) = Len(s) + 1 /\ Append(s, x) # <<>>
      /\ \A i \in 1 .. Len(s) : Append(s, x)[i] = s[i]
      /\ Append(s, x)[Len(s) + 1] = x
  BY <1>1, AppendProperties
<1>4. DOMAIN Append(s, x) = 1 .. Len(s) + 1
  BY <1>3, LenProperties
<1>5. ToSet(Append(s, x)) = ToSet(s) \cup {x}
  <2>1. ASSUME NEW y \in ToSet(Append(s, x)) PROVE y \in ToSet(s) \cup {x}
    <3>1. PICK i \in 1 .. Len(s) + 1 : y = Append(s, x)[i]
      BY <1>4 DEF ToSet
    <3>2. CASE i = Len(s) + 1
      BY <3>1, <3>2, <1>3
    <3>3. CASE i # Len(s) + 1
      <4>1. i \in 1 .. Len(s)
        BY <3>1, <3>3, <1>2
      <4> QED BY <4>1, <3>1, <1>2, <1>3 DEF ToSet
    <3> QED BY <3>2, <3>3
  <2>2. ASSUME NEW y \in ToSet(s) PROVE y \in ToSet(Append(s, x))
    <3>1. PICK i \in 1 .. Len(s) : y = s[i]
      BY <1>2 DEF ToSet
    <3>2. i \in 1 .. Len(s) + 1 /\ y = Append(s, x)[i]
      BY <3>1, <1>2, <1>3
    <3> QED BY <3>2, <1>4 DEF ToSet
  <2>3. x \in ToSet(Append(s, x))
    <3>1. Len(s) + 1 \in 1 .. Len(s) + 1
      BY <1>2
    <3> QED BY <3>1, <1>3, <1>4 DEF ToSet
  <2> QED BY <2>1, <2>2, <2>3
<1> QED BY <1>2, <1>3, <1>5

LEMMA ToSetOfTail ==
  ASSUME NEW s \in Objects, s # <<>>
  PROVE  /\ Head(s) \in Object /\ Tail(s) \in Objects /\ Len(Tail(s)) = Len(s) - 1 /\ Len(s) \in Nat \ {0}
         /\ ToSet(s) = {Head(s)} \cup ToSet(Tail(s))
<1>1. s \in Seq(Object) /\ Len(s) <= Parts
  BY ObjectsAreSequences
<1>2. Len(s) \in Nat \ {0} /\ DOMAIN s = 1 .. Len(s)
  BY <1>1, LenProperties, EmptySeq
<1>3. /\ Head(s) \in Object /\ Tail(s) \in Seq(Object) /\ Len(Tail(s)) = Len(s) - 1
      /\ \A i \in 1 .. Len(Tail(s)) : Tail(s)[i] = s[i + 1]
  BY <1>1, HeadTailProperties
<1>4. DOMAIN Tail(s) = 1 .. Len(s) - 1 /\ Tail(s) \in Objects
  <2>1. DOMAIN Tail(s) = 1 .. Len(Tail(s))
    BY <1>3, LenProperties
  <2>2. Len(Tail(s)) <= Parts
    BY <1>1, <1>2, <1>3, RemoteAssumption
  <2> QED BY <2>1, <2>2, <1>3, ObjectsAreSequences
<1>5. Head(s) = s[1]
  <2>1. 1 \in 1 .. Len(s) /\ Len(s) \in 1 .. Len(s)
    BY <1>2
  <2> QED BY <2>1, <1>1, HeadTailOfSubSeq, SubSeqFull
<1>6. ToSet(s) = {Head(s)} \cup ToSet(Tail(s))
  <2>1. ASSUME NEW y \in ToSet(s) PROVE y \in {Head(s)} \cup ToSet(Tail(s))
    <3>1. PICK i \in 1 .. Len(s) : y = s[i]
      BY <1>2 DEF ToSet
    <3>2. CASE i = 1
      BY <3>1, <3>2, <1>5
    <3>3. CASE i # 1
      <4>1. i - 1 \in 1 .. Len(s) - 1 /\ Tail(s)[i - 1] = s[i - 1 + 1] /\ i - 1 + 1 = i
        BY <3>1, <3>3, <1>2, <1>3
      <4> QED BY <4>1, <3>1, <1>4 DEF ToSet
    <3> QED BY <3>2, <3>3
  <2>2. ASSUME NEW y \in ToSet(Tail(s)) PROVE y \in ToSet(s)
    <3>1. PICK i \in 1 .. Len(s) - 1 : y = Tail(s)[i]
      BY <1>4 DEF ToSet
    <3>2. i + 1 \in 1 .. Len(s) /\ y = s[i + 1]
      BY <3>1, <1>2, <1>3
    <3> QED BY <3>2, <1>2 DEF ToSet
  <2>3. Head(s) \in ToSet(s)
    <3>1. 1 \in 1 .. Len(s)
      BY <1>2
    <3> QED BY <3>1, <1>2, <1>5 DEF ToSet
  <2> QED BY <2>1, <2>2, <2>3
<1> QED BY <1>2, <1>3, <1>4, <1>6

LEMMA FirstIsInSet ==
  ASSUME NEW s \in Objects, s # <<>>
  PROVE  s[1] \in ToSet(s)
<1>1. s \in Seq(Object)
  BY ObjectsAreSequences
<1>2. 1 \in DOMAIN s
  BY <1>1, LenProperties, EmptySeq
<1> QED BY <1>2 DEF ToSet

-----------------------------------------------------------------------------
(* Types, whatever the commands and the deliveries do *)

LEMMA RoomForOne ==
  \A a, b, p \in Nat : a # 0 /\ a + b <= p => b + 1 <= p /\ (a - 1) + b <= p /\ (a - 1) + (b + 1) <= p
OBVIOUS

CommandsFit == \A c \in Commands : Len(command[c].todo) + Len(command[c].remaining) <= Parts
RowsFit == RemoteRows /\ CommandsFit

LEMMA NoAddress == 0 \in Address /\ Object \subseteq Address
BY RemoteAssumption DEF Address, Object

LEMMA QuietFits == Quiet \in CommandRow /\ Quiet.todo = <<>> /\ Quiet.remaining = <<>> /\ Quiet.pc = "idle"
BY ToSetOfEmpty, NoAddress DEF Quiet, CommandRow, TargetRow, NoTarget, Kinds

LEMMA RowsFitStart == RemoteInit => RowsFit
<1> SUFFICES ASSUME RemoteInit PROVE RowsFit
  OBVIOUS
<1>1. target \in TargetRow /\ job \in JobRow /\ delivery \in [sent: Objects]
  BY ToSetOfEmpty, NoAddress DEF RemoteInit, NoTarget, NoJob, NoDelivery, TargetRow, JobRow
<1>2. command \in [Commands -> CommandRow] /\ live \subseteq Object /\ round \in [Object -> Nat]
  BY QuietFits DEF RemoteInit
<1>3. made \in 0 .. MaxObjects /\ asked \in 0 .. MaxAsked
  BY RemoteAssumption DEF RemoteInit
<1>4. \A c \in Commands : command[c].todo = <<>> /\ command[c].remaining = <<>>
  BY QuietFits DEF RemoteInit
<1>5. CommandsFit
  <2>1. Len(<<>>) = 0 /\ 0 + 0 <= Parts
    BY ToSetOfEmpty, RemoteAssumption
  <2> QED BY <1>4, <2>1 DEF CommandsFit
<1> QED BY <1>1, <1>2, <1>3, <1>5 DEF RowsFit, RemoteRows

\* A whole delivery has a first object.
LEMMA FirstAddress ==
  ASSUME NEW s \in Objects, Len(s) = Parts
  PROVE  s # <<>> /\ s[1] \in ToSet(s) /\ s[1] \in Address
<1>1. s # <<>>
  BY ToSetOfEmpty, RemoteAssumption
<1>2. s \in Seq(Object) /\ 1 \in 1 .. Len(s)
  BY <1>1, ObjectsAreSequences, RemoteAssumption
<1>3. s[1] \in Object
  BY <1>2, LenProperties
<1> QED BY <1>1, <1>3, FirstIsInSet, NoAddress

\* One command changes, and what it holds fits.
LEMMA CommandFits ==
  ASSUME RowsFit, NEW c \in Commands, NEW new \in CommandRow, Len(new.todo) + Len(new.remaining) <= Parts,
         command' = [command EXCEPT ![c] = new]
  PROVE  command' \in [Commands -> CommandRow] /\ CommandsFit'
<1>1. command' \in [Commands -> CommandRow] /\ \A d \in Commands : command'[d] = IF d = c THEN new ELSE command[d]
  BY DEF RowsFit, RemoteRows
<1>2. ASSUME NEW d \in Commands PROVE Len(command'[d].todo) + Len(command'[d].remaining) <= Parts
  BY <1>1 DEF RowsFit, CommandsFit
<1> QED BY <1>1, <1>2 DEF CommandsFit

LEMMA RowsFitStep == RowsFit /\ [RemoteNext]_remoteVars => RowsFit'
<1> SUFFICES ASSUME RowsFit, [RemoteNext]_remoteVars PROVE RowsFit'
  OBVIOUS
<1>0. /\ target \in TargetRow /\ job \in JobRow /\ delivery \in [sent: Objects]
      /\ command \in [Commands -> CommandRow] /\ live \subseteq Object /\ round \in [Object -> Nat]
      /\ made \in 0 .. MaxObjects /\ asked \in 0 .. MaxAsked /\ CommandsFit
  BY DEF RowsFit, RemoteRows
<1>1. <<>> \in Objects /\ Len(<<>>) = 0
  BY ToSetOfEmpty
<1>2. NoTarget \in TargetRow /\ NoJob \in JobRow /\ NoDelivery \in [sent: Objects]
  BY <1>1, NoAddress DEF NoTarget, NoJob, NoDelivery, TargetRow, JobRow
<1>3. target.ids \in Objects /\ job.resume \in Objects /\ job.round \in Nat /\ delivery.sent \in Objects
  BY <1>0 DEF TargetRow, JobRow
<1>4. CASE Claim
  <2>1. job' \in JobRow /\ target' \in TargetRow /\ delivery' \in [sent: Objects]
    BY <1>0, <1>3, <1>4 DEF Claim, JobRow, TargetRow
  <2> QED BY <1>0, <1>4, <2>1 DEF Claim, RowsFit, RemoteRows, CommandsFit
<1>5. CASE SendPart
  <2>1. /\ made' = made + 1 /\ live' = live \cup {made + 1} /\ round' = [round EXCEPT ![made + 1] = job.round]
        /\ delivery' = [sent |-> Append(delivery.sent, made + 1)] /\ made < MaxObjects /\ Len(delivery.sent) < Parts
        /\ UNCHANGED <<target, job, command, asked>>
    BY <1>5 DEF SendPart
  <2>2. made + 1 \in Object /\ made' \in 0 .. MaxObjects
    BY <1>0, <2>1, RemoteAssumption DEF Object
  <2>3. Append(delivery.sent, made + 1) \in Objects
    <3>1. PICK n : n = made + 1
      OBVIOUS
    <3>2. PICK s \in Objects : s = delivery.sent
      BY <1>3
    <3>3. Append(s, n) \in Seq(Object) /\ Len(Append(s, n)) = Len(s) + 1 /\ Len(s) \in Nat /\ Len(s) < Parts
      BY <2>1, <2>2, <3>1, <3>2, ToSetOfAppend
    <3>4. Len(Append(s, n)) <= Parts
      BY <3>3, RemoteAssumption
    <3>5. Append(s, n) \in Objects
      BY <3>3, <3>4, ObjectsAreSequences
    <3> QED BY <3>1, <3>2, <3>5
  <2>4. round' \in [Object -> Nat]
    BY <1>0, <1>3, <2>1
  <2> QED BY <1>0, <2>1, <2>2, <2>3, <2>4 DEF RowsFit, RemoteRows, CommandsFit
<1>6. CASE Delivered
  <2>1. job' \in JobRow /\ target' \in TargetRow /\ delivery' \in [sent: Objects]
    <3>1. delivery.sent[1] \in Address
      BY <1>3, <1>6, FirstAddress DEF Delivered
    <3>2. PICK url \in Address : target' = [status |-> "published", ids |-> delivery.sent, url |-> url]
      BY <1>6, <3>1, NoAddress DEF Delivered
    <3> QED BY <1>0, <1>1, <1>2, <1>3, <1>6, <3>2 DEF Delivered, JobRow, TargetRow
  <2> QED BY <1>0, <1>6, <2>1 DEF Delivered, RowsFit, RemoteRows, CommandsFit
<1>7. CASE DeliveryFails
  <2>1. job' \in JobRow /\ target' \in TargetRow /\ delivery' \in [sent: Objects]
    BY <1>0, <1>2, <1>3, <1>7 DEF DeliveryFails, JobRow, TargetRow
  <2> QED BY <1>0, <1>7, <2>1 DEF DeliveryFails, RowsFit, RemoteRows, CommandsFit
<1>8. ASSUME NEW c \in Commands, NEW k \in Kinds, NEW named \in BOOLEAN, Asks(c, k, named) PROVE RowsFit'
  <2>1. PICK todo : todo = IF k # "purge" /\ target.status = "published" THEN target.ids ELSE <<>>
    OBVIOUS
  <2>2. PICK new : new = [Quiet EXCEPT !.pc = IF k = "purge" THEN "verified" ELSE "acting",
                                !.kind = k, !.named = named, !.seen = target, !.todo = todo]
    OBVIOUS
  <2>3. /\ command' = [command EXCEPT ![c] = new] /\ UNCHANGED <<target, job, delivery, live, round, made>>
        /\ asked' \in 0 .. MaxAsked
    BY <1>0, <1>8, <2>1, <2>2, RemoteAssumption DEF Asks
  <2>4. todo \in Objects
    BY <1>1, <1>3, <2>1
  <2>5. Len(todo) \in Nat /\ Len(todo) <= Parts
    BY <2>4, ObjectsAreSequences, LenProperties
  <2>6. new \in CommandRow /\ new.todo = todo /\ new.remaining = <<>>
    BY <1>0, <1>1, <2>2, <2>4 DEF CommandRow, Quiet
  <2>7. Len(new.todo) + Len(new.remaining) <= Parts
    BY <1>1, <2>5, <2>6
  <2>8. command' \in [Commands -> CommandRow] /\ CommandsFit'
    BY <2>3, <2>6, <2>7, CommandFits
  <2> QED BY <1>0, <2>3, <2>8 DEF RowsFit, RemoteRows
<1>9. ASSUME NEW c \in Commands, RemoveOne(c) PROVE RowsFit'
  <2>1. PICK o \in CommandRow : o = command[c]
    BY <1>0
  <2>2. PICK x : x = Head(o.todo)
    OBVIOUS
  <2>3. o.todo # <<>> /\ o.todo \in Objects /\ o.remaining \in Objects /\ Len(o.todo) + Len(o.remaining) <= Parts
    BY <1>0, <1>9, <2>1 DEF RemoveOne, CommandRow, CommandsFit
  <2>4. x \in Object /\ Tail(o.todo) \in Objects /\ Len(Tail(o.todo)) = Len(o.todo) - 1 /\ Len(o.todo) \in Nat \ {0}
    BY <2>2, <2>3, ToSetOfTail
  <2>5. Append(o.remaining, x) \in Seq(Object) /\ Len(Append(o.remaining, x)) = Len(o.remaining) + 1 /\ Len(o.remaining) \in Nat
    BY <2>3, <2>4, ToSetOfAppend
  <2>a. PICK t \in Nat, r \in Nat : t = Len(o.todo) /\ r = Len(o.remaining)
    BY <2>4, <2>5
  <2>b. /\ t # 0 /\ t + r <= Parts /\ Len(Tail(o.todo)) = t - 1 /\ Len(Append(o.remaining, x)) = r + 1
        /\ Parts \in Nat
    BY <2>a, <2>3, <2>4, <2>5, RemoteAssumption
  <2>c. r + 1 <= Parts /\ (t - 1) + r <= Parts /\ (t - 1) + (r + 1) <= Parts
    BY <2>b, RoomForOne
  <2>6. Append(o.remaining, x) \in Objects
    <3>1. Len(Append(o.remaining, x)) <= Parts
      BY <2>b, <2>c
    <3> QED BY <2>5, <3>1, ObjectsAreSequences
  <2>7. PICK gone : gone = [o EXCEPT !.todo = Tail(o.todo), !.deleted = o.deleted \cup {x}]
    OBVIOUS
  <2>8. PICK kept : kept = [o EXCEPT !.todo = Tail(o.todo), !.remaining = Append(o.remaining, x)]
    OBVIOUS
  <2>9. gone \in CommandRow /\ kept \in CommandRow
    BY <2>1, <2>4, <2>6, <2>7, <2>8 DEF CommandRow
  <2>10. Len(gone.todo) + Len(gone.remaining) <= Parts /\ Len(kept.todo) + Len(kept.remaining) <= Parts
    <3>1. gone.todo = Tail(o.todo) /\ gone.remaining = o.remaining
          /\ kept.todo = Tail(o.todo) /\ kept.remaining = Append(o.remaining, x)
      BY <2>1, <2>7, <2>8 DEF CommandRow
    <3>2. /\ Len(Tail(o.todo)) + Len(o.remaining) <= Parts
          /\ Len(Tail(o.todo)) + Len(Append(o.remaining, x)) <= Parts
      BY <2>a, <2>b, <2>c
    <3> QED BY <3>1, <3>2
  <2>11. /\ command' = [command EXCEPT ![c] = gone] \/ command' = [command EXCEPT ![c] = kept]
         /\ live' \subseteq live /\ UNCHANGED <<target, job, delivery, round, made, asked>>
    BY <1>9, <2>1, <2>2, <2>7, <2>8 DEF RemoveOne
  <2>12. command' \in [Commands -> CommandRow] /\ CommandsFit'
    <3>1. CASE command' = [command EXCEPT ![c] = gone]
      BY <2>9, <2>10, <3>1, CommandFits
    <3>2. CASE command' = [command EXCEPT ![c] = kept]
      BY <2>9, <2>10, <3>2, CommandFits
    <3> QED BY <2>11, <3>1, <3>2
  <2> QED BY <1>0, <2>11, <2>12 DEF RowsFit, RemoteRows
<1>10. ASSUME NEW c \in Commands, Commits(c) \/ Purges(c) \/ CommandDies(c) PROVE RowsFit'
  <2>1. /\ command' = [command EXCEPT ![c] = Quiet] /\ UNCHANGED <<live, round, made, asked>>
    BY <1>10 DEF Commits, Purges, CommandDies
  <2>2. command' \in [Commands -> CommandRow] /\ CommandsFit'
    <3>1. Len(Quiet.todo) + Len(Quiet.remaining) <= Parts
      BY QuietFits, <1>1, RemoteAssumption
    <3> QED BY <2>1, <3>1, QuietFits, CommandFits
  <2>3. command[c].remaining \in Objects
    BY <1>0 DEF CommandRow
  <2>4. target' \in TargetRow /\ job' \in JobRow /\ delivery' \in [sent: Objects]
    <3>1. CASE Commits(c)
      BY <1>0, <1>1, <1>3, <2>3, <3>1, NoAddress DEF Commits, TargetRow, JobRow
    <3>2. CASE Purges(c)
      BY <1>0, <1>2, <3>2 DEF Purges
    <3>3. CASE CommandDies(c)
      BY <1>0, <3>3 DEF CommandDies
    <3> QED BY <1>10, <3>1, <3>2, <3>3
  <2> QED BY <1>0, <2>1, <2>2, <2>4 DEF RowsFit, RemoteRows
<1>11. CASE UNCHANGED remoteVars
  BY <1>0, <1>11 DEF remoteVars, RowsFit, RemoteRows, CommandsFit
<1> QED BY <1>4, <1>5, <1>6, <1>7, <1>8, <1>9, <1>10, <1>11 DEF RemoteNext

LEMMA RowsAreTyped == RemoteRows => RemoteTypeOK
BY DEF RemoteRows, RemoteTypeOK, TargetRow, JobRow, CommandRow

\* Whatever commands and deliveries run at the same time, settled or not, the rows hold
\* what the schema lets them and no more objects than a delivery has
\* (attemptPublishedTargetRemovals, settlePublishedTargetRemovals, purgePublication).
THEOREM RemoteRowsAreTyped == RemoteSpec => []RemoteTypeOK
<1>1. RowsFit => RemoteTypeOK
  BY RowsAreTyped DEF RowsFit
<1> QED BY <1>1, RowsFitStart, RowsFitStep, PTL DEF RemoteSpec

-----------------------------------------------------------------------------
(* The delivery *)

CommandsKnow == \A c \in Commands : command[c].pc # "idle" => KnowsItsObjects(command[c]) /\ KeepsApart(c, command[c])

LEMMA ClaimKeepsCopies ==
  ASSUME RemoteInv, Claim
  PROVE  RemoteInv'
<1>1. target.status = "queued" /\ job.resume = <<>> /\ live = {}
  BY DEF RemoteInv, StatusesAgree, LiveIsNamed, Claim
<1>2. RemoteRows' /\ StatusesAgree'
  BY <1>1 DEF RemoteInv, RemoteRows, StatusesAgree, Claim, TargetRow, JobRow
<1>3. RoundsPass'
  BY <1>1 DEF RemoteInv, RoundsPass, Claim, RemoteRows, JobRow
<1>4. LiveIsNamed'
  <2>1. target'.status = "publishing" /\ target'.ids = <<>> /\ live' = {} /\ delivery'.sent = <<>>
    BY <1>1 DEF Claim, RemoteInv, RemoteRows, TargetRow, LiveIsNamed
  <2> QED BY <2>1, ToSetOfEmpty DEF LiveIsNamed, OfRound
<1>5. CommandsKnow'
  <2>1. /\ target'.status = "publishing" /\ job'.round = job.round
        /\ UNCHANGED <<command, live, round, made>>
    BY DEF Claim, RemoteInv, RemoteRows, TargetRow, JobRow
  <2>2. ASSUME NEW c \in Commands, command[c].pc # "idle"
        PROVE  KnowsItsObjects(command[c]) /\ KeepsApart(c, command[c])
    BY <2>2 DEF RemoteInv
  <2>3. ASSUME NEW c \in Commands, command[c].pc # "idle"
        PROVE  (KnowsItsObjects(command[c]) /\ KeepsApart(c, command[c]))'
    BY <1>1, <2>1, <2>2, <2>3 DEF KnowsItsObjects, KeepsApart, Unfenced
  <2> QED BY <2>1, <2>3 DEF CommandsKnow
<1> QED BY <1>2, <1>3, <1>4, <1>5 DEF RemoteInv, CommandsKnow

LEMMA SendKeepsCopies ==
  ASSUME RemoteInv, SendPart
  PROVE  RemoteInv'
<1> DEFINE x == made + 1
<1>1. target.status = "publishing" /\ x \in Object /\ delivery.sent \in Objects /\ Len(delivery.sent) < Parts /\ made \in Nat
  BY RemoteAssumption DEF RemoteInv, RemoteRows, StatusesAgree, SendPart, Underway, Object
<1>2. /\ Append(delivery.sent, x) \in Objects
      /\ ToSet(Append(delivery.sent, x)) = ToSet(delivery.sent) \cup {x}
  <2>1. Len(delivery.sent) + 1 <= Parts
    BY <1>1, ToSetOfAppend, RemoteAssumption
  <2> QED BY <2>1, <1>1, ToSetOfAppend, ObjectsAreSequences
<1>3. /\ live' = live \cup {x} /\ made' = x /\ round' = [round EXCEPT ![x] = job.round]
      /\ delivery' = [sent |-> Append(delivery.sent, x)] /\ UNCHANGED <<target, job, command, asked>>
  BY DEF SendPart
<1>4. x \notin 1 .. made /\ 1 .. x = 1 .. made \cup {x} /\ x \in 1 .. x
  BY <1>1
<1> HIDE DEF x
<1>5. \A y \in Object : round'[y] = IF y = x THEN job.round ELSE round[y]
  BY <1>3 DEF RemoteInv, RemoteRows
<1>6. 1 .. made \subseteq Object /\ job.round \in Nat /\ round' \in [Object -> Nat]
  BY <1>1, <1>3, RemoteAssumption DEF RemoteInv, RemoteRows, JobRow, Object
<1>7. RemoteRows' /\ StatusesAgree'
  <2>1. made' \in 0 .. MaxObjects
    BY <1>1, <1>3 DEF Object
  <2> QED BY <1>1, <1>2, <1>3, <1>6, <2>1 DEF RemoteInv, RemoteRows, StatusesAgree
<1>8. RoundsPass'
  BY <1>3, <1>4, <1>5, <1>6 DEF RemoteInv, RoundsPass
<1>9. LiveIsNamed'
  BY <1>1, <1>2, <1>3, <1>4, <1>5, <1>6 DEF RemoteInv, LiveIsNamed, OfRound
<1>10. CommandsKnow'
  <2>1. ASSUME NEW c \in Commands, command[c].pc # "idle"
        PROVE  KnowsItsObjects(command[c]) /\ KeepsApart(c, command[c])
    BY <2>1 DEF RemoteInv
  <2>2. ASSUME NEW c \in Commands, command[c].pc # "idle"
        PROVE  (KnowsItsObjects(command[c]) /\ KeepsApart(c, command[c]))'
    <3>1. command[c].seen.ids \in Objects
      BY DEF RemoteInv, RemoteRows, CommandRow, TargetRow
    <3>2. KeepsApart(c, command[c])'
      BY <2>1, <2>2, <1>3 DEF KeepsApart, Unfenced
    <3>3. ToSet(command[c].seen.ids) \subseteq 1 .. made /\ command[c].deleted \subseteq 1 .. made
      BY <2>1, <2>2 DEF KnowsItsObjects
    <3>4. KnowsItsObjects(command[c])'
      <4>1. \A y \in ToSet(command[c].seen.ids) : round'[y] = round[y] /\ y # x
        BY <3>3, <1>4, <1>5, <1>6
      <4>2. ToSet(command[c].seen.ids) \subseteq 1 .. x /\ command[c].deleted \subseteq 1 .. x /\ x \notin command[c].deleted
        BY <3>3, <1>4
      <4>3. KnowsItsObjects(command[c])
        BY <2>1, <2>2
      <4>4. command[c].seen.status = "published" => command[c].seen.ids[1] \in ToSet(command[c].seen.ids)
        BY <4>3, <3>1, FirstIsInSet DEF KnowsItsObjects
      <4> QED BY <4>1, <4>2, <4>3, <4>4, <1>1, <1>3 DEF KnowsItsObjects
    <3> QED BY <3>2, <3>4
  <2> QED BY <2>2, <1>3 DEF CommandsKnow
<1> QED BY <1>7, <1>8, <1>9, <1>10 DEF RemoteInv, CommandsKnow

LEMMA DeliveredKeepsCopies ==
  ASSUME RemoteInv, Delivered
  PROVE  RemoteInv'
<1>1. target.status = "publishing" /\ live \subseteq ToSet(delivery.sent) /\ OfRound(delivery.sent)
  BY DEF RemoteInv, StatusesAgree, LiveIsNamed, Delivered, Underway
<1>2. /\ target'.status = "published" /\ target'.ids = delivery.sent /\ target' \in TargetRow
      /\ job'.status = "published" /\ job'.round = job.round /\ UNCHANGED <<command, live, round, made, asked>>
  <2>1. delivery.sent \in Objects /\ delivery.sent[1] \in Address
    BY FirstAddress DEF Delivered, RemoteInv, RemoteRows
  <2> QED BY <2>1, NoAddress DEF Delivered, RemoteInv, RemoteRows, JobRow, TargetRow
<1>3. delivery.sent # <<>> /\ delivery.sent \in Objects
  BY ToSetOfEmpty, RemoteAssumption DEF Delivered, RemoteInv, RemoteRows
<1>4. RemoteRows' /\ StatusesAgree'
  <2>1. target' \in TargetRow /\ delivery' \in [sent: Objects]
    BY <1>2, ToSetOfEmpty DEF Delivered, NoDelivery
  <2>2. job' \in JobRow
    BY ToSetOfEmpty DEF Delivered, RemoteInv, RemoteRows, JobRow
  <2> QED BY <1>2, <2>1, <2>2 DEF RemoteInv, RemoteRows, StatusesAgree
<1>5. RoundsPass' /\ LiveIsNamed'
  BY <1>1, <1>2, <1>3 DEF RemoteInv, RoundsPass, LiveIsNamed, OfRound
<1>6. CommandsKnow'
  <2>1. ASSUME NEW c \in Commands, command[c].pc # "idle"
        PROVE  (KnowsItsObjects(command[c]) /\ KeepsApart(c, command[c]))'
    <3>1. KnowsItsObjects(command[c]) /\ KeepsApart(c, command[c])
      BY <2>1 DEF RemoteInv
    <3>2. KeepsApart(c, command[c])'
      BY <3>1, <1>1, <1>2 DEF KeepsApart, Unfenced
    <3>3. command[c].seen.ids \in Objects
      BY DEF RemoteInv, RemoteRows, CommandRow, TargetRow
    <3>4. command[c].seen.status = "published" => round[command[c].seen.ids[1]] # job.round
      <4>1. ASSUME command[c].seen.status = "published" PROVE round[command[c].seen.ids[1]] # job.round
        <5>1. command[c].seen.ids[1] \in ToSet(command[c].seen.ids)
          BY <4>1, <3>1, <3>3, FirstIsInSet DEF KnowsItsObjects
        <5>2. round[command[c].seen.ids[1]] < job.round
          BY <5>1, <4>1, <3>1, <1>1 DEF KnowsItsObjects
        <5>3. 1 .. made \subseteq Object /\ ToSet(command[c].seen.ids) \subseteq 1 .. made
          BY <3>1, RemoteAssumption DEF KnowsItsObjects, Object, RemoteInv, RemoteRows
        <5>4. round[command[c].seen.ids[1]] \in Nat /\ job.round \in Nat
          BY <5>1, <5>3 DEF RemoteInv, RemoteRows, JobRow
        <5> QED BY <5>2, <5>4
      <4> QED BY <4>1
    <3>5. KnowsItsObjects(command[c])'
      BY <3>1, <3>4, <1>1, <1>2 DEF KnowsItsObjects
    <3> QED BY <3>2, <3>5
  <2> QED BY <2>1, <1>2 DEF CommandsKnow
<1> QED BY <1>4, <1>5, <1>6 DEF RemoteInv, CommandsKnow

LEMMA FailureKeepsCopies ==
  ASSUME RemoteInv, DeliveryFails
  PROVE  RemoteInv'
<1>1. target.status = "publishing" /\ live \subseteq ToSet(delivery.sent) /\ OfRound(delivery.sent)
  BY DEF RemoteInv, StatusesAgree, LiveIsNamed, DeliveryFails, Underway
<1>2. /\ target' = [target EXCEPT !.status = "failed"] /\ target'.status = "failed" /\ target'.ids = target.ids
      /\ job'.status = "failed" /\ job'.resume = delivery.sent
      /\ job'.round = job.round /\ UNCHANGED <<command, live, round, made, asked>>
  BY DEF DeliveryFails, RemoteInv, RemoteRows, JobRow, TargetRow
<1>3. RemoteRows' /\ StatusesAgree'
  <2>1. target' \in TargetRow /\ delivery' \in [sent: Objects]
    BY <1>2, ToSetOfEmpty DEF DeliveryFails, NoDelivery, RemoteInv, RemoteRows, TargetRow
  <2>2. job' \in JobRow
    BY DEF DeliveryFails, RemoteInv, RemoteRows, JobRow
  <2> QED BY <1>2, <2>1, <2>2 DEF RemoteInv, RemoteRows, StatusesAgree
<1>4. RoundsPass' /\ LiveIsNamed'
  BY <1>1, <1>2 DEF RemoteInv, RoundsPass, LiveIsNamed, OfRound
<1>5. CommandsKnow'
  <2>1. ASSUME NEW c \in Commands, command[c].pc # "idle"
        PROVE  (KnowsItsObjects(command[c]) /\ KeepsApart(c, command[c]))'
    <3>1. KnowsItsObjects(command[c]) /\ KeepsApart(c, command[c])
      BY <2>1 DEF RemoteInv
    <3> QED BY <3>1, <1>1, <1>2 DEF KeepsApart, Unfenced, KnowsItsObjects
  <2> QED BY <2>1, <1>2 DEF CommandsKnow
<1> QED BY <1>3, <1>4, <1>5 DEF RemoteInv, CommandsKnow


-----------------------------------------------------------------------------
(* Commands *)

\* The rows and what is live are as they were, or less is live.
LEMMA OthersStillKnow ==
  ASSUME RemoteInv, NEW d \in Commands, command[d].pc # "idle", live' \subseteq live,
         UNCHANGED <<target, job, round, made>>
  PROVE  /\ ToSet(command[d].seen.ids) \subseteq 1 .. made' /\ KnowsItsObjects(command[d])
         /\ command'[d] = command[d] => KnowsItsObjects(command[d])'
<1>1. KnowsItsObjects(command[d])
  BY DEF RemoteInv
<1> QED BY <1>1 DEF KnowsItsObjects

LEMMA AskKeepsCopies ==
  ASSUME RemoteInv, Settled, NEW c \in Commands, NEW k \in Kinds, NEW named \in BOOLEAN, Asks(c, k, named)
  PROVE  RemoteInv'
<1>a. PICK todo : todo = IF k # "purge" /\ target.status = "published" THEN target.ids ELSE <<>>
  OBVIOUS
<1>b. PICK new : new = [Quiet EXCEPT !.pc = IF k = "purge" THEN "verified" ELSE "acting",
                                !.kind = k, !.named = named, !.seen = target, !.todo = todo]
  OBVIOUS
<1>1. /\ command' = [command EXCEPT ![c] = new] /\ UNCHANGED <<target, job, delivery, live, round, made>>
      /\ asked' \in 0 .. MaxAsked /\ command[c].pc = "idle" /\ target.status # "absent"
  BY <1>a, <1>b, RemoteAssumption DEF Asks, RemoteInv, RemoteRows
<1>2. /\ (k = "purge" \/ named) => target.status \in {"absent", "published", "deleted"}
      /\ \A d \in Commands \ {c} :
           /\ ~Unfenced(command[d])
           /\ named /\ target.status # "published" => command[d].pc = "idle"
      /\ k = "purge" => ~named /\ (target.status = "published" => live \cap ToSet(target.ids) = {})
  BY DEF Asks, AtRest, Settled
<1>3. /\ new.pc = (IF k = "purge" THEN "verified" ELSE "acting") /\ new.kind = k /\ new.named = named
      /\ new.seen = target /\ new.todo = todo /\ new.deleted = {} /\ new.remaining = <<>>
      /\ todo \in Objects /\ target \in TargetRow /\ target.ids \in Objects
  BY <1>a, <1>b, ToSetOfEmpty DEF Quiet, NoTarget, RemoteInv, RemoteRows, TargetRow
<1>4. new \in CommandRow
  BY <1>a, <1>b, <1>3, ToSetOfEmpty DEF CommandRow, Quiet
<1>5. KnowsItsObjects(new)
  <2>1. ToSet(target.ids) \subseteq 1 .. made /\ ToSet(todo) \subseteq ToSet(target.ids)
    BY <1>a, ToSetOfEmpty DEF RemoteInv, LiveIsNamed, OfRound
  <2>2. Len(todo) + Len(new.remaining) <= Parts
    <3>1. Len(todo) <= Parts /\ Len(todo) \in Nat
      BY <1>3, ObjectsAreSequences, LenProperties
    <3>2. Len(new.remaining) = 0
      BY <1>3, ToSetOfEmpty
    <3> QED BY <3>1, <3>2
  <2>3. target.status = "published" =>
          /\ target.ids # <<>> /\ live \subseteq ToSet(target.ids)
          /\ \A x \in ToSet(target.ids) : round[x] = round[target.ids[1]]
    BY <1>3, FirstIsInSet DEF RemoteInv, LiveIsNamed, OfRound
  <2>4. target.status = "published" /\ new.pc = "verified" => live \cap ToSet(target.ids) = {}
    BY <1>2, <1>3
  <2>5. target.status = "published" /\ new.pc = "acting" => ToSet(target.ids) = ToSet(todo)
    BY <1>a, <1>3
  <2>6. ToSet(new.remaining) = {}
    BY <1>3, ToSetOfEmpty
  <2> QED BY <2>1, <2>2, <2>3, <2>4, <2>5, <2>6, <1>3 DEF KnowsItsObjects
<1>6. (new.pc = "verified" => new.seen.status \in {"published", "deleted"})
      /\ (Unfenced(new) => target.status = "deleted" /\ \A d \in Commands \ {c} : command[d].pc = "idle")
  BY <1>1, <1>2, <1>3 DEF Unfenced
<1>7. RemoteRows' /\ StatusesAgree' /\ LiveIsNamed' /\ RoundsPass'
  BY <1>1, <1>4 DEF RemoteInv, RemoteRows, StatusesAgree, LiveIsNamed, OfRound, RoundsPass
<1>8. \A d \in Commands : command'[d] = IF d = c THEN new ELSE command[d]
  BY <1>1 DEF RemoteInv, RemoteRows
<1>9. CommandsKnow'
  <2>1. ASSUME NEW d \in Commands, command'[d].pc # "idle"
        PROVE  (KnowsItsObjects(command[d]) /\ KeepsApart(d, command[d]))'
    <3>1. CASE d = c
      <4>1. KnowsItsObjects(new)'
        BY <1>1, <1>5 DEF KnowsItsObjects
      <4>2. command'[c] = new /\ \A e \in Commands \ {c} : command'[e] = command[e]
        BY <1>8
      <4>3. KeepsApart(c, new)'
        BY <4>2, <1>1, <1>6 DEF KeepsApart, Unfenced
      <4> QED BY <4>1, <4>2, <4>3, <3>1
    <3>2. CASE d # c
      <4>1. KnowsItsObjects(command[d]) /\ KeepsApart(d, command[d]) /\ ~Unfenced(command[d]) /\ command'[d] = command[d]
        BY <2>1, <3>2, <1>2, <1>8 DEF RemoteInv
      <4> QED BY <4>1, <1>1 DEF KeepsApart, KnowsItsObjects, Unfenced
    <3> QED BY <3>1, <3>2
  <2> QED BY <2>1 DEF CommandsKnow
<1> QED BY <1>7, <1>9 DEF RemoteInv, CommandsKnow

LEMMA RemoveKeepsCopies ==
  ASSUME RemoteInv, NEW c \in Commands, RemoveOne(c)
  PROVE  RemoteInv'
<1> DEFINE o == command[c]
           x == Head(o.todo)
<1>1. o.pc = "acting" /\ o.todo # <<>> /\ KnowsItsObjects(o) /\ KeepsApart(c, o) /\ o \in CommandRow
  BY DEF RemoveOne, RemoteInv, RemoteRows
<1>2. PICK new \in {[o EXCEPT !.todo = Tail(@), !.deleted = @ \cup {x}],
                    [o EXCEPT !.todo = Tail(@), !.remaining = Append(@, x)]} :
        /\ command' = [command EXCEPT ![c] = new] /\ live' \subseteq live
        /\ new = [o EXCEPT !.todo = Tail(@), !.deleted = @ \cup {x}] => x \in live /\ live' = live \ {x}
  <2>1. CASE x \in live /\ live' = live \ {x} /\ command' = [command EXCEPT ![c] = [o EXCEPT !.todo = Tail(@), !.deleted = @ \cup {x}]]
    BY <2>1
  <2>2. CASE UNCHANGED live /\ command' = [command EXCEPT ![c] = [o EXCEPT !.todo = Tail(@), !.remaining = Append(@, x)]]
    <3>1. [o EXCEPT !.todo = Tail(@), !.remaining = Append(@, x)] # [o EXCEPT !.todo = Tail(@), !.deleted = @ \cup {x}]
      <4>1. [o EXCEPT !.todo = Tail(@), !.remaining = Append(@, x)].remaining = Append(o.remaining, x)
            /\ [o EXCEPT !.todo = Tail(@), !.deleted = @ \cup {x}].remaining = o.remaining
        BY <1>1 DEF CommandRow
      <4>2. o.remaining \in Objects /\ x \in Object
        BY <1>1, ToSetOfTail DEF CommandRow
      <4>3. Len(Append(o.remaining, x)) # Len(o.remaining)
        BY <4>2, ToSetOfAppend
      <4> QED BY <4>1, <4>3
    <3> QED BY <2>2, <3>1
  <2> QED BY <2>1, <2>2 DEF RemoveOne
<1>3. UNCHANGED <<target, job, delivery, round, made, asked>>
  BY DEF RemoveOne
<1>4. /\ o.todo \in Objects /\ o.remaining \in Objects /\ o.deleted \subseteq Object /\ o.seen.ids \in Objects
      /\ Tail(o.todo) \in Objects /\ Len(Tail(o.todo)) = Len(o.todo) - 1 /\ Len(o.todo) \in Nat \ {0} /\ x \in Object
      /\ ToSet(o.todo) = {x} \cup ToSet(Tail(o.todo))
  <2>1. o.todo \in Objects /\ o.remaining \in Objects /\ o.deleted \subseteq Object /\ o.seen.ids \in Objects
    BY <1>1 DEF CommandRow, TargetRow
  <2> QED BY <2>1, <1>1, ToSetOfTail
<1>5. /\ Append(o.remaining, x) \in Objects /\ Len(Append(o.remaining, x)) = Len(o.remaining) + 1
      /\ ToSet(Append(o.remaining, x)) = ToSet(o.remaining) \cup {x} /\ Len(o.remaining) \in Nat
  <2>1. /\ Append(o.remaining, x) \in Seq(Object) /\ Len(Append(o.remaining, x)) = Len(o.remaining) + 1
        /\ ToSet(Append(o.remaining, x)) = ToSet(o.remaining) \cup {x} /\ Len(o.remaining) \in Nat
    BY <1>4, ToSetOfAppend
  <2>2. Len(o.remaining) + 1 <= Parts
    <3>1. Len(o.todo) + Len(o.remaining) <= Parts
      BY <1>1 DEF KnowsItsObjects
    <3>2. Len(o.todo) \in Nat \ {0} /\ Len(o.remaining) \in Nat /\ Parts \in Nat
      BY <1>4, <2>1, RemoteAssumption
    <3> HIDE DEF o
    <3> QED BY <3>1, <3>2, RoomForOne
  <2> QED BY <2>1, <2>2, ObjectsAreSequences
<1>6. /\ new \in CommandRow /\ new.pc = "acting" /\ new.seen = o.seen /\ new.named = o.named /\ new.todo = Tail(o.todo)
      /\ \/ new.deleted = o.deleted \cup {x} /\ new.remaining = o.remaining /\ x \in live /\ x \notin live'
         \/ new.deleted = o.deleted /\ new.remaining = Append(o.remaining, x)
  <2>1. CASE new = [o EXCEPT !.todo = Tail(@), !.deleted = @ \cup {x}]
    BY <2>1, <1>1, <1>2, <1>4 DEF CommandRow
  <2>2. CASE new = [o EXCEPT !.todo = Tail(@), !.remaining = Append(@, x)]
    BY <2>2, <1>1, <1>4, <1>5 DEF CommandRow
  <2> QED BY <2>1, <2>2, <1>2
<1>7. KnowsItsObjects(new)'
  <2>1. /\ ToSet(new.seen.ids) \subseteq 1 .. made /\ new.deleted \subseteq 1 .. made /\ new.deleted \cap live' = {}
    BY <1>1, <1>2, <1>6 DEF KnowsItsObjects, RemoteInv, LiveIsNamed
  <2>2. Len(new.todo) + Len(new.remaining) <= Parts
    <3>1. Len(o.todo) + Len(o.remaining) <= Parts
      BY <1>1 DEF KnowsItsObjects
    <3>2. Len(new.todo) = Len(o.todo) - 1 /\ (Len(new.remaining) = Len(o.remaining) \/ Len(new.remaining) = Len(o.remaining) + 1)
      BY <1>4, <1>5, <1>6
    <3>3. Len(o.todo) \in Nat \ {0} /\ Len(o.remaining) \in Nat /\ Parts \in Nat
      BY <1>4, <1>5, RemoteAssumption
    <3> HIDE DEF o
    <3> QED BY <3>1, <3>2, <3>3, RoomForOne
  <2>3. /\ ToSet(new.remaining) \cup ToSet(new.todo) \subseteq ToSet(new.seen.ids)
        /\ o.deleted \cup ToSet(o.todo) \cup ToSet(o.remaining) \subseteq new.deleted \cup ToSet(new.todo) \cup ToSet(new.remaining)
    BY <1>1, <1>4, <1>5, <1>6 DEF KnowsItsObjects
  <2> QED BY <2>1, <2>2, <2>3, <1>1, <1>2, <1>3, <1>6 DEF KnowsItsObjects
<1>8. KeepsApart(c, new) /\ (Unfenced(new) => Unfenced(o))
  BY <1>1, <1>6 DEF KeepsApart, Unfenced
<1> HIDE DEF o, x
<1>9. RemoteRows' /\ StatusesAgree' /\ LiveIsNamed' /\ RoundsPass'
  BY <1>2, <1>3, <1>6 DEF RemoteInv, RemoteRows, StatusesAgree, LiveIsNamed, OfRound, RoundsPass
<1>10. \A d \in Commands : command'[d] = IF d = c THEN new ELSE command[d]
  BY <1>2 DEF RemoteInv, RemoteRows
<1>11. \A d \in Commands : command'[d].pc = command[d].pc
  BY <1>1, <1>6, <1>10 DEF o
<1>12. CommandsKnow'
  <2>1. ASSUME NEW d \in Commands, command'[d].pc # "idle"
        PROVE  (KnowsItsObjects(command[d]) /\ KeepsApart(d, command[d]))'
    <3>1. CASE d = c
      <4>1. command'[d] = new
        BY <3>1, <1>10
      <4> QED BY <4>1, <3>1, <1>3, <1>7, <1>8, <1>11 DEF KeepsApart, KnowsItsObjects, Unfenced
    <3>2. CASE d # c
      <4>1. KnowsItsObjects(command[d]) /\ KeepsApart(d, command[d]) /\ command'[d] = command[d]
        BY <2>1, <3>2, <1>10 DEF RemoteInv
      <4>2. KnowsItsObjects(command[d])'
        BY <4>1, <1>2, <1>3 DEF KnowsItsObjects
      <4> QED BY <4>1, <4>2, <1>3, <1>11 DEF KeepsApart, Unfenced
    <3> QED BY <3>1, <3>2
  <2> QED BY <2>1 DEF CommandsKnow
<1> QED BY <1>9, <1>12 DEF RemoteInv, CommandsKnow

LEMMA DeathKeepsCopies ==
  ASSUME RemoteInv, NEW c \in Commands, command' = [command EXCEPT ![c] = Quiet],
         UNCHANGED <<target, job, delivery, live, round, made, asked>>
  PROVE  RemoteInv'
<1>1. Quiet \in CommandRow /\ Quiet.pc = "idle"
  BY QuietFits
<1>2. RemoteRows' /\ StatusesAgree' /\ LiveIsNamed' /\ RoundsPass'
  BY <1>1 DEF RemoteInv, RemoteRows, StatusesAgree, LiveIsNamed, OfRound, RoundsPass
<1>3. \A d \in Commands : command'[d] = IF d = c THEN Quiet ELSE command[d]
  BY DEF RemoteInv, RemoteRows
<1>4. CommandsKnow'
  <2>1. ASSUME NEW d \in Commands, command'[d].pc # "idle"
        PROVE  (KnowsItsObjects(command[d]) /\ KeepsApart(d, command[d]))'
    <3>1. KnowsItsObjects(command[d]) /\ KeepsApart(d, command[d]) /\ command'[d] = command[d]
      BY <2>1, <1>1, <1>3 DEF RemoteInv
    <3>2. \A e \in Commands : command[e].pc = "idle" => command'[e].pc = "idle"
      BY <1>1, <1>3
    <3> QED BY <3>1, <3>2 DEF KeepsApart, KnowsItsObjects, Unfenced
  <2> QED BY <2>1 DEF CommandsKnow
<1> QED BY <1>2, <1>4 DEF RemoteInv, CommandsKnow

\* What the others knew holds for a row that was just taken down or asked for anew,
\* and nobody among them is without a fence.
LEMMA CommitEndsWell ==
  ASSUME RemoteInv, NEW c \in Commands, command' = [command EXCEPT ![c] = Quiet],
         UNCHANGED <<live, round, made>>,
         \A d \in Commands \ {c} : command[d].pc # "idle" =>
           ~Unfenced(command[d]) /\ (KnowsItsObjects(command[d])) /\
           (command[d].seen.status = "published" =>
             /\ target'.status \in {"queued", "publishing"} => \A x \in ToSet(command[d].seen.ids) : round[x] < job'.round
             /\ target'.status = "published" /\ round[command[d].seen.ids[1]] = job'.round
                  => live \subseteq ToSet(command[d].seen.ids))
  PROVE  CommandsKnow'
<1>1. Quiet \in CommandRow /\ Quiet.pc = "idle"
  BY QuietFits
<1>2. \A d \in Commands : command'[d] = IF d = c THEN Quiet ELSE command[d]
  BY DEF RemoteInv, RemoteRows
<1>3. ASSUME NEW d \in Commands, command'[d].pc # "idle"
      PROVE  (KnowsItsObjects(command[d]) /\ KeepsApart(d, command[d]))'
  <2>1. d # c /\ command'[d] = command[d] /\ KeepsApart(d, command[d]) /\ KnowsItsObjects(command[d])
    BY <1>1, <1>2, <1>3 DEF RemoteInv
  <2>2. /\ ~Unfenced(command[d])
        /\ command[d].seen.status = "published" =>
             /\ target'.status \in {"queued", "publishing"} => \A x \in ToSet(command[d].seen.ids) : round[x] < job'.round
             /\ target'.status = "published" /\ round[command[d].seen.ids[1]] = job'.round
                  => live \subseteq ToSet(command[d].seen.ids)
    BY <1>3, <2>1
  <2>3. KeepsApart(d, command[d])'
    BY <2>1, <2>2 DEF KeepsApart, Unfenced
  <2> QED BY <2>1, <2>2, <2>3 DEF KnowsItsObjects
<1> QED BY <1>3 DEF CommandsKnow

LEMMA CommitKeepsCopies ==
  ASSUME RemoteInv, NEW c \in Commands, Commits(c)
  PROVE  RemoteInv'
<1>1. PICK o : o = command[c]
  OBVIOUS
<1>2. /\ o.pc = "acting" /\ o.todo = <<>> /\ o \in CommandRow /\ KnowsItsObjects(o) /\ KeepsApart(c, o)
      /\ o.seen.ids \in Objects /\ o.remaining \in Objects
      /\ command' = [command EXCEPT ![c] = Quiet] /\ UNCHANGED <<delivery, live, round, made, asked>>
  BY <1>1 DEF Commits, RemoteInv, RemoteRows, CommandRow, TargetRow
<1>3. Quiet \in CommandRow
  BY QuietFits
\* The row still names what the command saw, so what is live is among it.
<1>4. ASSUME SameRemoteObject(o)
      PROVE  /\ target.status = "published" /\ live \subseteq ToSet(o.remaining)
             /\ OfRound(o.remaining)
  <2>1. /\ o.seen.status = "published" /\ target.status = "published" /\ target.ids[1] = o.seen.ids[1]
        /\ target.ids # <<>> /\ target.ids \in Objects /\ OfRound(target.ids) /\ o.seen.ids # <<>>
    BY <1>2, <1>4 DEF SameRemoteObject, RemoteInv, LiveIsNamed, RemoteRows, TargetRow, KnowsItsObjects
  <2>2. round[o.seen.ids[1]] = job.round
    BY <2>1, FirstIsInSet DEF OfRound
  <2>3. live \subseteq ToSet(o.seen.ids) /\ OfRound(o.seen.ids)
    BY <1>2, <2>1, <2>2 DEF KnowsItsObjects, OfRound
  <2>4. /\ ToSet(o.todo) = {} /\ ToSet(o.seen.ids) \subseteq o.deleted \cup ToSet(o.remaining) /\ o.deleted \cap live = {}
        /\ ToSet(o.remaining) \subseteq ToSet(o.seen.ids)
    BY <1>2, <2>1, ToSetOfEmpty DEF KnowsItsObjects
  <2> QED BY <2>1, <2>3, <2>4 DEF OfRound
<1>5. RemovedAll(o) => target.status = "published" /\ live = {}
  BY <1>4, ToSetOfEmpty DEF RemovedAll
<1>6. RemoteRows => job \in JobRow /\ target \in TargetRow /\ job.round \in Nat /\ job.round + 1 \in Nat
  BY DEF RemoteRows, JobRow
<1>7. ASSUME NEW d \in Commands, command[d].pc # "idle"
      PROVE  KnowsItsObjects(command[d]) /\ KeepsApart(d, command[d])
  BY <1>7 DEF RemoteInv
<1>8. CASE Republishes(o) /\ Requeueable /\ (job.status # "queued" \/ RemovedAll(o))
  <2>1. /\ target' = [status |-> "queued", ids |-> <<>>, url |-> 0]
        /\ job' = [status |-> "queued", resume |-> <<>>, round |-> job.round + 1]
    BY <1>1, <1>8 DEF Commits
  <2>2. RemovedAll(o) \/ Unfenced(o)
    BY <1>2, <1>8 DEF Republishes, Unfenced
  <2>3. live = {} /\ target.status \in {"published", "deleted"}
    BY <2>2, <1>2, <1>5 DEF KeepsApart, RemoteInv, LiveIsNamed
  <2>4. RemoteRows' /\ StatusesAgree' /\ LiveIsNamed'
    BY <1>2, <1>3, <1>6, <2>1, <2>3, ToSetOfEmpty, NoAddress DEF RemoteInv, RemoteRows, StatusesAgree, LiveIsNamed,
       TargetRow, JobRow
  <2>5. \A x \in 1 .. made : round[x] < job.round + 1
    <3>1. 1 .. made \subseteq Object
      BY RemoteAssumption DEF RemoteInv, RemoteRows, Object
    <3>2. \A x \in 1 .. made : round[x] <= job.round /\ round[x] \in Nat
      BY <2>3, <3>1 DEF RemoteInv, RoundsPass, RemoteRows
    <3> QED BY <3>2, <1>6 DEF RemoteInv
  <2>6. RoundsPass'
    <3>1. 1 .. made \subseteq Object
      BY RemoteAssumption DEF RemoteInv, RemoteRows, Object
    <3>2. \A x \in 1 .. made : round[x] <= job.round + 1
      BY <2>5, <3>1, <1>6 DEF RemoteInv, RemoteRows
    <3> QED BY <3>2, <1>2, <2>1 DEF RoundsPass
  <2>7. \A d \in Commands \ {c} : command[d].pc # "idle" => ~Unfenced(command[d])
    BY <2>2, <1>2, <1>5, <1>7 DEF KeepsApart
  <2>8. CommandsKnow'
    <3>1. ASSUME NEW d \in Commands \ {c}, command[d].pc # "idle"
          PROVE  \A x \in ToSet(command[d].seen.ids) : round[x] < job'.round
      BY <1>7, <3>1, <2>1, <2>5 DEF KnowsItsObjects
    <3>2. target'.status = "queued"
      BY <2>1
    <3> QED BY <3>1, <3>2, <1>2, <1>7, <2>7, CommitEndsWell
  <2> QED BY <2>4, <2>6, <2>8 DEF RemoteInv, CommandsKnow
<1>9. CASE ~(Republishes(o) /\ Requeueable /\ (job.status # "queued" \/ RemovedAll(o))) /\ RemovedAll(o)
  <2>1. job.status = "published" /\ target.status = "published" /\ live = {}
    BY <1>5, <1>9 DEF RemoteInv, StatusesAgree
  <2>2. target' = [status |-> "deleted", ids |-> <<>>, url |-> 0] /\ job' = [job EXCEPT !.status = "cancelled"]
        /\ job'.status = "cancelled" /\ job'.round = job.round
    BY <1>1, <1>6, <1>9, <2>1 DEF Commits, RemoteInv, JobRow
  <2>3. RemoteRows' /\ StatusesAgree' /\ LiveIsNamed' /\ RoundsPass'
    <3>1. target' \in TargetRow /\ job' \in JobRow
      BY <2>2, <1>6, ToSetOfEmpty, NoAddress DEF TargetRow, JobRow, RemoteInv
    <3>2. RemoteRows'
      BY <3>1, <1>2, <1>3 DEF RemoteInv, RemoteRows
    <3>3. StatusesAgree' /\ LiveIsNamed'
      BY <1>2, <2>1, <2>2 DEF RemoteInv, StatusesAgree, LiveIsNamed
    <3>4. RoundsPass'
      BY <1>2, <2>1, <2>2 DEF RemoteInv, RoundsPass
    <3> QED BY <3>2, <3>3, <3>4
  <2>4. \A d \in Commands \ {c} : command[d].pc # "idle" => ~Unfenced(command[d])
    BY <2>1, <1>7 DEF KeepsApart
  <2>5. CommandsKnow'
    <3>1. target'.status = "deleted"
      BY <2>2
    <3> QED BY <3>1, <1>2, <1>7, <2>4, CommitEndsWell
  <2> QED BY <2>3, <2>5 DEF RemoteInv, CommandsKnow
<1>10. CASE /\ ~(Republishes(o) /\ Requeueable /\ (job.status # "queued" \/ RemovedAll(o)))
            /\ ~RemovedAll(o) /\ SameRemoteObject(o)
  <2>1. /\ target.status = "published" /\ live \subseteq ToSet(o.remaining) /\ OfRound(o.remaining)
    BY <1>4, <1>10
  <2>2. target' = [target EXCEPT !.ids = o.remaining] /\ job' = job
        /\ target'.status = "published" /\ target'.ids = o.remaining /\ o.remaining # <<>>
    BY <1>1, <1>6, <1>10, <2>1 DEF Commits, RemovedAll, RemoteInv, TargetRow
  <2>3. RemoteRows' /\ StatusesAgree' /\ LiveIsNamed' /\ RoundsPass'
    <3>1. target' \in TargetRow
      BY <2>2, <1>2, <1>6 DEF TargetRow, RemoteInv
    <3>2. RemoteRows'
      BY <3>1, <1>2, <1>3, <2>2 DEF RemoteInv, RemoteRows
    <3>3. StatusesAgree' /\ LiveIsNamed' /\ RoundsPass'
      BY <1>2, <2>1, <2>2 DEF RemoteInv, StatusesAgree, LiveIsNamed, RoundsPass, OfRound
    <3> QED BY <3>2, <3>3
  <2>4. \A d \in Commands \ {c} : command[d].pc # "idle" => ~Unfenced(command[d])
    BY <2>1, <1>7 DEF KeepsApart
  <2>5. CommandsKnow'
    <3>1. ASSUME NEW d \in Commands \ {c}, command[d].pc # "idle", command[d].seen.status = "published",
                 round[command[d].seen.ids[1]] = job'.round
          PROVE  live \subseteq ToSet(command[d].seen.ids)
      BY <1>7, <3>1, <2>1, <2>2 DEF KnowsItsObjects
    <3> QED BY <3>1, <1>2, <1>7, <2>2, <2>4, CommitEndsWell
  <2> QED BY <2>3, <2>5 DEF RemoteInv, CommandsKnow
<1>11. CASE /\ ~(Republishes(o) /\ Requeueable /\ (job.status # "queued" \/ RemovedAll(o)))
            /\ ~RemovedAll(o) /\ ~SameRemoteObject(o)
  <2>1. target' = target /\ job' = job
    BY <1>1, <1>11 DEF Commits
  <2> QED BY <2>1, <1>2, DeathKeepsCopies
<1> QED BY <1>8, <1>9, <1>10, <1>11

LEMMA PurgeKeepsCopies ==
  ASSUME RemoteInv, LinksFit, NEW c \in Commands, Purges(c)
  PROVE  RemoteInv'
<1>1. CASE ~Unchanged(command[c])
  BY <1>1, DeathKeepsCopies DEF Purges
<1>2. CASE Unchanged(command[c])
  <2>1. /\ target' = NoTarget /\ job' = NoJob /\ delivery' = NoDelivery
        /\ command' = [command EXCEPT ![c] = Quiet] /\ UNCHANGED <<live, round, made, asked>> /\ command[c].pc = "verified"
    BY <1>2 DEF Purges
  <2>2. KnowsItsObjects(command[c]) /\ KeepsApart(c, command[c])
    BY <2>1 DEF RemoteInv
  <2>3. target.status \in {"published", "deleted"} /\ target.status = command[c].seen.status /\ target.url = command[c].seen.url
    BY <1>2, <2>1, <2>2 DEF KeepsApart, Unchanged
  <2>4. live = {}
    <3>1. CASE target.status = "deleted"
      BY <3>1 DEF RemoteInv, LiveIsNamed
    <3>2. CASE target.status = "published"
      <4>1. round[command[c].seen.ids[1]] = job.round
        BY <3>2, <2>1, <2>3 DEF LinksFit, LinkFits, SeenLinkFits
      <4> QED BY <4>1, <3>2, <2>1, <2>2, <2>3 DEF KnowsItsObjects
    <3> QED BY <2>3, <3>1, <3>2
  <2>5. RemoteRows' /\ StatusesAgree' /\ LiveIsNamed' /\ RoundsPass'
    <3>1. Quiet \in CommandRow
      BY QuietFits
    <3>2. NoTarget \in TargetRow /\ NoJob \in JobRow /\ NoDelivery \in [sent: Objects]
      BY ToSetOfEmpty, NoAddress DEF NoTarget, NoJob, NoDelivery, TargetRow, JobRow
    <3>3. RemoteRows'
      BY <2>1, <3>1, <3>2 DEF RemoteInv, RemoteRows
    <3>4. StatusesAgree' /\ LiveIsNamed' /\ RoundsPass'
      BY <2>1, <2>4 DEF StatusesAgree, LiveIsNamed, RoundsPass, NoTarget, NoJob
    <3> QED BY <3>3, <3>4
  <2>6. ASSUME NEW d \in Commands \ {c}, command[d].pc # "idle"
        PROVE  ~Unfenced(command[d]) /\ KnowsItsObjects(command[d])
    BY <2>1, <2>6 DEF RemoteInv, KeepsApart
  <2>7. CommandsKnow'
    <3>1. target'.status = "absent"
      BY <2>1 DEF NoTarget
    <3> QED BY <3>1, <2>1, <2>6, CommitEndsWell
  <2> QED BY <2>5, <2>7 DEF RemoteInv, CommandsKnow
<1> QED BY <1>1, <1>2

\* Addresses are kept: a delivery gives the row that of its first object.
LEMMA LinksKept ==
  ASSUME RemoteInv, LinksFit, Linked, [RemoteNext]_remoteVars
  PROVE  LinksFit'
<1>0. /\ command \in [Commands -> CommandRow] /\ target \in TargetRow /\ delivery.sent \in Objects
      /\ job \in JobRow
  BY DEF RemoteInv, RemoteRows
<1>1. \A d \in Commands : command[d].pc # "idle" => SeenLinkFits(command[d]) /\ KnowsItsObjects(command[d])
  BY DEF LinksFit, RemoteInv
\* A command that goes on, or another's: what it saw is what it saw.
<1>2. ASSUME UNCHANGED round, made' = made, LinkFits',
             \A d \in Commands : command'[d].pc # "idle" => command[d].pc # "idle" /\ command'[d].seen = command[d].seen
      PROVE  LinksFit'
  BY <1>1, <1>2 DEF LinksFit, SeenLinkFits
<1>3. CASE Claim \/ DeliveryFails \/ UNCHANGED remoteVars
  <2>1. UNCHANGED <<command, round, made>>
    BY <1>3 DEF Claim, DeliveryFails, remoteVars
  <2>2. LinkFits'
    BY <1>0, <1>3 DEF Claim, DeliveryFails, remoteVars, LinksFit, LinkFits, TargetRow
  <2> QED BY <1>2, <2>1, <2>2
<1>4. CASE SendPart
  <2>1. /\ made' = made + 1 /\ made \in Nat /\ made < MaxObjects /\ round' = [round EXCEPT ![made + 1] = job.round]
        /\ UNCHANGED <<target, command>> /\ target.status = "publishing" /\ round \in [Object -> Nat]
    BY <1>4, RemoteAssumption DEF SendPart, Underway, RemoteInv, RemoteRows, StatusesAgree
  <2>2. \A y \in 1 .. made : y \in 1 .. made' /\ round'[y] = round[y]
    BY <2>1, RemoteAssumption DEF Object
  <2>3. ASSUME NEW d \in Commands, command[d].pc # "idle", command[d].seen.status = "published"
        PROVE  command[d].seen.ids[1] \in 1 .. made
    <3>1. command[d].seen.ids \in Objects /\ command[d].seen.ids # <<>> /\ ToSet(command[d].seen.ids) \subseteq 1 .. made
      BY <1>0, <1>1, <2>3 DEF KnowsItsObjects, CommandRow, TargetRow
    <3> QED BY <3>1, FirstIsInSet
  <2> QED BY <1>1, <2>1, <2>2, <2>3 DEF LinksFit, LinkFits, SeenLinkFits
<1>5. CASE Delivered
  <2>1. /\ target'.url = delivery.sent[1] /\ job'.round = job.round /\ UNCHANGED <<command, round, made>>
        /\ Len(delivery.sent) = Parts /\ OfRound(delivery.sent)
    BY <1>5 DEF Delivered, Linked, Underway, RemoteInv, RemoteRows, JobRow, LiveIsNamed, StatusesAgree
  <2>2. delivery.sent[1] \in ToSet(delivery.sent)
    BY <1>0, <2>1, FirstAddress
  <2>3. LinkFits'
    BY <2>1, <2>2 DEF LinkFits, OfRound
  <2> QED BY <1>2, <2>1, <2>3
<1>6. ASSUME NEW c \in Commands, NEW k \in Kinds, NEW named \in BOOLEAN, Asks(c, k, named) PROVE LinksFit'
  <2>1. /\ UNCHANGED <<target, job, round, made>> /\ command'[c].seen = target
        /\ \A d \in Commands \ {c} : command'[d] = command[d]
    BY <1>0, <1>6 DEF Asks, Quiet
  <2>2. target.status = "published" => round[target.ids[1]] = job.round
    BY <1>0, FirstIsInSet DEF RemoteInv, LiveIsNamed, OfRound, TargetRow
  <2>3. SeenLinkFits(command[c])'
    BY <2>1, <2>2 DEF SeenLinkFits, LinksFit, LinkFits
  <2>4. \A d \in Commands \ {c} : command'[d].pc # "idle" => SeenLinkFits(command[d])'
    BY <1>1, <2>1 DEF SeenLinkFits
  <2> QED BY <2>1, <2>3, <2>4 DEF LinksFit, LinkFits
<1>7. ASSUME NEW c \in Commands, RemoveOne(c) PROVE LinksFit'
  <2>1. UNCHANGED <<target, job, round, made>> /\ command[c].pc = "acting"
        /\ \A d \in Commands : command'[d].seen = command[d].seen /\ command'[d].pc = command[d].pc
    <3>1. PICK o \in CommandRow : o = command[c]
      BY <1>0
    <3>2. UNCHANGED <<target, job, round, made>> /\ o.pc = "acting"
          /\ \/ command' = [command EXCEPT ![c] = [o EXCEPT !.todo = Tail(@), !.deleted = @ \cup {Head(o.todo)}]]
             \/ command' = [command EXCEPT ![c] = [o EXCEPT !.todo = Tail(@), !.remaining = Append(@, Head(o.todo))]]
      BY <1>7, <3>1 DEF RemoveOne
    <3>3. PICK new : /\ command' = [command EXCEPT ![c] = new]
                     /\ \/ new = [o EXCEPT !.todo = Tail(@), !.deleted = @ \cup {Head(o.todo)}]
                        \/ new = [o EXCEPT !.todo = Tail(@), !.remaining = Append(@, Head(o.todo))]
      BY <3>2
    <3>4. new.seen = o.seen /\ new.pc = o.pc
      BY <3>1, <3>3 DEF CommandRow
    <3>5. \A d \in Commands : command'[d] = IF d = c THEN new ELSE command[d]
      BY <1>0, <3>3
    <3> QED BY <3>1, <3>2, <3>4, <3>5
  <2> QED BY <1>2, <2>1 DEF LinksFit, LinkFits
<1>8. ASSUME NEW c \in Commands, Commits(c) \/ Purges(c) \/ CommandDies(c) PROVE LinksFit'
  <2>1. UNCHANGED <<round, made>> /\ command' = [command EXCEPT ![c] = Quiet]
    BY <1>8 DEF Commits, Purges, CommandDies
  <2>2. \A d \in Commands : command'[d].pc # "idle" => command[d].pc # "idle" /\ command'[d].seen = command[d].seen
    BY <1>0, <2>1, QuietFits
  <2>3. LinkFits'
    <3>1. target'.status # "published" \/ (target'.url = target.url /\ target'.status = target.status /\ job'.round = job.round)
      BY <1>0, <1>8 DEF Commits, Purges, CommandDies, RemovedAll, TargetRow, JobRow, NoTarget
    <3> QED BY <2>1, <3>1 DEF LinkFits, LinksFit
  <2> QED BY <1>2, <2>1, <2>2, <2>3
<1> QED BY <1>3, <1>4, <1>5, <1>6, <1>7, <1>8 DEF RemoteNext

LEMMA RemoteStepKeeps ==
  ASSUME RemoteInv, LinksFit, Settled, [RemoteNext]_remoteVars
  PROVE  RemoteInv'
<1>1. CASE UNCHANGED remoteVars
  <2>1. RemoteRows' /\ StatusesAgree' /\ LiveIsNamed' /\ RoundsPass'
    BY <1>1 DEF remoteVars, RemoteInv, RemoteRows, StatusesAgree, LiveIsNamed, OfRound, RoundsPass
  <2>2. CommandsKnow'
    BY <1>1 DEF remoteVars, RemoteInv, CommandsKnow, KnowsItsObjects, KeepsApart, Unfenced
  <2> QED BY <2>1, <2>2 DEF RemoteInv, CommandsKnow
<1>2. CASE Claim \/ SendPart \/ Delivered \/ DeliveryFails
  BY <1>2, ClaimKeepsCopies, SendKeepsCopies, DeliveredKeepsCopies, FailureKeepsCopies
<1>3. ASSUME NEW c \in Commands, NEW k \in Kinds, NEW named \in BOOLEAN, Asks(c, k, named) PROVE RemoteInv'
  BY <1>3, AskKeepsCopies
<1>4. ASSUME NEW c \in Commands, RemoveOne(c) \/ Commits(c) \/ Purges(c) \/ CommandDies(c) PROVE RemoteInv'
  BY <1>4, RemoveKeepsCopies, CommitKeepsCopies, PurgeKeepsCopies, DeathKeepsCopies DEF CommandDies
<1> QED BY <1>1, <1>2, <1>3, <1>4 DEF RemoteNext

\* The audience sees one delivery of a post, named by a row, for any commands, parts, refusals and
\* deaths of a command, as long as a purge or a command that names the target finds it at rest
\* and the platform gives every post an address, which is what a purge tells deliveries apart by
\* (targetSignature, settlePublishedTargetRemovals, requeueAfterRemovalTx, purgePublication).
THEOREM CopiesAreAccounted ==
  ASSUME Settled, Linked
  PROVE  RemoteSpec => [](RemoteTypeOK /\ CopiesAccounted)
<1>1. RemoteInit => RemoteInv /\ LinksFit
  <2> SUFFICES ASSUME RemoteInit PROVE RemoteInv /\ LinksFit
    OBVIOUS
  <2>2. RemoteRows
    BY RowsFitStart DEF RowsFit
  <2>3. StatusesAgree /\ LiveIsNamed /\ RoundsPass
    BY RemoteAssumption DEF RemoteInit, StatusesAgree, LiveIsNamed, RoundsPass, NoTarget, NoJob
  <2>4. \A c \in Commands : command[c].pc = "idle"
    BY QuietFits DEF RemoteInit
  <2>5. target.status = "queued"
    BY DEF RemoteInit, NoTarget
  <2> QED BY <2>2, <2>3, <2>4, <2>5 DEF RemoteInv, LinksFit, LinkFits
<1>2. RemoteInv /\ LinksFit /\ [RemoteNext]_remoteVars => (RemoteInv /\ LinksFit)'
  BY RemoteStepKeeps, LinksKept
<1>3. RemoteInv => RemoteTypeOK
  BY RowsAreTyped DEF RemoteInv
<1>4. RemoteInv => CopiesAccounted
  <2> SUFFICES ASSUME RemoteInv PROVE CopiesAccounted
    OBVIOUS
  <2>1. \A x \in live : round[x] = job.round
    BY DEF RemoteInv, LiveIsNamed, OfRound, RemoteRows, TargetRow
  <2>2. live \subseteq ToSet(target.ids) \cup ToSet(job.resume) \cup ToSet(delivery.sent)
    BY DEF RemoteInv, LiveIsNamed, RemoteRows, TargetRow
  <2> QED BY <2>1, <2>2 DEF CopiesAccounted
<1> QED BY <1>1, <1>2, <1>3, <1>4, PTL DEF RemoteSpec

-----------------------------------------------------------------------------
(* Notices *)

\* NoticesHold for any operators, clock, ages of events and sizes of a page, journal and
\* consumer.  Each part of it leans on what the consumer has in hand: an event on a desk is
\* reserved and is on no other, and no administrator still to be told has heard it
\* (ToldInv); a failure names its one half, so that a notice dropped as moot is about a
\* half that moved on (FailureInv); and with one process the card shows, or the desk is
\* about to show, what no waiting event will correct (CardInv).

NoticesTyped == NoticesTypeOK /\ journal \in Seq(Event) /\ heard \in [1 .. MaxJournal -> [Admins -> Nat]]

DesksKnown ==
  \A p \in 1 .. 2 :
    /\ desks[p].page \subseteq 1 .. Len(journal) /\ desks[p].next <= Administrators
    /\ desks[p].event # 0 => desks[p].event \in reserved
    /\ p > clerks => desks[p].page = {} /\ desks[p].event = 0

ToldInv ==
  /\ ToldAtMostOnce
  /\ \A e \in 1 .. MaxJournal, a \in Admins : heard[e][a] # 0 => e \in reserved
  /\ \A p \in 1 .. 2, a \in Admins :
       desks[p].event # 0 /\ desks[p].next <= a => heard[desks[p].event][a] = 0
  /\ desks[1].event = desks[2].event => desks[1].event = 0

FailureInv ==
  /\ FailureIsTold
  /\ \A e \in 1 .. Len(journal) : journal[e].type = "failed" => \E h \in Halves : journal[e].of = {h}

HoldsCard == desks[1].event # 0 /\ journal[desks[1].event].type = "card"
Shown == IF HoldsCard THEN desks[1].view ELSE painted
CardInv ==
  clerks = 1 /\ ~blank /\ (\A e \in Pending : journal[e].type # "card")
    => \A h \in Halves \ silent : Shown[h] = fate[h]

NoticesInv == NoticesTyped /\ DesksKnown /\ ToldInv /\ ReminderKept /\ FailureInv /\ CardInv

\* A step leaves what is journaled as it is.
JournalKept ==
  /\ Len(journal') \in Nat /\ Len(journal) <= Len(journal')
  /\ \A e \in 1 .. Len(journal) : journal'[e] = journal[e]

\* Events that can be journaled now.
NewsNow(events) ==
  /\ events \in Seq(Event)
  /\ \A i \in 1 .. Len(events) :
       events[i].born = hour /\ (events[i].type = "failed" => \E h \in Halves : events[i].of = {h})
HasCard(events) == \E i \in 1 .. Len(events) : events[i].type = "card"

LEMMA NoticeNumbers ==
  ASSUME NoticesTyped
  PROVE  /\ hour \in Nat /\ hour <= Horizon /\ Horizon \in Nat /\ Horizon >= 1
         /\ Administrators \in Nat /\ Administrators >= 1
         /\ MaxJournal \in Nat /\ OutcomeAge \in Nat /\ ReminderAge \in Nat /\ Lead \in Nat
         /\ Len(journal) \in Nat /\ Len(journal) <= MaxJournal /\ clerks \in {1, 2}
<1>1. Horizon \in Nat \ {0} /\ Administrators \in Nat \ {0}
  BY NoticesAssumption
<1>2. MaxJournal \in Nat /\ OutcomeAge \in Nat /\ ReminderAge \in Nat /\ Lead \in Nat
  BY NoticesAssumption
<1>3. Len(journal) \in Nat
  BY LenProperties DEF NoticesTyped
<1>4. hour \in 0 .. Horizon /\ Len(journal) <= MaxJournal /\ clerks \in 1 .. 2
  BY DEF NoticesTyped, NoticesTypeOK
<1> QED BY <1>1, <1>2, <1>3, <1>4

LEMMA EventFields ==
  \A e \in Event : /\ e.type \in EventTypes /\ e.of \in SUBSET Halves
                   /\ e.at \in 0 .. Horizon /\ e.born \in 0 .. Horizon
BY DEF Event

LEMMA NewsIsEvent ==
  ASSUME NoticesTyped, NEW t \in EventTypes, NEW who \in SUBSET Halves
  PROVE  /\ News(t, who) \in Event /\ News(t, who).type = t /\ News(t, who).of = who
         /\ News(t, who).born = hour
<1>1. hour \in 0 .. Horizon /\ 0 \in 0 .. Horizon
  BY NoticeNumbers
<1> QED BY <1>1 DEF News, Event

LEMMA NoNews == NewsNow(<<>>)
BY DEF NewsNow

LEMMA OneNews ==
  ASSUME NoticesTyped, NEW t \in EventTypes, NEW who \in SUBSET Halves,
         t = "failed" => \E h \in Halves : who = {h}
  PROVE  NewsNow(<<News(t, who)>>) /\ (t = "card" => HasCard(<<News(t, who)>>))
<1>1. PICK x \in Event : x = News(t, who) /\ x.type = t /\ x.of = who /\ x.born = hour
  <2>1. /\ News(t, who) \in Event /\ News(t, who).type = t /\ News(t, who).of = who
        /\ News(t, who).born = hour
    BY NewsIsEvent
  <2> QED BY <2>1
<1>2. PICK s : s = << x >>
  OBVIOUS
<1>3. s \in Seq(Event) /\ Len(s) = 1 /\ s[1] = x
  BY <1>2
<1>4. NewsNow(s) /\ (t = "card" => HasCard(s))
  BY <1>1, <1>3 DEF NewsNow, HasCard
<1>5. s = <<News(t, who)>>
  BY <1>1, <1>2
<1> QED BY <1>4, <1>5

LEMMA JournaledNews ==
  ASSUME NoticesTyped, NEW t \in EventTypes, NEW who \in SUBSET Halves,
         t = "failed" => \E h \in Halves : who = {h}
  PROVE  NewsNow(Journaled(News(t, who)))
BY NoNews, OneNews DEF Journaled

LEMMA MoreNews ==
  ASSUME NEW s, NEW u, NewsNow(s), NewsNow(u)
  PROVE  NewsNow(s \o u) /\ (HasCard(s) \/ HasCard(u) => HasCard(s \o u))
<1>1. /\ s \in Seq(Event) /\ u \in Seq(Event) /\ Len(s) \in Nat /\ Len(u) \in Nat
      /\ s \o u \in Seq(Event) /\ Len(s \o u) = Len(s) + Len(u)
      /\ \A i \in 1 .. Len(s) + Len(u) : (s \o u)[i] = IF i <= Len(s) THEN s[i] ELSE u[i - Len(s)]
  BY ConcatProperties, LenProperties DEF NewsNow
<1> DEFINE both == s \o u
<1>2. PICK m \in Nat : m = Len(s)
  BY <1>1
<1>3. PICK n \in Nat : n = Len(u)
  BY <1>1
<1>4. /\ both \in Seq(Event) /\ Len(both) = m + n
      /\ \A i \in 1 .. m + n : both[i] = IF i <= m THEN s[i] ELSE u[i - m]
  BY <1>1, <1>2, <1>3
<1> HIDE DEF both
<1>5. \A i \in 1 .. m + n : (i \in 1 .. m /\ both[i] = s[i]) \/ (i - m \in 1 .. n /\ both[i] = u[i - m])
  BY <1>4
<1>6. (\A j \in 1 .. m : both[j] = s[j]) /\ (\A j \in 1 .. n : both[m + j] = u[j] /\ m + j \in 1 .. m + n)
  <2>1. \A j \in 1 .. m : j \in 1 .. m + n /\ j <= m
    OBVIOUS
  <2>2. \A j \in 1 .. n : m + j \in 1 .. m + n /\ ~(m + j <= m) /\ (m + j) - m = j
    OBVIOUS
  <2> QED BY <1>4, <2>1, <2>2
<1>7. NewsNow(both)
  <2>1. /\ \A i \in 1 .. m : /\ s[i].born = hour
                             /\ s[i].type = "failed" => \E h \in Halves : s[i].of = {h}
        /\ \A i \in 1 .. n : /\ u[i].born = hour
                             /\ u[i].type = "failed" => \E h \in Halves : u[i].of = {h}
    BY <1>2, <1>3 DEF NewsNow
  <2>2. ASSUME NEW i \in 1 .. m + n
        PROVE  both[i].born = hour /\ (both[i].type = "failed" => \E h \in Halves : both[i].of = {h})
    <3>1. CASE i \in 1 .. m /\ both[i] = s[i]
      BY <2>1, <3>1
    <3>2. CASE i - m \in 1 .. n /\ both[i] = u[i - m]
      BY <2>1, <3>2
    <3> QED BY <1>5, <3>1, <3>2
  <2> QED BY <1>4, <2>2 DEF NewsNow
<1>8. HasCard(s) => HasCard(both)
  BY <1>2, <1>4, <1>6 DEF HasCard
<1>9. HasCard(u) => HasCard(both)
  BY <1>3, <1>4, <1>6 DEF HasCard
<1> QED BY <1>7, <1>8, <1>9 DEF both

LEMMA JournalGrows ==
  ASSUME NoticesTyped, NEW events, NewsNow(events), Record(events), UNCHANGED <<clerks, hour, reserved>>
  PROVE  /\ JournalKept /\ journal' \in Seq(Event) /\ Len(journal') <= MaxJournal
         /\ Pending \subseteq Pending'
         /\ \A i \in 1 .. Len(events) : \E e \in Pending' : journal'[e] = events[i]
         /\ \A e \in 1 .. Len(journal') :
              e \in 1 .. Len(journal) \/ \E i \in 1 .. Len(events) : journal'[e] = events[i]
<1>1. /\ Len(journal) \in Nat /\ Len(events) \in Nat /\ journal' = journal \o events
      /\ journal' \in Seq(Event) /\ Len(journal') = Len(journal) + Len(events)
      /\ \A i \in 1 .. Len(journal) + Len(events) :
           journal'[i] = IF i <= Len(journal) THEN journal[i] ELSE events[i - Len(journal)]
  BY ConcatProperties, LenProperties DEF NewsNow, NoticesTyped, Record
<1>2. PICK m \in Nat : m = Len(journal)
  BY <1>1
<1>3. PICK n \in Nat : n = Len(events)
  BY <1>1
<1>4. Len(journal') = m + n /\ Len(journal') \in Nat
      /\ \A i \in 1 .. m + n : journal'[i] = IF i <= m THEN journal[i] ELSE events[i - m]
  BY <1>1, <1>2, <1>3
<1>5. (\A j \in 1 .. m : journal'[j] = journal[j] /\ j \in 1 .. m + n)
      /\ (\A j \in 1 .. n : journal'[m + j] = events[j] /\ m + j \in 1 .. m + n /\ m + j \notin 1 .. m)
  <2>1. \A j \in 1 .. m : j \in 1 .. m + n /\ j <= m
    OBVIOUS
  <2>2. \A j \in 1 .. n : m + j \in 1 .. m + n /\ ~(m + j <= m) /\ (m + j) - m = j
    OBVIOUS
  <2> QED BY <1>4, <2>1, <2>2
<1>6. JournalKept
  BY <1>2, <1>4, <1>5 DEF JournalKept
<1>7. Len(journal') <= MaxJournal
  BY <1>4, NoticeNumbers DEF Record
<1>8. Pending \subseteq Pending'
  <2>1. \A e \in 1 .. m : Fresh(e, hour) => Fresh(e, hour)'
    BY <1>5 DEF Fresh
  <2> QED BY <1>2, <1>4, <1>5, <2>1 DEF Pending
<1>9. ASSUME NEW i \in 1 .. Len(events)
      PROVE  \E e \in Pending' : journal'[e] = events[i]
  <2>1. i \in 1 .. n /\ journal'[m + i] = events[i] /\ m + i \in 1 .. Len(journal') /\ m + i \notin 1 .. m
    BY <1>3, <1>4, <1>5
  <2>2. journal'[m + i].born = hour /\ hour \in Nat /\ OutcomeAge \in Nat /\ ReminderAge \in Nat
    BY <2>1, NoticeNumbers DEF NewsNow
  <2>3. Fresh(m + i, hour)'
    BY <2>2 DEF Fresh
  <2>4. m + i \notin reserved'
    BY <1>2, <2>1 DEF NoticesTyped, NoticesTypeOK
  <2>5. m + i \in Pending'
    BY <2>1, <2>3, <2>4 DEF Pending
  <2> QED BY <2>1, <2>5
<1>10. ASSUME NEW e \in 1 .. Len(journal'), e \notin 1 .. Len(journal)
       PROVE  \E i \in 1 .. Len(events) : journal'[e] = events[i]
  <2>1. e \in 1 .. m + n /\ e \notin 1 .. m
    BY <1>2, <1>4, <1>10
  <2>2. e - m \in 1 .. n /\ ~(e <= m)
    BY <2>1
  <2>3. journal'[e] = events[e - m]
    BY <1>4, <2>1, <2>2
  <2> QED BY <1>3, <2>2, <2>3
<1> QED BY <1>1, <1>6, <1>7, <1>8, <1>9, <1>10

LEMMA JournalStays ==
  ASSUME NoticesTyped, UNCHANGED journal
  PROVE  JournalKept /\ (UNCHANGED <<hour, reserved>> => Pending' = Pending)
<1>1. JournalKept
  BY NoticeNumbers DEF JournalKept
<1>2. UNCHANGED <<hour, reserved>> => Pending' = Pending
  BY DEF Pending, Fresh
<1> QED BY <1>1, <1>2

-----------------------------------------------------------------------------
(* What a step that leaves it alone keeps *)

LEMMA DesksFrame ==
  ASSUME NoticesTyped, DesksKnown, ToldInv, JournalKept, UNCHANGED <<clerks, reserved, desks, heard>>
  PROVE  DesksKnown' /\ ToldInv'
<1>1. 1 .. Len(journal) \subseteq 1 .. Len(journal')
  BY NoticeNumbers DEF JournalKept
<1>2. DesksKnown'
  BY <1>1 DEF DesksKnown
<1> QED BY <1>2 DEF ToldInv, ToldAtMostOnce

LEMMA RemindersFrame ==
  ASSUME NoticesTyped, ReminderKept, JournalKept, UNCHANGED <<reminders, promised>>
  PROVE  ReminderKept'
<1>1. \A i \in 1 .. Len(journal) : i \in 1 .. Len(journal') /\ journal'[i] = journal[i]
  BY NoticeNumbers DEF JournalKept
<1> QED BY <1>1 DEF ReminderKept

LEMMA FailureFrame ==
  ASSUME NoticesTyped, FailureInv, JournalKept, NEW g \in unheard, fate[g] = "failed",
         \A e \in 1 .. Len(journal) :
           journal[e].type = "failed" /\ g \in journal[e].of /\ (e \in Pending \/ InHand(e))
             => e \in Pending' \/ InHand(e)'
  PROVE  \E e \in 1 .. Len(journal') : /\ journal'[e].type = "failed" /\ g \in journal'[e].of
                                       /\ (e \in Pending' \/ InHand(e)')
<1>1. g \in Halves
  BY DEF NoticesTyped, NoticesTypeOK
<1>2. PICK e \in 1 .. Len(journal) : /\ journal[e].type = "failed" /\ g \in journal[e].of
                                     /\ (e \in Pending \/ InHand(e))
  BY DEF FailureInv, FailureIsTold
<1>3. e \in 1 .. Len(journal') /\ journal'[e] = journal[e]
  BY NoticeNumbers DEF JournalKept
<1> QED BY <1>2, <1>3

LEMMA CardFrame ==
  ASSUME CardInv, clerks' = clerks, blank => blank', Shown' = Shown,
         ~blank' => \A e \in Pending : journal[e].type = "card" => e \in Pending' /\ journal'[e] = journal[e],
         \A g \in Halves \ silent' : g \notin silent /\ fate'[g] = fate[g]
  PROVE  CardInv'
<1> SUFFICES ASSUME clerks' = 1, ~blank', \A e \in Pending' : journal'[e].type # "card",
                    NEW g \in Halves \ silent'
             PROVE  Shown'[g] = fate'[g]
  BY DEF CardInv
<1>1. \A e \in Pending : journal[e].type # "card"
  OBVIOUS
<1>2. g \in Halves \ silent /\ fate'[g] = fate[g] /\ clerks = 1 /\ ~blank
  OBVIOUS
<1>3. Shown[g] = fate[g]
  BY <1>1, <1>2 DEF CardInv
<1>4. PICK s : s = Shown
  OBVIOUS
<1>5. Shown' = s
  BY <1>4
<1> QED BY <1>2, <1>3, <1>4, <1>5

LEMMA ShownStays ==
  ASSUME NoticesTyped, DesksKnown, JournalKept, UNCHANGED <<desks, painted>>
  PROVE  Shown' = Shown
<1>1. desks[1].event # 0 => desks[1].event \in 1 .. Len(journal)
  <2>1. 1 \in 1 .. 2
    OBVIOUS
  <2>2. desks[1].event # 0 => desks[1].event \in reserved
    BY <2>1 DEF DesksKnown
  <2> QED BY <2>2 DEF NoticesTyped, NoticesTypeOK
<1>2. HoldsCard' <=> HoldsCard
  BY <1>1 DEF HoldsCard, JournalKept
<1> QED BY <1>2 DEF Shown

LEMMA NoticesStart == NoticesInit => NoticesInv
<1> SUFFICES ASSUME NoticesInit PROVE NoticesInv
  OBVIOUS
<1>1. /\ Horizon \in Nat /\ 0 \in 0 .. Horizon /\ Administrators \in Nat /\ 1 <= Administrators
      /\ MaxJournal \in Nat /\ 0 \in 0 .. MaxActs /\ 0 \in 0 .. MaxKills
  <2>1. Horizon \in Nat \ {0} /\ Administrators \in Nat \ {0}
    BY NoticesAssumption
  <2>2. MaxJournal \in Nat /\ MaxActs \in Nat /\ MaxKills \in Nat
    BY NoticesAssumption
  <2> QED BY <2>1, <2>2
<1>2. journal = <<>> /\ Len(journal) = 0 /\ journal \in Seq(Event)
  BY DEF NoticesInit
<1>3. IdleClerk \in Clerk /\ IdleClerk.event = 0 /\ IdleClerk.page = {} /\ IdleClerk.next = 1
  BY <1>1 DEF IdleClerk, Clerk, Fates
<1>4. NoticesTyped
  <2>1. NoReminder \in Reminder
    BY <1>1 DEF NoReminder, Reminder
  <2>2. fate \in [Halves -> Fates]
    BY DEF NoticesInit, Fates
  <2>3. clerks \in 1 .. 2
    BY DEF NoticesInit
  <2>4. reminders \in [ReminderKeys -> Reminder] /\ reminded \subseteq Admins /\ desks \in [1 .. 2 -> Clerk]
    BY <1>3, <2>1 DEF NoticesInit
  <2>5. heard \in [1 .. MaxJournal -> [Admins -> Nat]]
    BY DEF NoticesInit
  <2>6. plan \in [Halves -> 0 .. Horizon] /\ promised \in [Halves -> 0 .. Horizon] /\ painted \in [Halves -> Fates]
    BY <1>1, <2>2 DEF NoticesInit
  <2>7. /\ about \in {"post", "video"} /\ theme \in {"reminders", "outcomes"} /\ hour \in 0 .. Horizon
        /\ reserved = {} /\ unheard = {} /\ silent = {} /\ blank = FALSE
        /\ acts \in 0 .. MaxActs /\ kills \in 0 .. MaxKills
    BY <1>1 DEF NoticesInit
  <2>8. Len(journal) <= MaxJournal /\ \A e \in 1 .. Len(journal) : journal[e] \in Event
    BY <1>1, <1>2
  <2> QED BY <1>2, <2>2, <2>3, <2>4, <2>5, <2>6, <2>7, <2>8 DEF NoticesTyped, NoticesTypeOK
<1>5. desks = [p \in 1 .. 2 |-> IdleClerk]
  BY DEF NoticesInit
<1>6. DesksKnown
  BY <1>1, <1>3, <1>5 DEF DesksKnown
<1>7. ToldInv
  <2>1. \A e \in 1 .. MaxJournal, a \in Admins : heard[e][a] = 0
    BY DEF NoticesInit
  <2>2. \A p \in 1 .. 2 : desks[p].event = 0
    BY <1>3, <1>5
  <2> QED BY <2>1, <2>2 DEF ToldInv, ToldAtMostOnce
<1>8. ReminderKept /\ FailureInv
  BY <1>2 DEF NoticesInit, ReminderKept, FailureInv, FailureIsTold
<1>9. CardInv
  <2>1. desks[1].event = 0
    BY <1>3, <1>5
  <2> QED BY <2>1 DEF NoticesInit, CardInv, Shown, HoldsCard
<1> QED BY <1>4, <1>6, <1>7, <1>8, <1>9 DEF NoticesInv

LEMMA TickKeeps ==
  ASSUME NoticesInv, Tick
  PROVE  NoticesInv'
<1>1. /\ NoticesTyped /\ DesksKnown /\ ToldInv /\ ReminderKept /\ FailureInv /\ CardInv
      /\ UNCHANGED <<about, theme, clerks, plan, fate, reminders, reminded, journal, reserved, desks, heard,
                     painted, promised, silent, acts, kills>>
  BY DEF NoticesInv, Tick
<1> DEFINE expired == {e \in Pending : ~Fresh(e, hour + 1)}
<1>2. /\ hour < Horizon /\ hour' = hour + 1
      /\ unheard' = unheard \ UNION {journal[e].of : e \in {f \in expired : journal[f].type = "failed"}}
      /\ blank' = (blank \/ \E e \in expired : journal[e].type = "card")
  BY DEF Tick
<1>3. NoticesTyped'
  <2>1. hour' \in 0 .. Horizon /\ unheard' \subseteq Halves /\ blank' \in BOOLEAN
    BY <1>1, <1>2, NoticeNumbers DEF NoticesTyped, NoticesTypeOK
  <2> QED BY <1>1, <2>1 DEF NoticesTyped, NoticesTypeOK, Event, Reminder, Clerk
<1>4. JournalKept
  BY <1>1, JournalStays
<1>5. \A e \in Pending : e \in Pending' \/ e \in expired
  BY <1>1, <1>2 DEF Pending, Fresh
<1> HIDE DEF expired
<1>6. DesksKnown' /\ ToldInv' /\ ReminderKept'
  BY <1>1, <1>4, DesksFrame, RemindersFrame
<1>7. FailureInv'
  <2>1. ASSUME NEW g \in unheard', fate'[g] = "failed"
        PROVE  \E e \in 1 .. Len(journal') : /\ journal'[e].type = "failed" /\ g \in journal'[e].of
                                             /\ (e \in Pending' \/ InHand(e)')
    <3>1. g \in unheard /\ \A e \in expired : journal[e].type = "failed" => g \notin journal[e].of
      BY <1>2
    <3>2. \A e \in 1 .. Len(journal) :
            journal[e].type = "failed" /\ g \in journal[e].of /\ (e \in Pending \/ InHand(e))
              => e \in Pending' \/ InHand(e)'
      BY <1>1, <1>5, <3>1 DEF InHand
    <3> QED BY <1>1, <1>4, <2>1, <3>1, <3>2, FailureFrame
  <2> QED BY <1>1, <2>1 DEF FailureInv, FailureIsTold
<1>8. CardInv'
  <2>1. Shown' = Shown
    BY <1>1, <1>4, ShownStays
  <2>2. ~blank' => \A e \in Pending : journal[e].type = "card" => e \in Pending' /\ journal'[e] = journal[e]
    BY <1>1, <1>2, <1>5
  <2> QED BY <1>1, <1>2, <2>1, <2>2, CardFrame
<1> QED BY <1>3, <1>6, <1>7, <1>8 DEF NoticesInv

-----------------------------------------------------------------------------
(* Reminders *)

LEMMA CancelledRows ==
  ASSUME NoticesTyped, NEW mine
  PROVE  /\ CancelledReminders(reminders, mine) \in [ReminderKeys -> Reminder]
         /\ \A k \in ReminderKeys :
              ~(reminders[k].st = "queued" /\ reminders[k].actor \in mine)
                => CancelledReminders(reminders, mine)[k] = reminders[k]
<1>1. \A k \in ReminderKeys : reminders[k] \in Reminder
  BY DEF NoticesTyped, NoticesTypeOK
<1>2. \A r \in Reminder : [r EXCEPT !.st = "cancelled"] \in Reminder
  BY DEF Reminder
<1> QED BY <1>1, <1>2 DEF CancelledReminders

LEMMA RemindedRows ==
  ASSUME NoticesTyped, NEW p \in [Halves -> 0 .. Horizon], NEW a \in Admins
  PROVE  /\ Rescheduled(p, a) \in [ReminderKeys -> Reminder]
         /\ RemindedHalves(p, a) \subseteq Halves
         /\ \A g \in RemindedHalves(p, a) : \E k \in ReminderKeys :
              /\ Rescheduled(p, a)[k].st = "queued" /\ g \in Rescheduled(p, a)[k].of
              /\ Rescheduled(p, a)[k].at = p[g]
<1> DEFINE those(k) == {h \in RemindedHalves(p, a) : KeyOf(h, p[h]) = k}
           moment(k) == p[CHOOSE h \in those(k) : TRUE]
           row(k) == [st |-> "queued", at |-> moment(k), of |-> those(k),
                      runAt |-> Later(hour, Later(moment(k), Lead) - Lead),
                      actor |-> IF reminders[k].st = "none" THEN a ELSE reminders[k].actor]
<1>1. \A k \in ReminderKeys :
        Rescheduled(p, a)[k] = IF those(k) = {} THEN CancelledReminders(reminders, Admins)[k] ELSE row(k)
  BY DEF Rescheduled
<1>2. RemindedHalves(p, a) \subseteq Halves
  BY DEF RemindedHalves
<1>3. \A k \in ReminderKeys : those(k) # {} => moment(k) \in 0 .. Horizon
  BY <1>2
<1>4. ASSUME NEW k \in ReminderKeys, those(k) # {}
      PROVE  row(k) \in Reminder
  <2>1. PICK t \in 0 .. Horizon : t = moment(k)
    BY <1>3, <1>4
  <2>2. Later(hour, Later(t, Lead) - Lead) \in 0 .. Horizon
    BY NoticeNumbers DEF Later
  <2>3. a \in 0 .. Administrators /\ reminders[k].actor \in 0 .. Administrators
    BY NoticeNumbers DEF Admins, NoticesTyped, NoticesTypeOK, Reminder
  <2>4. those(k) \in SUBSET Halves
    BY <1>2
  <2> HIDE DEF those, moment
  <2> QED BY <2>1, <2>2, <2>3, <2>4 DEF Reminder
<1>5. Rescheduled(p, a) \in [ReminderKeys -> Reminder]
  <2>1. \A k \in ReminderKeys : Rescheduled(p, a)[k] \in Reminder
    <3> HIDE DEF those, row
    <3> QED BY <1>1, <1>4, CancelledRows
  <2> HIDE DEF those, row
  <2>2. DOMAIN Rescheduled(p, a) = ReminderKeys /\ Rescheduled(p, a) = [k \in ReminderKeys |-> Rescheduled(p, a)[k]]
    BY DEF Rescheduled
  <2> QED BY <2>1, <2>2
<1>6. ASSUME NEW g \in RemindedHalves(p, a)
      PROVE  \E k \in ReminderKeys : /\ Rescheduled(p, a)[k].st = "queued" /\ g \in Rescheduled(p, a)[k].of
                                     /\ Rescheduled(p, a)[k].at = p[g]
  <2>1. g \in {1, 2} /\ p[g] \in 0 .. Horizon /\ p[g] > hour
    BY <1>2 DEF RemindedHalves, Halves
  <2>2. KeyOf(g, p[g]) \in ReminderKeys
    BY <2>1, NoticeNumbers DEF KeyOf, ReminderKeys, Later
  <2>3. PICK k \in ReminderKeys : k = KeyOf(g, p[g])
    BY <2>2
  <2>4. g \in those(k)
    BY <2>3
  <2>5. \A c \in those(k) : p[c] = p[g]
    BY <2>3 DEF KeyOf
  <2>6. moment(k) = p[g]
    BY <2>4, <2>5
  <2>7. Rescheduled(p, a)[k] = row(k)
    BY <1>1, <2>4
  <2> HIDE DEF those, moment
  <2> QED BY <2>4, <2>6, <2>7
<1> QED BY <1>2, <1>5, <1>6

\* The acts on a publication's time move no event, no desk and no half's fate beyond
\* the ones named.
LEMMA ReminderActKeeps ==
  ASSUME NoticesInv,
         UNCHANGED <<about, theme, clerks, hour, journal, reserved, desks, heard, painted, unheard, blank, kills>>,
         acts' \in 0 .. MaxActs, plan' \in [Halves -> 0 .. Horizon], promised' \in [Halves -> 0 .. Horizon],
         reminders' \in [ReminderKeys -> Reminder], reminded' \subseteq Admins,
         fate' \in [Halves -> Fates], silent' \subseteq Halves, silent \subseteq silent',
         \A g \in Halves : fate'[g] = "failed" => fate[g] = "failed",
         \A g \in Halves \ silent' : fate'[g] = fate[g],
         \A g \in Halves : promised'[g] # 0 =>
           \/ promised'[g] = promised[g] /\ \A k \in ReminderKeys :
                reminders[k].st = "queued" /\ g \in reminders[k].of => reminders'[k] = reminders[k]
           \/ \E k \in ReminderKeys : /\ reminders'[k].st = "queued" /\ g \in reminders'[k].of
                                      /\ reminders'[k].at = promised'[g]
  PROVE  NoticesInv'
<1>1. NoticesTyped /\ DesksKnown /\ ToldInv /\ ReminderKept /\ FailureInv /\ CardInv
  BY DEF NoticesInv
<1>2. NoticesTyped'
  BY <1>1 DEF NoticesTyped, NoticesTypeOK, FinalFates
<1>3. JournalKept /\ Pending' = Pending
  BY <1>1, JournalStays
<1>4. DesksKnown' /\ ToldInv'
  BY <1>1, <1>3, DesksFrame
<1>5. ReminderKept'
  <2> SUFFICES ASSUME NEW g \in Halves, promised'[g] # 0
               PROVE  \/ \E k \in ReminderKeys : reminders'[k].st = "queued" /\ g \in reminders'[k].of
                                                 /\ reminders'[k].at = promised'[g]
                      \/ \E i \in 1 .. Len(journal) : journal[i].type = "reminder" /\ g \in journal[i].of
                                                      /\ journal[i].at = promised'[g]
    BY DEF ReminderKept
  <2>1. CASE promised'[g] = promised[g] /\ \A k \in ReminderKeys :
                reminders[k].st = "queued" /\ g \in reminders[k].of => reminders'[k] = reminders[k]
    BY <1>1, <2>1 DEF ReminderKept
  <2> QED BY <2>1
<1>6. FailureInv'
  <2>1. ASSUME NEW g \in unheard', fate'[g] = "failed"
        PROVE  \E e \in 1 .. Len(journal') : /\ journal'[e].type = "failed" /\ g \in journal'[e].of
                                             /\ (e \in Pending' \/ InHand(e)')
    <3>1. g \in unheard /\ fate[g] = "failed"
      BY <1>1, <2>1 DEF NoticesTyped, NoticesTypeOK
    <3>2. \A e \in 1 .. Len(journal) : (e \in Pending \/ InHand(e)) => (e \in Pending' \/ InHand(e)')
      BY <1>3 DEF InHand
    <3> QED BY <1>1, <1>3, <3>1, <3>2, FailureFrame
  <2> QED BY <1>1, <2>1 DEF FailureInv, FailureIsTold
<1>7. CardInv'
  <2>1. Shown' = Shown
    BY <1>1, <1>3, ShownStays
  <2> QED BY <1>1, <1>3, <2>1, CardFrame
<1> QED BY <1>2, <1>4, <1>5, <1>6, <1>7 DEF NoticesInv

LEMMA ActsTyped ==
  ASSUME NoticesTyped, NEW t, Acts(t)
  PROVE  acts' \in 0 .. MaxActs
<1>1. MaxActs \in Nat
  BY NoticesAssumption
<1> QED BY <1>1 DEF Acts, NoticesTyped, NoticesTypeOK

LEMMA ScheduleKeeps ==
  ASSUME NoticesInv, NEW a \in Admins, NEW p \in [Halves -> 0 .. Horizon], Schedule(a, p)
  PROVE  NoticesInv'
<1>1. NoticesTyped
  BY DEF NoticesInv
<1>2. PICK asker \in Admins : /\ reminders' = Rescheduled(p, asker)
                              /\ promised' = [h \in Halves |-> IF h \in RemindedHalves(p, asker) THEN p[h] ELSE 0]
  BY <1>1, NoticeNumbers DEF Schedule, Admins
<1>3. /\ plan' = p /\ acts' \in 0 .. MaxActs
      /\ UNCHANGED <<about, theme, clerks, hour, fate, reminded, journal, reserved, desks, heard, painted, unheard,
                     silent, blank, kills>>
  BY <1>1, ActsTyped DEF Schedule
<1>4. promised' \in [Halves -> 0 .. Horizon] /\ reminders' \in [ReminderKeys -> Reminder]
  <2>1. 0 \in 0 .. Horizon
    BY <1>1, NoticeNumbers
  <2> QED BY <1>1, <1>2, <2>1, RemindedRows
<1>5. ASSUME NEW g \in Halves, promised'[g] # 0
      PROVE  \E k \in ReminderKeys : /\ reminders'[k].st = "queued" /\ g \in reminders'[k].of
                                     /\ reminders'[k].at = promised'[g]
  <2>1. g \in RemindedHalves(p, asker) /\ promised'[g] = p[g]
    BY <1>2, <1>5
  <2> QED BY <1>1, <1>2, <2>1, RemindedRows
<1>6. fate \in [Halves -> Fates] /\ reminded \subseteq Admins /\ silent \subseteq Halves
  BY <1>1 DEF NoticesTyped, NoticesTypeOK
<1> QED BY <1>3, <1>4, <1>5, <1>6, ReminderActKeeps

LEMMA PublishNowKeeps ==
  ASSUME NoticesInv, PublishNow
  PROVE  NoticesInv'
<1>1. NoticesTyped
  BY DEF NoticesInv
<1> DEFINE now == [h \in Halves |-> IF fate[h] = "waiting" THEN hour ELSE plan[h]]
<1>2. now \in [Halves -> 0 .. Horizon] /\ 1 \in Admins /\ 0 \in 0 .. Horizon
  <2>1. hour \in 0 .. Horizon /\ plan \in [Halves -> 0 .. Horizon]
    BY <1>1 DEF NoticesTyped, NoticesTypeOK
  <2> QED BY <1>1, <2>1, NoticeNumbers DEF Admins
<1>3. /\ plan' = now /\ acts' \in 0 .. MaxActs /\ promised' = [h \in Halves |-> 0]
      /\ reminders' = (IF about = "video" THEN Rescheduled(now, 1) ELSE reminders)
      /\ UNCHANGED <<about, theme, clerks, hour, fate, reminded, journal, reserved, desks, heard, painted, unheard,
                     silent, blank, kills>>
  BY <1>1, ActsTyped DEF PublishNow
<1> HIDE DEF now
<1>4. /\ fate \in [Halves -> Fates] /\ reminded \subseteq Admins /\ silent \subseteq Halves
      /\ reminders \in [ReminderKeys -> Reminder]
  BY <1>1 DEF NoticesTyped, NoticesTypeOK
<1>5. reminders' \in [ReminderKeys -> Reminder]
  BY <1>1, <1>2, <1>3, <1>4, RemindedRows
<1>6. promised' \in [Halves -> 0 .. Horizon] /\ \A g \in Halves : promised'[g] = 0
  BY <1>2, <1>3
<1> QED BY <1>2, <1>3, <1>4, <1>5, <1>6, ReminderActKeeps

LEMMA CancelPublicationKeeps ==
  ASSUME NoticesInv, CancelPublication
  PROVE  NoticesInv'
<1>1. NoticesTyped
  BY DEF NoticesInv
<1> DEFINE held == {h \in Halves : fate[h] = "waiting"}
<1>2. /\ acts' \in 0 .. MaxActs /\ promised' = [h \in Halves |-> 0]
      /\ fate' = [h \in Halves |-> IF h \in held THEN "cancelled" ELSE fate[h]]
      /\ plan' = [h \in Halves |-> IF h \in held THEN 0 ELSE plan[h]]
      /\ reminders' = CancelledReminders(reminders, Admins) /\ silent' = silent \cup held
      /\ UNCHANGED <<about, theme, clerks, hour, reminded, journal, reserved, desks, heard, painted, unheard, blank,
                     kills>>
  BY <1>1, ActsTyped DEF CancelPublication
<1>3. /\ fate \in [Halves -> Fates] /\ reminded \subseteq Admins /\ silent \subseteq Halves
      /\ plan \in [Halves -> 0 .. Horizon] /\ 0 \in 0 .. Horizon
  BY <1>1, NoticeNumbers DEF NoticesTyped, NoticesTypeOK
<1>4. reminders' \in [ReminderKeys -> Reminder]
  BY <1>1, <1>2, CancelledRows
<1>5. /\ promised' \in [Halves -> 0 .. Horizon] /\ plan' \in [Halves -> 0 .. Horizon]
      /\ fate' \in [Halves -> Fates] /\ silent' \subseteq Halves /\ silent \subseteq silent'
      /\ \A g \in Halves : promised'[g] = 0
      /\ \A g \in Halves : fate'[g] = "failed" => fate[g] = "failed"
      /\ \A g \in Halves \ silent' : fate'[g] = fate[g]
  BY <1>2, <1>3 DEF Fates
<1> HIDE DEF held
<1> QED BY <1>2, <1>3, <1>4, <1>5, ReminderActKeeps

LEMMA SwitchKeeps ==
  ASSUME NoticesInv, NEW a \in Admins, SwitchReminders(a)
  PROVE  NoticesInv'
<1>1. NoticesTyped
  BY DEF NoticesInv
<1> DEFINE off == a \in reminded
           dropped == {k \in ReminderKeys : off /\ reminders[k].st = "queued" /\ reminders[k].actor = a}
<1>2. /\ acts' \in 0 .. MaxActs /\ reminded' = (IF off THEN reminded \ {a} ELSE reminded \cup {a})
      /\ reminders' = (IF off THEN CancelledReminders(reminders, {a}) ELSE reminders)
      /\ promised' = [h \in Halves |-> IF \E k \in dropped : h \in reminders[k].of THEN 0 ELSE promised[h]]
      /\ UNCHANGED <<about, theme, clerks, hour, plan, fate, journal, reserved, desks, heard, painted, unheard,
                     silent, blank, kills>>
  BY <1>1, ActsTyped DEF SwitchReminders
<1>3. /\ fate \in [Halves -> Fates] /\ reminded \subseteq Admins /\ silent \subseteq Halves
      /\ plan \in [Halves -> 0 .. Horizon] /\ 0 \in 0 .. Horizon /\ promised \in [Halves -> 0 .. Horizon]
      /\ reminders \in [ReminderKeys -> Reminder]
  BY <1>1, NoticeNumbers DEF NoticesTyped, NoticesTypeOK
<1>4. reminders' \in [ReminderKeys -> Reminder] /\ reminded' \subseteq Admins
  BY <1>1, <1>2, <1>3, CancelledRows
<1>5. promised' \in [Halves -> 0 .. Horizon]
  <2>1. \A h \in Halves : (IF \E k \in dropped : h \in reminders[k].of THEN 0 ELSE promised[h]) \in 0 .. Horizon
    BY <1>3
  <2> HIDE DEF dropped
  <2> QED BY <1>2, <2>1
<1>6. ASSUME NEW g \in Halves, promised'[g] # 0, NEW k \in ReminderKeys,
             reminders[k].st = "queued", g \in reminders[k].of
      PROVE  promised'[g] = promised[g] /\ reminders'[k] = reminders[k]
  <2>1. promised'[g] = promised[g] /\ ~\E j \in dropped : g \in reminders[j].of
    BY <1>2, <1>6
  <2>2. k \notin dropped
    BY <1>6, <2>1
  <2>3. off => reminders[k].actor \notin {a}
    BY <1>6, <2>2
  <2> QED BY <1>1, <1>2, <2>1, <2>3, CancelledRows
<1>7. \A g \in Halves : promised'[g] # 0 => promised'[g] = promised[g]
  BY <1>2
<1> HIDE DEF off, dropped
<1> QED BY <1>2, <1>3, <1>4, <1>5, <1>6, <1>7, ReminderActKeeps

-----------------------------------------------------------------------------
(* What writes the journal *)

LEMMA NewsKeep ==
  ASSUME NoticesInv, NEW events, NewsNow(events), Record(events),
         UNCHANGED <<about, theme, clerks, hour, plan, reminded, reserved, desks, heard, painted, promised, blank,
                     kills>>,
         acts' \in 0 .. MaxActs, reminders' \in [ReminderKeys -> Reminder], fate' \in [Halves -> Fates],
         silent' \subseteq Halves, unheard' \subseteq Halves,
         \A k \in ReminderKeys :
           \/ reminders'[k] = reminders[k]
           \/ \E i \in 1 .. Len(events) : /\ events[i].type = "reminder" /\ events[i].of = reminders[k].of
                                          /\ events[i].at = reminders[k].at,
         \A g \in unheard' : fate'[g] = "failed" =>
           \/ g \in unheard /\ fate[g] = "failed"
           \/ \E i \in 1 .. Len(events) : events[i].type = "failed" /\ g \in events[i].of,
         HasCard(events) \/ \A g \in Halves \ silent' : g \notin silent /\ fate'[g] = fate[g]
  PROVE  NoticesInv'
<1>1. NoticesTyped /\ DesksKnown /\ ToldInv /\ ReminderKept /\ FailureInv /\ CardInv
  BY DEF NoticesInv
<1>2. /\ JournalKept /\ journal' \in Seq(Event) /\ Len(journal') <= MaxJournal
      /\ Pending \subseteq Pending'
      /\ \A i \in 1 .. Len(events) : \E e \in Pending' : journal'[e] = events[i]
      /\ \A e \in 1 .. Len(journal') :
           e \in 1 .. Len(journal) \/ \E i \in 1 .. Len(events) : journal'[e] = events[i]
  BY <1>1, JournalGrows
<1>3. Pending' \subseteq 1 .. Len(journal') /\ Pending \subseteq 1 .. Len(journal)
  BY DEF Pending
<1>4. /\ Len(journal) \in Nat /\ Len(journal') \in Nat /\ Len(journal) <= Len(journal')
      /\ \A e \in 1 .. Len(journal) : e \in 1 .. Len(journal') /\ journal'[e] = journal[e]
  BY <1>1, <1>2, NoticeNumbers DEF JournalKept
<1>5. NoticesTyped'
  <2>1. \A e \in 1 .. Len(journal') : journal'[e] \in Event
    BY <1>2, ElementOfSeq
  <2>2. reserved' \subseteq 1 .. Len(journal')
    BY <1>1, <1>4 DEF NoticesTyped, NoticesTypeOK
  <2>3. plan' \in [Halves -> 0 .. Horizon] /\ promised' \in [Halves -> 0 .. Horizon] /\ painted' \in [Halves -> Fates]
        /\ desks' \in [1 .. 2 -> Clerk] /\ reminded' \subseteq Admins
        /\ heard' \in [1 .. MaxJournal -> [Admins -> Nat]]
        /\ (\A e \in 1 .. MaxJournal, a \in Admins : heard'[e][a] \in Nat)
    BY <1>1 DEF NoticesTyped, NoticesTypeOK
  <2>4. /\ about' \in {"post", "video"} /\ theme' \in {"reminders", "outcomes"} /\ clerks' \in 1 .. 2
        /\ hour' \in 0 .. Horizon /\ blank' \in BOOLEAN /\ kills' \in 0 .. MaxKills
    BY <1>1 DEF NoticesTyped, NoticesTypeOK
  <2> QED BY <1>2, <2>1, <2>2, <2>3, <2>4 DEF NoticesTyped, NoticesTypeOK
<1>6. DesksKnown' /\ ToldInv'
  BY <1>1, <1>2, DesksFrame
<1>7. ReminderKept'
  <2> SUFFICES ASSUME NEW g \in Halves, promised[g] # 0
               PROVE  \/ \E k \in ReminderKeys : reminders'[k].st = "queued" /\ g \in reminders'[k].of
                                                 /\ reminders'[k].at = promised[g]
                      \/ \E i \in 1 .. Len(journal') : journal'[i].type = "reminder" /\ g \in journal'[i].of
                                                       /\ journal'[i].at = promised[g]
    BY DEF ReminderKept
  <2>1. ASSUME NEW k \in ReminderKeys, reminders[k].st = "queued", g \in reminders[k].of,
               reminders[k].at = promised[g], reminders'[k] # reminders[k]
        PROVE  \E i \in 1 .. Len(journal') : journal'[i].type = "reminder" /\ g \in journal'[i].of
                                             /\ journal'[i].at = promised[g]
    <3>1. PICK i \in 1 .. Len(events) : /\ events[i].type = "reminder" /\ events[i].of = reminders[k].of
                                        /\ events[i].at = reminders[k].at
      BY <2>1
    <3>2. PICK e \in Pending' : journal'[e] = events[i]
      BY <1>2
    <3> QED BY <1>3, <2>1, <3>1, <3>2
  <2>2. CASE \E k \in ReminderKeys : reminders[k].st = "queued" /\ g \in reminders[k].of
                                     /\ reminders[k].at = promised[g]
    BY <2>1, <2>2
  <2>3. CASE \E i \in 1 .. Len(journal) : journal[i].type = "reminder" /\ g \in journal[i].of
                                          /\ journal[i].at = promised[g]
    BY <1>4, <2>3
  <2> QED BY <1>1, <2>2, <2>3 DEF ReminderKept
<1>8. FailureInv'
  <2>1. ASSUME NEW g \in unheard', fate'[g] = "failed"
        PROVE  \E e \in 1 .. Len(journal') : /\ journal'[e].type = "failed" /\ g \in journal'[e].of
                                             /\ (e \in Pending' \/ InHand(e)')
    <3>1. CASE g \in unheard /\ fate[g] = "failed"
      <4>1. \A e \in 1 .. Len(journal) : (e \in Pending \/ InHand(e)) => (e \in Pending' \/ InHand(e)')
        BY <1>2 DEF InHand
      <4> QED BY <1>1, <1>2, <3>1, <4>1, FailureFrame
    <3>2. CASE \E i \in 1 .. Len(events) : events[i].type = "failed" /\ g \in events[i].of
      <4>1. PICK i \in 1 .. Len(events) : events[i].type = "failed" /\ g \in events[i].of
        BY <3>2
      <4>2. PICK e \in Pending' : journal'[e] = events[i]
        BY <1>2
      <4> QED BY <1>3, <4>1, <4>2
    <3> QED BY <2>1, <3>1, <3>2
  <2>2. ASSUME NEW e \in 1 .. Len(journal'), journal'[e].type = "failed"
        PROVE  \E h \in Halves : journal'[e].of = {h}
    <3>1. CASE e \in 1 .. Len(journal)
      BY <1>1, <1>4, <2>2, <3>1 DEF FailureInv
    <3>2. CASE \E i \in 1 .. Len(events) : journal'[e] = events[i]
      BY <2>2, <3>2 DEF NewsNow
    <3> QED BY <1>2, <3>1, <3>2
  <2> QED BY <2>1, <2>2 DEF FailureInv, FailureIsTold
<1>9. CardInv'
  <2>1. CASE HasCard(events)
    <3>1. \E e \in Pending' : journal'[e].type = "card"
      BY <1>2, <2>1 DEF HasCard
    <3> QED BY <3>1 DEF CardInv
  <2>2. CASE \A g \in Halves \ silent' : g \notin silent /\ fate'[g] = fate[g]
    <3>1. Shown' = Shown
      BY <1>1, <1>2, ShownStays
    <3>2. \A e \in Pending : e \in Pending' /\ journal'[e] = journal[e]
      BY <1>2, <1>3, <1>4
    <3> QED BY <1>1, <2>2, <3>1, <3>2, CardFrame
  <2> QED BY <2>1, <2>2
<1> QED BY <1>5, <1>6, <1>7, <1>8, <1>9 DEF NoticesInv

LEMMA CycleKeeps ==
  ASSUME NoticesInv, NEW k \in ReminderKeys, NEW written \in BOOLEAN, RunNotificationCycle(k, written)
  PROVE  NoticesInv'
<1>1. NoticesTyped
  BY DEF NoticesInv
<1>2. /\ fate \in [Halves -> Fates] /\ silent \subseteq Halves /\ unheard \subseteq Halves /\ acts \in 0 .. MaxActs
      /\ reminders \in [ReminderKeys -> Reminder] /\ plan \in [Halves -> 0 .. Horizon]
      /\ promised \in [Halves -> 0 .. Horizon] /\ reminded \subseteq Admins
  BY <1>1 DEF NoticesTyped, NoticesTypeOK
<1>3. /\ UNCHANGED <<about, theme, clerks, hour, plan, fate, reminded, reserved, desks, heard, painted, promised,
                     unheard, silent, blank, acts, kills>>
      /\ reminders' = [reminders EXCEPT ![k] = Reminded(reminders[k], written)]
  BY DEF RunNotificationCycle
<1>4. CASE written
  <2>1. PICK row \in Reminder : row = reminders[k]
    BY <1>2
  <2>2. row.of \in SUBSET Halves /\ row.at \in 0 .. Horizon /\ [row EXCEPT !.st = "delivered"] \in Reminder
    BY DEF Reminder
  <2>3. reminders' = [reminders EXCEPT ![k] = [row EXCEPT !.st = "delivered"]]
    BY <1>3, <1>4, <2>1 DEF Reminded
  <2>4. PICK y \in Event : y = News("reminder", row.of) /\ y.type = "reminder" /\ y.of = row.of /\ y.born = hour
    <3>1. "reminder" \in EventTypes
      BY DEF EventTypes
    <3> QED BY <1>1, <2>2, <3>1, NewsIsEvent
  <2>5. PICK x : x = [y EXCEPT !.at = row.at]
    OBVIOUS
  <2>6. x \in Event /\ x.type = "reminder" /\ x.of = row.of /\ x.at = row.at /\ x.born = hour
    BY <2>2, <2>4, <2>5 DEF Event
  <2>7. PICK s : s = << x >>
    OBVIOUS
  <2>8. s \in Seq(Event) /\ Len(s) = 1 /\ s[1] = x
    BY <2>6, <2>7
  <2>9. NewsNow(s)
    BY <2>6, <2>8 DEF NewsNow
  <2>10. Record(s)
    BY <1>4, <2>1, <2>4, <2>5, <2>7 DEF RunNotificationCycle
  <2>11. reminders' \in [ReminderKeys -> Reminder] /\ \A j \in ReminderKeys : j = k \/ reminders'[j] = reminders[j]
    BY <1>2, <2>2, <2>3
  <2>12. \A j \in ReminderKeys :
           \/ reminders'[j] = reminders[j]
           \/ \E i \in 1 .. Len(s) : /\ s[i].type = "reminder" /\ s[i].of = reminders[j].of
                                     /\ s[i].at = reminders[j].at
    <3>1. 1 \in 1 .. Len(s)
      BY <2>8
    <3> QED BY <2>1, <2>6, <2>8, <2>11, <3>1
  <2> QED BY <1>2, <1>3, <2>9, <2>10, <2>11, <2>12, NewsKeep
<1>5. CASE ~written
  <2>1. UNCHANGED <<reminders, journal>>
    <3>1. UNCHANGED journal
      BY <1>5 DEF RunNotificationCycle
    <3>2. reminders' = [reminders EXCEPT ![k] = reminders[k]]
      BY <1>3, <1>5 DEF Reminded
    <3> QED BY <1>2, <3>1, <3>2
  <2>2. \A g \in Halves : promised'[g] = promised[g] /\ \A j \in ReminderKeys : reminders'[j] = reminders[j]
    BY <1>3, <2>1
  <2> QED BY <1>2, <1>3, <2>1, <2>2, ReminderActKeeps
<1> QED BY <1>4, <1>5

LEMMA AnnounceKeeps ==
  ASSUME NoticesInv, NEW h \in Halves, NEW outcome \in Fates, NEW events, NEW listed \in BOOLEAN,
         Announce(h, outcome, events, listed), acts' \in 0 .. MaxActs, NewsNow(events),
         listed => HasCard(events)
  PROVE  NoticesInv'
<1>1. NoticesTyped
  BY DEF NoticesInv
<1> DEFINE done == outcome \in FinalFates /\ \A g \in Halves \ {h} : fate[g] \in FinalFates
           more == IF done THEN Journaled(News("completed", {})) ELSE <<>>
<1>2. NewsNow(more)
  <2>1. "completed" \in EventTypes /\ {} \in SUBSET Halves
    BY DEF EventTypes
  <2> QED BY <1>1, <2>1, NoNews, JournaledNews
<1> HIDE DEF more, done
<1>3. PICK all : all = events \o more
  OBVIOUS
<1>4. NewsNow(all) /\ (HasCard(events) => HasCard(all))
  BY <1>2, <1>3, MoreNews
<1>5. /\ fate' = [fate EXCEPT ![h] = outcome] /\ Record(all)
      /\ silent' = (IF listed THEN silent \ {h} ELSE silent \cup {h})
      /\ unheard' = (IF \E i \in 1 .. Len(all) : all[i] = News("failed", {h})
                     THEN unheard \cup {h} ELSE unheard \ {h})
      /\ UNCHANGED <<about, theme, clerks, hour, plan, reminders, reminded, reserved, desks, heard, painted, promised,
                     blank, kills>>
  BY <1>3 DEF Announce, more, done
<1>6. /\ fate \in [Halves -> Fates] /\ silent \subseteq Halves /\ unheard \subseteq Halves
      /\ reminders \in [ReminderKeys -> Reminder]
  BY <1>1 DEF NoticesTyped, NoticesTypeOK
<1>7. /\ fate' \in [Halves -> Fates] /\ silent' \subseteq Halves /\ unheard' \subseteq Halves
      /\ \A g \in Halves : g # h => fate'[g] = fate[g]
  BY <1>5, <1>6
<1>8. News("failed", {h}).type = "failed" /\ News("failed", {h}).of = {h}
  <2>1. "failed" \in EventTypes /\ {h} \in SUBSET Halves
    BY DEF EventTypes
  <2> QED BY <1>1, <2>1, NewsIsEvent
<1>9. ASSUME NEW g \in unheard', fate'[g] = "failed"
      PROVE  \/ g \in unheard /\ fate[g] = "failed"
             \/ \E i \in 1 .. Len(all) : all[i].type = "failed" /\ g \in all[i].of
  <2>1. CASE g = h
    BY <1>5, <1>8, <2>1
  <2>2. CASE g # h
    BY <1>5, <1>7, <1>9, <2>2
  <2> QED BY <2>1, <2>2
<1>10. HasCard(all) \/ \A g \in Halves \ silent' : g \notin silent /\ fate'[g] = fate[g]
  <2>1. CASE listed
    BY <1>4, <2>1
  <2>2. CASE ~listed
    <3>1. silent' = silent \cup {h}
      BY <1>5, <2>2
    <3> QED BY <1>7, <3>1
  <2> QED BY <2>1, <2>2
<1> QED BY <1>4, <1>5, <1>6, <1>7, <1>9, <1>10, NewsKeep

LEMMA HalfStepKeeps ==
  ASSUME NoticesInv, NEW h \in Halves,
         ClaimHalf(h) \/ PublishHalf(h) \/ FailHalf(h) \/ DoubtHalf(h) \/ ConfirmHalf(h) \/ RetryHalf(h)
  PROVE  NoticesInv'
<1>1. NoticesTyped
  BY DEF NoticesInv
<1>2. /\ "card" \in EventTypes /\ "failed" \in EventTypes /\ {h} \in SUBSET Halves
      /\ {"waiting", "running", "published", "failed", "in_doubt"} \subseteq Fates
  BY DEF EventTypes, Fates
<1> DEFINE card == <<News("card", {h})>>
           news == IF about = "video" THEN Journaled(News("failed", {h})) ELSE <<>>
<1>3. NewsNow(card) /\ HasCard(card) /\ NewsNow(<<>>)
  BY <1>1, <1>2, OneNews, NoNews
<1>4. NewsNow(news)
  <2>1. \E g \in Halves : {h} = {g}
    OBVIOUS
  <2> QED BY <1>1, <1>2, <2>1, JournaledNews, NoNews
<1> HIDE DEF news
<1>5. NewsNow(news \o card) /\ HasCard(news \o card)
  BY <1>3, <1>4, MoreNews
<1>6. acts \in 0 .. MaxActs
  BY <1>1 DEF NoticesTyped, NoticesTypeOK
<1>7. CASE ClaimHalf(h)
  <2>1. PICK s : s = IF about = "post" THEN card ELSE <<>>
    OBVIOUS
  <2>2. Announce(h, "running", s, about = "post") /\ acts' = acts
    BY <1>7, <2>1 DEF ClaimHalf
  <2>3. NewsNow(s) /\ (about = "post" => HasCard(s))
    BY <1>3, <2>1
  <2>4. (about = "post") \in BOOLEAN
    OBVIOUS
  <2> QED BY <1>2, <1>6, <2>2, <2>3, <2>4, AnnounceKeeps
<1>8. CASE PublishHalf(h)
  <2>1. Announce(h, "published", card, TRUE) /\ acts' = acts
    BY <1>8 DEF PublishHalf
  <2> HIDE DEF card
  <2> QED BY <1>2, <1>3, <1>6, <2>1, AnnounceKeeps
<1>9. CASE FailHalf(h)
  <2>1. Announce(h, "failed", news \o card, TRUE) /\ acts' = acts
    BY <1>9 DEF FailHalf, news
  <2> HIDE DEF card
  <2> QED BY <1>2, <1>5, <1>6, <2>1, AnnounceKeeps
<1>10. CASE DoubtHalf(h)
  <2>1. PICK s : s = IF about = "video" THEN card ELSE <<>>
    OBVIOUS
  <2>2. Announce(h, "in_doubt", s, about = "video") /\ acts' = acts
    BY <1>10, <2>1 DEF DoubtHalf
  <2>3. NewsNow(s) /\ (about = "video" => HasCard(s))
    BY <1>3, <2>1
  <2>4. (about = "video") \in BOOLEAN
    OBVIOUS
  <2> QED BY <1>2, <1>6, <2>2, <2>3, <2>4, AnnounceKeeps
<1>11. CASE ConfirmHalf(h)
  <2>1. Announce(h, "published", <<>>, FALSE) /\ acts' = acts
    BY <1>11 DEF ConfirmHalf
  <2> QED BY <1>2, <1>3, <1>6, <2>1, AnnounceKeeps
<1>12. CASE RetryHalf(h)
  <2>1. Announce(h, "waiting", <<>>, FALSE) /\ acts' \in 0 .. MaxActs
    BY <1>1, <1>12, ActsTyped DEF RetryHalf
  <2> QED BY <1>2, <1>3, <2>1, AnnounceKeeps
<1> QED BY <1>7, <1>8, <1>9, <1>10, <1>11, <1>12

LEMMA GiveUpKeeps ==
  ASSUME NoticesInv, NEW h \in Halves, GiveUpAsking(h)
  PROVE  NoticesInv'
<1>1. NoticesTyped
  BY DEF NoticesInv
<1>2. PICK s : s = <<News("unresolved", {h})>>
  OBVIOUS
<1>3. NewsNow(s)
  <2>1. "unresolved" \in EventTypes /\ {h} \in SUBSET Halves
    BY DEF EventTypes
  <2> QED BY <1>1, <1>2, <2>1, OneNews
<1>4. /\ Record(s)
      /\ UNCHANGED <<about, theme, clerks, hour, plan, fate, reminders, reminded, reserved, desks, heard, painted,
                     promised, unheard, silent, blank, acts, kills>>
  BY <1>2 DEF GiveUpAsking
<1>5. /\ fate \in [Halves -> Fates] /\ silent \subseteq Halves /\ unheard \subseteq Halves /\ acts \in 0 .. MaxActs
      /\ reminders \in [ReminderKeys -> Reminder]
  BY <1>1 DEF NoticesTyped, NoticesTypeOK
<1> QED BY <1>3, <1>4, <1>5, NewsKeep

-----------------------------------------------------------------------------
(* The consumer *)

\* A process of the consumer moves its own desk and nothing of the publication, and
\* drops no failure that stands.
DeskStep(p) ==
  /\ UNCHANGED <<about, theme, clerks, hour, plan, fate, reminders, reminded, journal, promised, silent, acts>>
  /\ desks' \in [1 .. 2 -> Clerk] /\ \A q \in 1 .. 2 : q # p => desks'[q] = desks[q]
  /\ painted' \in [Halves -> Fates] /\ heard' \in [1 .. MaxJournal -> [Admins -> Nat]]
  /\ reserved \subseteq reserved' /\ reserved' \subseteq 1 .. Len(journal)
  /\ unheard' \subseteq unheard /\ blank' \in BOOLEAN /\ kills' \in 0 .. MaxKills
  /\ desks'[p].page \subseteq 1 .. Len(journal) /\ desks'[p].next <= Administrators
  /\ desks'[p].event # 0 => desks'[p].event \in reserved'
  /\ p > clerks => desks'[p].page = {} /\ desks'[p].event = 0
  /\ \A g \in unheard', e \in 1 .. Len(journal) :
       fate[g] = "failed" /\ journal[e].type = "failed" /\ g \in journal[e].of
           /\ (e \in Pending \/ desks[p].event = e)
         => e \in Pending' \/ desks'[p].event = e

LEMMA ConsumerKeeps ==
  ASSUME NoticesInv, NEW p \in 1 .. 2, DeskStep(p), ToldInv', CardInv'
  PROVE  NoticesInv'
<1>1. NoticesTyped /\ DesksKnown /\ ToldInv /\ ReminderKept /\ FailureInv /\ CardInv
  BY DEF NoticesInv
<1> USE DEF DeskStep
<1>2. JournalKept
  BY <1>1, JournalStays
<1>3. /\ desks \in [1 .. 2 -> Clerk] /\ desks' \in [1 .. 2 -> Clerk]
      /\ \A q \in 1 .. 2 : q # p => desks'[q] = desks[q]
  BY <1>1 DEF NoticesTyped, NoticesTypeOK
<1>4. NoticesTyped'
  <2>1. unheard' \subseteq Halves /\ (\A e \in 1 .. MaxJournal, a \in Admins : heard'[e][a] \in Nat)
    BY <1>1 DEF NoticesTyped, NoticesTypeOK
  <2> QED BY <1>1, <1>3, <2>1 DEF NoticesTyped, NoticesTypeOK
<1>5. DesksKnown'
  BY <1>1, <1>3 DEF DesksKnown
<1>6. ReminderKept'
  BY <1>1, <1>2, RemindersFrame
<1>7. FailureInv'
  <2>1. ASSUME NEW g \in unheard', fate'[g] = "failed"
        PROVE  \E e \in 1 .. Len(journal') : /\ journal'[e].type = "failed" /\ g \in journal'[e].of
                                             /\ (e \in Pending' \/ InHand(e)')
    <3>1. g \in unheard /\ fate[g] = "failed"
      BY <2>1
    <3>2. ASSUME NEW e \in 1 .. Len(journal), journal[e].type = "failed", g \in journal[e].of,
                 e \in Pending \/ InHand(e)
          PROVE  e \in Pending' \/ InHand(e)'
      <4>1. CASE e \in Pending \/ desks[p].event = e
        BY <1>3, <3>1, <3>2, <4>1 DEF InHand
      <4>2. CASE \E q \in 1 .. 2 : q # p /\ desks[q].event = e
        BY <1>3, <4>2 DEF InHand
      <4> QED BY <3>2, <4>1, <4>2 DEF InHand
    <3> QED BY <1>1, <1>2, <3>1, <3>2, FailureFrame
  <2> QED BY <1>1, <2>1 DEF FailureInv, FailureIsTold
<1> QED BY <1>4, <1>5, <1>6, <1>7 DEF NoticesInv

LEMMA ClerkFields ==
  ASSUME NoticesInv, NEW p \in 1 .. 2
  PROVE  /\ desks[p] \in Clerk /\ desks[p].page \subseteq 1 .. Len(journal)
         /\ desks[p].event \in 0 .. MaxJournal /\ desks[p].next \in 1 .. Administrators
         /\ desks[p].view \in [Halves -> Fates]
         /\ (desks[p].event # 0 => desks[p].event \in 1 .. Len(journal) /\ desks[p].event \in reserved)
         /\ (clerks = 1 /\ (desks[p].page # {} \/ desks[p].event # 0) => p = 1)
<1>1. NoticesTyped /\ DesksKnown
  BY DEF NoticesInv
<1>2. PICK c \in Clerk : c = desks[p]
  BY <1>1 DEF NoticesTyped, NoticesTypeOK
<1>3. /\ c.page \subseteq 1 .. Len(journal) /\ c.next <= Administrators /\ (c.event # 0 => c.event \in reserved)
      /\ (p > clerks => c.page = {} /\ c.event = 0)
  BY <1>1, <1>2 DEF DesksKnown
<1>4. /\ c.event \in 0 .. MaxJournal /\ c.next \in 1 .. Administrators + 1 /\ c.view \in [Halves -> Fates]
  BY DEF Clerk
<1>5. c.next \in 1 .. Administrators
  BY <1>1, <1>3, <1>4, NoticeNumbers
<1>6. clerks = 1 /\ (c.page # {} \/ c.event # 0) => p = 1
  BY <1>3
<1>7. reserved \subseteq 1 .. Len(journal)
  BY <1>1 DEF NoticesTyped, NoticesTypeOK
<1> QED BY <1>2, <1>3, <1>4, <1>5, <1>6, <1>7

LEMMA IdleIsClerk ==
  ASSUME NoticesTyped, NEW pages \in SUBSET (1 .. MaxJournal)
  PROVE  /\ LET c == [IdleClerk EXCEPT !.page = pages] IN
            c \in Clerk /\ c.page = pages /\ c.event = 0 /\ c.next = 1
         /\ IdleClerk \in Clerk /\ IdleClerk.page = {} /\ IdleClerk.event = 0 /\ IdleClerk.next = 1
<1>1. 0 \in 0 .. MaxJournal /\ 1 \in 1 .. Administrators + 1
  BY NoticeNumbers
<1>2. IdleClerk \in Clerk /\ IdleClerk.page = {} /\ IdleClerk.event = 0 /\ IdleClerk.next = 1
  BY <1>1 DEF IdleClerk, Clerk, Fates
<1> QED BY <1>1, <1>2 DEF IdleClerk, Clerk, Fates

LEMMA PollKeeps ==
  ASSUME NoticesInv, NEW p \in 1 .. 2, Poll(p)
  PROVE  NoticesInv'
<1>1. NoticesTyped /\ ToldInv /\ CardInv
  BY DEF NoticesInv
<1>2. PICK pages \in SUBSET Pending : desks' = [desks EXCEPT ![p].page = pages]
  BY DEF Poll
<1>3. /\ desks[p] = IdleClerk /\ p <= clerks
      /\ UNCHANGED <<about, theme, clerks, hour, plan, fate, reminders, reminded, journal, reserved, heard, painted,
                     promised, unheard, silent, blank, acts, kills>>
  BY DEF Poll
<1>4. PICK c : c = [IdleClerk EXCEPT !.page = pages]
  OBVIOUS
<1>5. Pending \subseteq 1 .. Len(journal) /\ 1 .. Len(journal) \subseteq 1 .. MaxJournal
  BY <1>1, NoticeNumbers DEF Pending
<1>6. c \in Clerk /\ c.page = pages /\ c.event = 0 /\ c.next = 1
  <2>1. pages \in SUBSET (1 .. MaxJournal)
    BY <1>2, <1>5
  <2> QED BY <1>1, <1>4, <2>1, IdleIsClerk
<1>7. desks' = [desks EXCEPT ![p] = c] /\ desks' \in [1 .. 2 -> Clerk] /\ desks'[p] = c
      /\ \A q \in 1 .. 2 : q # p => desks'[q] = desks[q]
  BY <1>1, <1>2, <1>3, <1>4, <1>6 DEF NoticesTyped, NoticesTypeOK
<1>8. desks[p].event = 0 /\ \A q \in 1 .. 2 : desks'[q].event = desks[q].event
  <2>1. IdleClerk.event = 0
    BY DEF IdleClerk
  <2> QED BY <1>3, <1>6, <1>7, <2>1
<1>9. ToldInv'
  <2>1. ASSUME NEW q \in 1 .. 2, desks'[q].event # 0
        PROVE  desks'[q] = desks[q]
    BY <1>6, <1>7, <2>1
  <2> QED BY <1>1, <1>3, <1>8, <2>1 DEF ToldInv, ToldAtMostOnce
<1>10. CardInv'
  <2>1. Pending' = Pending
    BY <1>1, <1>3, JournalStays
  <2>2. 1 \in 1 .. 2 /\ (desks'[1].event # 0 => desks'[1] = desks[1])
    BY <1>6, <1>7
  <2>3. Shown' = Shown
    BY <1>3, <1>8, <2>2 DEF Shown, HoldsCard
  <2> QED BY <1>1, <1>3, <2>1, <2>3, CardFrame
<1>11. /\ painted' \in [Halves -> Fates] /\ heard' \in [1 .. MaxJournal -> [Admins -> Nat]] /\ blank' \in BOOLEAN
       /\ kills' \in 0 .. MaxKills /\ reserved' \subseteq 1 .. Len(journal)
  BY <1>1, <1>3 DEF NoticesTyped, NoticesTypeOK
<1>12. Pending' = Pending /\ c.next <= Administrators /\ c.page \subseteq 1 .. Len(journal) /\ ~(p > clerks)
  BY <1>1, <1>2, <1>3, <1>5, <1>6, NoticeNumbers, JournalStays
<1>13. ASSUME NEW g \in unheard', NEW e \in 1 .. Len(journal), e \in Pending \/ desks[p].event = e
       PROVE  e \in Pending' \/ c.event = e
  BY <1>8, <1>12, <1>13
<1>14. /\ reserved \subseteq reserved' /\ unheard' \subseteq unheard /\ (c.event # 0 => c.event \in reserved')
       /\ (p > clerks => c.page = {} /\ c.event = 0)
  BY <1>3, <1>6, <1>12
<1>15. DeskStep(p)
  BY <1>3, <1>6, <1>7, <1>11, <1>12, <1>13, <1>14 DEF DeskStep
<1> QED BY <1>9, <1>10, <1>15, ConsumerKeeps

LEMMA ClaimKeeps ==
  ASSUME NoticesInv, NEW p \in 1 .. 2, ClaimEvent(p)
  PROVE  NoticesInv'
<1>1. NoticesTyped /\ ToldInv /\ FailureInv /\ CardInv
  BY DEF NoticesInv
<1> DEFINE rest(e) == [desks[p] EXCEPT !.page = desks[p].page \ {e}]
           taking(e) == [rest(e) EXCEPT !.event = e,
                                        !.view = IF journal[e].type = "card" THEN fate ELSE rest(e).view]
<1>2. PICK e \in desks[p].page :
        /\ desks[p].event = 0 /\ reserved' = reserved \cup {e}
        /\ desks' = [desks EXCEPT ![p] = IF Taken(e) \/ Moot(e) THEN rest(e) ELSE taking(e)]
  BY DEF ClaimEvent
<1>3. /\ UNCHANGED <<about, theme, clerks, hour, plan, fate, reminders, reminded, journal, heard, painted, promised,
                     unheard, silent, blank, acts, kills>>
      /\ desks \in [1 .. 2 -> Clerk] /\ fate \in [Halves -> Fates]
  BY <1>1 DEF ClaimEvent, NoticesTyped, NoticesTypeOK
<1>4. e \in 1 .. Len(journal) /\ e \in 1 .. MaxJournal /\ e # 0
  BY <1>1, <1>2, ClerkFields, NoticeNumbers
<1>5. PICK d \in Clerk : d = desks[p]
  BY <1>3
<1>6. /\ d.page \subseteq 1 .. Len(journal) /\ d.next \in 1 .. Administrators /\ d.event = 0
      /\ d.view \in [Halves -> Fates] /\ e \in d.page /\ (clerks = 1 => p = 1)
  BY <1>2, <1>5, ClerkFields
<1>7. PICK c : c = IF Taken(e) \/ Moot(e) THEN rest(e) ELSE taking(e)
  OBVIOUS
<1>8. /\ c \in Clerk /\ c.page \subseteq d.page /\ c.next = d.next
      /\ c.event = (IF Taken(e) \/ Moot(e) THEN 0 ELSE e)
      /\ (~(Taken(e) \/ Moot(e)) /\ journal[e].type = "card" => c.view = fate)
  <2>1. PICK r \in Clerk : r = rest(e) /\ r.page \subseteq d.page /\ r.next = d.next /\ r.event = 0 /\ r.view = d.view
    <3>1. d.page \ {e} \in SUBSET (1 .. MaxJournal) /\ d.page \ {e} \subseteq d.page
      BY <1>5 DEF Clerk
    <3>2. PICK r : r = [d EXCEPT !.page = d.page \ {e}]
      OBVIOUS
    <3>3. r \in Clerk /\ r.page = d.page \ {e} /\ r.next = d.next /\ r.event = d.event /\ r.view = d.view
      BY <3>1, <3>2 DEF Clerk
    <3> QED BY <1>5, <1>6, <3>1, <3>2, <3>3
  <2>2. PICK v \in [Halves -> Fates] : v = IF journal[e].type = "card" THEN fate ELSE r.view
    BY <1>3, <1>6, <2>1
  <2>3. taking(e) = [r EXCEPT !.event = e, !.view = v]
    BY <2>1, <2>2
  <2> HIDE DEF rest, taking
  <2>4. e \in 0 .. MaxJournal
    BY <1>4
  <2>5. PICK u \in Clerk : u = taking(e) /\ u.page = r.page /\ u.next = r.next /\ u.event = e /\ u.view = v
    BY <2>3, <2>4 DEF Clerk
  <2> QED BY <1>7, <2>1, <2>2, <2>5
<1> HIDE DEF rest, taking
<1>9. desks' \in [1 .. 2 -> Clerk] /\ desks'[p] = c /\ \A q \in 1 .. 2 : q # p => desks'[q] = desks[q]
  BY <1>2, <1>3, <1>7, <1>8
<1>10. ToldInv'
  <2>1. ASSUME NEW q \in 1 .. 2, NEW a \in Admins, desks'[q].event # 0, desks'[q].next <= a
        PROVE  heard'[desks'[q].event][a] = 0
    <3>1. CASE q = p
      <4>1. c.event = e /\ e \notin reserved
        BY <1>8, <1>9, <2>1, <3>1 DEF Taken
      <4> QED BY <1>1, <1>3, <1>4, <1>9, <3>1, <4>1 DEF ToldInv
    <3>2. CASE q # p
      BY <1>1, <1>3, <1>9, <2>1, <3>2 DEF ToldInv
    <3> QED BY <3>1, <3>2
  <2>2. ASSUME desks'[1].event = desks'[2].event, desks'[1].event # 0
        PROVE  FALSE
    <3>1. PICK q \in 1 .. 2 : q # p
      <4>1. 1 \in 1 .. 2 /\ 2 \in 1 .. 2
        OBVIOUS
      <4> QED BY <4>1
    <3>2. desks'[p].event = desks'[q].event /\ desks'[q].event # 0
      <4>1. p \in {1, 2} /\ q \in {1, 2}
        OBVIOUS
      <4> QED BY <2>2, <3>1, <4>1
    <3>3. c.event = e /\ e \notin reserved
      BY <1>8, <1>9, <3>2 DEF Taken
    <3>4. desks[q].event = e
      BY <1>9, <3>1, <3>2, <3>3
    <3>5. desks[q].event \in reserved
      BY <1>4, <3>4, ClerkFields
    <3> QED BY <3>3, <3>4, <3>5
  <2>3. /\ \A f \in 1 .. MaxJournal, a \in Admins : heard'[f][a] <= 1
        /\ \A f \in 1 .. MaxJournal, a \in Admins : heard'[f][a] # 0 => f \in reserved'
    BY <1>1, <1>2, <1>3 DEF ToldInv, ToldAtMostOnce
  <2> QED BY <2>1, <2>2, <2>3 DEF ToldInv, ToldAtMostOnce
<1>11. Pending' = Pending \ {e}
  BY <1>2, <1>3 DEF Pending, Fresh
<1>12. CardInv'
  <2>1. CASE clerks # 1
    BY <1>3, <2>1 DEF CardInv
  <2>2. CASE clerks = 1 /\ c.event # 0 /\ journal[e].type = "card"
    <3>1. p = 1 /\ desks'[1] = c /\ c.event = e /\ c.view = fate
      BY <1>6, <1>8, <1>9, <2>2
    <3>2. Shown' = fate'
      BY <1>3, <1>4, <2>2, <3>1 DEF Shown, HoldsCard
    <3> QED BY <3>2 DEF CardInv
  <2>3. CASE clerks = 1 /\ ~(c.event # 0 /\ journal[e].type = "card")
    <3>1. p = 1 /\ desks'[1] = c /\ desks[1].event = 0
      BY <1>2, <1>6, <1>9, <2>3
    <3>2. c.event \in {0, e}
      BY <1>8
    <3>3. Shown' = painted /\ Shown = painted
      BY <1>3, <2>3, <3>1, <3>2 DEF Shown, HoldsCard
    <3>4. journal[e].type # "card" \/ e \notin Pending
      <4>1. CASE Taken(e)
        BY <4>1 DEF Taken, Pending
      <4>2. CASE Moot(e)
        BY <4>2 DEF Moot
      <4> QED BY <1>4, <1>8, <2>3, <4>1, <4>2
    <3>5. \A f \in Pending : journal[f].type = "card" => f \in Pending' /\ journal'[f] = journal[f]
      BY <1>3, <1>11, <3>4
    <3> QED BY <1>1, <1>3, <3>3, <3>5, CardFrame
  <2> QED BY <2>1, <2>2, <2>3
<1>13. ASSUME NEW g \in unheard', NEW f \in 1 .. Len(journal), fate[g] = "failed", journal[f].type = "failed",
              g \in journal[f].of, f \in Pending \/ desks[p].event = f
       PROVE  f \in Pending' \/ c.event = f
  <2>1. f \in Pending
    BY <1>2, <1>13
  <2>2. CASE f # e
    BY <1>11, <2>1, <2>2
  <2>3. CASE f = e
    <3>1. ~Taken(e)
      BY <2>1, <2>3 DEF Taken, Pending
    <3>2. PICK h \in Halves : journal[e].of = {h}
      BY <1>1, <1>13, <2>3 DEF FailureInv
    <3>3. ~Moot(e)
      BY <1>13, <2>3, <3>2 DEF Moot
    <3> QED BY <1>8, <2>3, <3>1, <3>3
  <2> QED BY <2>2, <2>3
<1>14. /\ painted' \in [Halves -> Fates] /\ heard' \in [1 .. MaxJournal -> [Admins -> Nat]] /\ blank' \in BOOLEAN
       /\ kills' \in 0 .. MaxKills /\ reserved' \subseteq 1 .. Len(journal) /\ reserved \subseteq reserved'
  BY <1>1, <1>2, <1>3, <1>4 DEF NoticesTyped, NoticesTypeOK
<1>15. c.page \subseteq 1 .. Len(journal) /\ c.next <= Administrators /\ (c.event # 0 => c.event \in reserved')
  BY <1>1, <1>2, <1>6, <1>8, NoticeNumbers
<1>16. p > clerks => c.page = {} /\ c.event = 0
  <2>1. ~(p > clerks)
    BY <1>2 DEF NoticesInv, DesksKnown
  <2> QED BY <2>1
<1>17. unheard' \subseteq unheard
  BY <1>3
<1>18. DeskStep(p)
  BY <1>3, <1>9, <1>13, <1>14, <1>15, <1>16, <1>17 DEF DeskStep
<1> QED BY <1>10, <1>12, <1>18, ConsumerKeeps

\* What a desk is left with when it is done with an event.
LEMMA FreedDesk ==
  ASSUME NoticesInv, NEW p \in 1 .. 2, NEW pages \in SUBSET desks[p].page,
         \/ desks' = [desks EXCEPT ![p] = [IdleClerk EXCEPT !.page = pages]]
         \/ desks' = [desks EXCEPT ![p] = IdleClerk] /\ pages = {}
  PROVE  /\ desks' \in [1 .. 2 -> Clerk] /\ \A q \in 1 .. 2 : q # p => desks'[q] = desks[q]
         /\ desks'[p].page = pages /\ desks'[p].event = 0 /\ desks'[p].next = 1
         /\ desks'[p].page \subseteq 1 .. Len(journal) /\ desks'[p].next <= Administrators
         /\ (p > clerks => desks'[p].page = {} /\ desks'[p].event = 0)
<1>1. NoticesTyped /\ DesksKnown
  BY DEF NoticesInv
<1>2. PICK c : /\ c = [IdleClerk EXCEPT !.page = pages] \/ (c = IdleClerk /\ pages = {})
               /\ desks' = [desks EXCEPT ![p] = c]
  OBVIOUS
<1>3. desks[p].page \subseteq 1 .. Len(journal) /\ 1 .. Len(journal) \subseteq 1 .. MaxJournal
  BY <1>1, ClerkFields, NoticeNumbers
<1>4. c \in Clerk /\ c.page = pages /\ c.event = 0 /\ c.next = 1
  <2>1. pages \in SUBSET (1 .. MaxJournal)
    BY <1>3
  <2> QED BY <1>1, <1>2, <2>1, IdleIsClerk
<1>5. desks' \in [1 .. 2 -> Clerk] /\ desks'[p] = c /\ \A q \in 1 .. 2 : q # p => desks'[q] = desks[q]
  BY <1>1, <1>2, <1>4 DEF NoticesTyped, NoticesTypeOK
<1>6. p > clerks => pages = {}
  BY <1>1 DEF DesksKnown
<1>7. 1 <= Administrators
  BY <1>1, NoticeNumbers
<1> QED BY <1>3, <1>4, <1>5, <1>6, <1>7

LEMMA FreedIsTold ==
  ASSUME ToldInv, NEW p \in 1 .. 2, desks'[p].event = 0,
         \A q \in 1 .. 2 : q # p => desks'[q] = desks[q], UNCHANGED <<heard, reserved>>
  PROVE  ToldInv'
<1>1. ASSUME NEW q \in 1 .. 2, desks'[q].event # 0
      PROVE  desks'[q] = desks[q]
  BY <1>1
<1>2. desks'[1].event = desks'[2].event => desks'[1].event = 0
  <2>1. 1 \in 1 .. 2 /\ 2 \in 1 .. 2 /\ p \in {1, 2}
    OBVIOUS
  <2> QED BY <2>1
<1> QED BY <1>1, <1>2 DEF ToldInv, ToldAtMostOnce

LEMMA FreedIsShown ==
  ASSUME NoticesInv, NEW p \in 1 .. 2, desks[p].event # 0, journal[desks[p].event].type # "card",
         journal' = journal, desks'[p].event = 0 \/ desks'[p].event = desks[p].event,
         painted' = painted, clerks = 1
  PROVE  Shown' = Shown
<1>1. p = 1
  BY ClerkFields
<1> QED BY <1>1 DEF Shown, HoldsCard

LEMMA RefreshKeeps ==
  ASSUME NoticesInv, NEW p \in 1 .. 2, NEW edited \in BOOLEAN, RefreshCard(p, edited)
  PROVE  NoticesInv'
<1>1. NoticesTyped /\ ToldInv /\ CardInv
  BY DEF NoticesInv
<1>2. /\ desks[p].event # 0 /\ journal[desks[p].event].type = "card"
      /\ painted' = (IF edited THEN desks[p].view ELSE painted)
      /\ blank' = (~edited \/ (blank /\ desks[p].view # fate))
      /\ desks' = [desks EXCEPT ![p] = [IdleClerk EXCEPT !.page = desks[p].page]]
      /\ UNCHANGED <<about, theme, clerks, hour, plan, fate, reminders, reminded, journal, reserved, heard, promised,
                     unheard, silent, acts, kills>>
  BY DEF RefreshCard, Freed
<1>3. /\ desks' \in [1 .. 2 -> Clerk] /\ \A q \in 1 .. 2 : q # p => desks'[q] = desks[q]
      /\ desks'[p].event = 0 /\ desks'[p].page \subseteq 1 .. Len(journal) /\ desks'[p].next <= Administrators
      /\ (p > clerks => desks'[p].page = {} /\ desks'[p].event = 0)
  BY <1>2, FreedDesk
<1>4. /\ reserved \subseteq 1 .. Len(journal) /\ heard' \in [1 .. MaxJournal -> [Admins -> Nat]]
      /\ painted' \in [Halves -> Fates] /\ blank' \in BOOLEAN /\ kills' \in 0 .. MaxKills
  <2>1. desks[p].view \in [Halves -> Fates]
    BY ClerkFields
  <2> QED BY <1>1, <1>2, <2>1 DEF NoticesTyped, NoticesTypeOK
<1>5. Pending' = Pending
  BY <1>1, <1>2, JournalStays
<1>6. ASSUME NEW g \in unheard', NEW e \in 1 .. Len(journal), journal[e].type = "failed",
             e \in Pending \/ desks[p].event = e
      PROVE  e \in Pending'
  BY <1>2, <1>5, <1>6
<1>7. DeskStep(p)
  BY <1>2, <1>3, <1>4, <1>6 DEF DeskStep
<1>8. ToldInv'
  BY <1>1, <1>2, <1>3, FreedIsTold
<1>9. CardInv'
  <2>1. CASE clerks # 1 \/ ~edited
    BY <1>2, <2>1 DEF CardInv
  <2>2. CASE clerks = 1 /\ edited
    <3>1. p = 1 /\ Shown = desks[p].view /\ Shown' = desks[p].view
      BY <1>2, <1>3, <2>2, ClerkFields DEF Shown, HoldsCard
    <3>2. CASE desks[p].view = fate
      BY <1>2, <3>1, <3>2 DEF CardInv
    <3>3. CASE desks[p].view # fate
      <4>1. blank => blank'
        BY <1>2, <3>3
      <4>2. \A e \in Pending : e \in Pending' /\ journal'[e] = journal[e]
        BY <1>2, <1>5
      <4> QED BY <1>1, <1>2, <3>1, <4>1, <4>2, CardFrame
    <3> QED BY <3>2, <3>3
  <2> QED BY <2>1, <2>2
<1> QED BY <1>7, <1>8, <1>9, ConsumerKeeps

LEMMA TellKeeps ==
  ASSUME NoticesInv, NEW p \in 1 .. 2, Tell(p)
  PROVE  NoticesInv'
<1>1. NoticesTyped /\ ToldInv /\ CardInv
  BY DEF NoticesInv
<1>2. PICK e \in 1 .. Len(journal), a \in Admins : e = desks[p].event /\ a = desks[p].next
  <2>1. desks[p].event # 0
    BY DEF Tell
  <2> QED BY <2>1, ClerkFields DEF Admins
<1>3. /\ e # 0 /\ journal[e].type # "card" /\ e \in reserved /\ e \in 1 .. MaxJournal /\ a \in 1 .. Administrators
      /\ Administrators \in Nat
  BY <1>1, <1>2, ClerkFields, NoticeNumbers DEF Tell, Admins
<1>4. /\ heard' = [heard EXCEPT ![e][a] = heard[e][a] + 1] \/ heard' = heard
      /\ unheard' = (IF a = Administrators /\ journal[e].type = "failed" THEN unheard \ journal[e].of ELSE unheard)
      /\ UNCHANGED <<about, theme, clerks, hour, plan, fate, reminders, reminded, journal, reserved, painted, promised,
                     silent, blank, acts, kills>>
  BY <1>2 DEF Tell
<1>5. heard \in [1 .. MaxJournal -> [Admins -> Nat]] /\ heard[e][a] = 0
  <2>1. a <= a /\ desks[p].event # 0 /\ desks[p].next <= a
    BY <1>2, <1>3
  <2> QED BY <1>1, <1>2, <2>1 DEF NoticesTyped, ToldInv
<1>6. /\ heard' \in [1 .. MaxJournal -> [Admins -> Nat]]
      /\ \A f \in 1 .. MaxJournal, b \in Admins : heard'[f][b] = heard[f][b] \/ (f = e /\ b = a /\ heard'[f][b] = 1)
  <2>1. PICK told \in [Admins -> Nat] : told = [heard[e] EXCEPT ![a] = heard[e][a] + 1]
    <3>1. PICK old \in [Admins -> Nat] : old = heard[e]
      BY <1>3, <1>5
    <3>2. [old EXCEPT ![a] = old[a] + 1] \in [Admins -> Nat]
      OBVIOUS
    <3> QED BY <3>1, <3>2
  <2>2. told[a] = 1 /\ \A b \in Admins : b # a => told[b] = heard[e][b]
    BY <1>3, <1>5, <2>1
  <2>3. heard' = [heard EXCEPT ![e] = told] \/ heard' = heard
    BY <1>4, <2>1
  <2> HIDE DEF NoticesInv
  <2> QED BY <1>3, <1>5, <2>2, <2>3
<1>7. /\ desks' \in [1 .. 2 -> Clerk] /\ \A q \in 1 .. 2 : q # p => desks'[q] = desks[q]
      /\ desks'[p].page \subseteq 1 .. Len(journal) /\ desks'[p].next <= Administrators
      /\ (p > clerks => desks'[p].page = {} /\ desks'[p].event = 0)
      /\ \/ a = Administrators /\ desks'[p].event = 0
         \/ a # Administrators /\ desks'[p].event = e /\ desks'[p].next = a + 1
  <2>1. CASE a = Administrators
    <3>1. desks' = [desks EXCEPT ![p] = [IdleClerk EXCEPT !.page = desks[p].page]]
      BY <1>2, <2>1 DEF Tell, Freed
    <3> QED BY <2>1, <3>1, FreedDesk
  <2>2. CASE a # Administrators
    <3>1. desks' = [desks EXCEPT ![p].next = a + 1]
      BY <1>2, <2>2 DEF Tell
    <3>2. PICK d \in Clerk : d = desks[p]
      BY ClerkFields
    <3>3. a + 1 \in 1 .. Administrators + 1 /\ a + 1 <= Administrators
      BY <1>3, <2>2
    <3>4. PICK c : c = [d EXCEPT !.next = a + 1]
      OBVIOUS
    <3>5. c \in Clerk /\ c.page = d.page /\ c.event = d.event /\ c.next = a + 1
      BY <3>3, <3>4 DEF Clerk
    <3>6. desks' = [desks EXCEPT ![p] = c] /\ desks \in [1 .. 2 -> Clerk]
      BY <1>1, <3>1, <3>2, <3>4 DEF NoticesTyped, NoticesTypeOK
    <3>7. desks'[p] = c /\ desks' \in [1 .. 2 -> Clerk] /\ \A q \in 1 .. 2 : q # p => desks'[q] = desks[q]
      BY <3>5, <3>6
    <3>8. d.page \subseteq 1 .. Len(journal) /\ ~(p > clerks)
      <4>1. d.page \subseteq 1 .. Len(journal)
        BY <3>2, ClerkFields
      <4>2. ~(p > clerks)
        BY <1>2, <1>3 DEF NoticesInv, DesksKnown
      <4> QED BY <4>1, <4>2
    <3> QED BY <1>2, <2>2, <3>2, <3>3, <3>5, <3>7, <3>8
  <2> QED BY <2>1, <2>2
<1>8. Pending' = Pending
  BY <1>1, <1>4, JournalStays
<1>9. ASSUME NEW g \in unheard', NEW f \in 1 .. Len(journal), journal[f].type = "failed", g \in journal[f].of,
             f \in Pending \/ desks[p].event = f
      PROVE  f \in Pending' \/ desks'[p].event = f
  <2>1. CASE a = Administrators /\ f = e
    BY <1>4, <1>9, <2>1
  <2> QED BY <1>2, <1>7, <1>8, <1>9, <2>1
<1>10. DeskStep(p)
  <2>1. /\ reserved' = reserved /\ reserved \subseteq 1 .. Len(journal) /\ painted' \in [Halves -> Fates]
        /\ blank' \in BOOLEAN /\ kills' \in 0 .. MaxKills /\ unheard' \subseteq unheard
    BY <1>1, <1>4 DEF NoticesTyped, NoticesTypeOK
  <2>2. desks'[p].event # 0 => desks'[p].event \in reserved'
    BY <1>3, <1>7, <2>1
  <2> QED BY <1>4, <1>6, <1>7, <1>9, <2>1, <2>2 DEF DeskStep
<1>11. ToldInv'
  <2>1. \A f \in 1 .. MaxJournal, b \in Admins : heard'[f][b] <= 1 /\ (heard'[f][b] # 0 => f \in reserved')
    BY <1>1, <1>3, <1>4, <1>6 DEF ToldInv, ToldAtMostOnce
  <2>2. ASSUME NEW q \in 1 .. 2, NEW b \in Admins, desks'[q].event # 0, desks'[q].next <= b
        PROVE  heard'[desks'[q].event][b] = 0
    <3>1. CASE q = p
      <4>1. desks'[q].event = e /\ desks'[q].next = a + 1 /\ b \in Nat
        BY <1>7, <2>2, <3>1 DEF Admins
      <4>2. a <= b /\ a # b /\ desks[p].next <= b /\ desks[p].event # 0
        BY <1>2, <1>3, <2>2, <4>1
      <4>3. heard[e][b] = 0
        BY <1>1, <1>2, <4>2 DEF ToldInv
      <4> QED BY <1>3, <1>6, <4>1, <4>2, <4>3
    <3>2. CASE q # p
      <4>1. desks'[q] = desks[q] /\ desks[q].event # e
        <5>1. q \in {1, 2} /\ p \in {1, 2}
          OBVIOUS
        <5> QED BY <1>1, <1>2, <1>3, <1>7, <3>2, <5>1 DEF ToldInv
      <4>2. heard[desks[q].event][b] = 0
        BY <1>1, <2>2, <4>1 DEF ToldInv
      <4>3. desks[q].event \in 1 .. MaxJournal
        BY <2>2, <4>1, <1>1, ClerkFields, NoticeNumbers
      <4> QED BY <1>6, <4>1, <4>2, <4>3
    <3> QED BY <3>1, <3>2
  <2>3. desks'[1].event = desks'[2].event => desks'[1].event = 0
    <3>1. 1 \in 1 .. 2 /\ 2 \in 1 .. 2 /\ p \in {1, 2} /\ (desks'[p].event = 0 \/ desks'[p].event = desks[p].event)
      BY <1>2, <1>7
    <3> QED BY <1>1, <1>7, <3>1 DEF ToldInv
  <2> QED BY <2>1, <2>2, <2>3 DEF ToldInv, ToldAtMostOnce
<1>12. CardInv'
  <2>1. CASE clerks # 1
    BY <1>4, <2>1 DEF CardInv
  <2>2. CASE clerks = 1
    <3>1. Shown' = Shown
      BY <1>2, <1>3, <1>4, <1>7, <2>2, FreedIsShown
    <3>2. \A f \in Pending : f \in Pending' /\ journal'[f] = journal[f]
      BY <1>4, <1>8
    <3> QED BY <1>1, <1>4, <3>1, <3>2, CardFrame
  <2> QED BY <2>1, <2>2
<1> QED BY <1>10, <1>11, <1>12, ConsumerKeeps

LEMMA KillKeeps ==
  ASSUME NoticesInv, NEW p \in 1 .. 2, KillConsumer(p)
  PROVE  NoticesInv'
<1>1. NoticesTyped /\ ToldInv /\ CardInv
  BY DEF NoticesInv
<1>2. PICK e \in 1 .. Len(journal) : e = desks[p].event /\ e # 0
  BY ClerkFields DEF KillConsumer
<1>3. /\ kills < MaxKills /\ kills' = kills + 1 /\ desks' = [desks EXCEPT ![p] = IdleClerk]
      /\ unheard' = (IF journal[e].type = "failed" THEN unheard \ journal[e].of ELSE unheard)
      /\ blank' = (blank \/ journal[e].type = "card")
      /\ UNCHANGED <<about, theme, clerks, hour, plan, fate, reminders, reminded, journal, reserved, heard, painted,
                     promised, silent, acts>>
  BY <1>2 DEF KillConsumer
<1>4. /\ desks' \in [1 .. 2 -> Clerk] /\ \A q \in 1 .. 2 : q # p => desks'[q] = desks[q]
      /\ desks'[p].event = 0 /\ desks'[p].page \subseteq 1 .. Len(journal) /\ desks'[p].next <= Administrators
      /\ (p > clerks => desks'[p].page = {} /\ desks'[p].event = 0)
  <2>1. PICK none \in SUBSET desks[p].page : none = {}
    OBVIOUS
  <2> QED BY <1>3, <2>1, FreedDesk
<1>5. /\ reserved \subseteq 1 .. Len(journal) /\ heard' \in [1 .. MaxJournal -> [Admins -> Nat]]
      /\ painted' \in [Halves -> Fates] /\ blank' \in BOOLEAN /\ kills' \in 0 .. MaxKills
  <2>1. MaxKills \in Nat
    BY NoticesAssumption
  <2> QED BY <1>1, <1>3, <2>1 DEF NoticesTyped, NoticesTypeOK
<1>6. Pending' = Pending
  BY <1>1, <1>3, JournalStays
<1>7. ASSUME NEW g \in unheard', NEW f \in 1 .. Len(journal), journal[f].type = "failed", g \in journal[f].of,
             f \in Pending \/ desks[p].event = f
      PROVE  f \in Pending'
  BY <1>2, <1>3, <1>6, <1>7
<1>8. DeskStep(p)
  BY <1>3, <1>4, <1>5, <1>7 DEF DeskStep
<1>9. ToldInv'
  BY <1>1, <1>3, <1>4, FreedIsTold
<1>10. CardInv'
  <2>1. CASE clerks # 1 \/ journal[e].type = "card"
    BY <1>3, <2>1 DEF CardInv
  <2>2. CASE clerks = 1 /\ journal[e].type # "card"
    <3>1. Shown' = Shown
      BY <1>2, <1>3, <1>4, <2>2, FreedIsShown
    <3>2. \A f \in Pending : f \in Pending' /\ journal'[f] = journal[f]
      BY <1>3, <1>6
    <3> QED BY <1>1, <1>3, <3>1, <3>2, CardFrame
  <2> QED BY <2>1, <2>2
<1> QED BY <1>8, <1>9, <1>10, ConsumerKeeps

-----------------------------------------------------------------------------
LEMMA NoticesStutter == NoticesInv /\ UNCHANGED noticeVars => NoticesInv'
<1> SUFFICES ASSUME NoticesInv, UNCHANGED noticeVars PROVE NoticesInv'
  OBVIOUS
<1>1. NoticesTyped /\ DesksKnown /\ ToldInv /\ ReminderKept /\ FailureInv /\ CardInv
  BY DEF NoticesInv
<1>2. NoticesTyped'
  BY <1>1 DEF noticeVars, NoticesTyped, NoticesTypeOK, Event, Reminder, Clerk
<1>3. DesksKnown' /\ ToldInv' /\ ReminderKept'
  BY <1>1 DEF noticeVars, DesksKnown, ToldInv, ToldAtMostOnce, ReminderKept
<1>4. FailureInv'
  BY <1>1 DEF noticeVars, FailureInv, FailureIsTold, Pending, Fresh, InHand
<1>5. CardInv'
  BY <1>1 DEF noticeVars, CardInv, Shown, HoldsCard, Pending, Fresh
<1> QED BY <1>2, <1>3, <1>4, <1>5 DEF NoticesInv

LEMMA NoticesStep == NoticesInv /\ [NoticesNext]_noticeVars => NoticesInv'
<1> SUFFICES ASSUME NoticesInv, [NoticesNext]_noticeVars PROVE NoticesInv'
  OBVIOUS
<1>1. CASE Tick \/ PublishNow \/ CancelPublication
  BY <1>1, TickKeeps, PublishNowKeeps, CancelPublicationKeeps
<1>2. CASE \E a \in Admins : SwitchReminders(a) \/ \E p \in [Halves -> 0 .. Horizon] : Schedule(a, p)
  BY <1>2, SwitchKeeps, ScheduleKeeps
<1>3. CASE \E k \in ReminderKeys, written \in BOOLEAN : RunNotificationCycle(k, written)
  BY <1>3, CycleKeeps
<1>4. CASE \E h \in Halves : \/ ClaimHalf(h) \/ PublishHalf(h) \/ FailHalf(h) \/ DoubtHalf(h) \/ ConfirmHalf(h)
                             \/ GiveUpAsking(h) \/ RetryHalf(h)
  BY <1>4, HalfStepKeeps, GiveUpKeeps
<1>5. CASE \E p \in 1 .. 2 : \/ Poll(p) \/ ClaimEvent(p) \/ Tell(p) \/ KillConsumer(p)
                             \/ \E edited \in BOOLEAN : RefreshCard(p, edited)
  BY <1>5, PollKeeps, ClaimKeeps, TellKeeps, KillKeeps, RefreshKeeps
<1>6. CASE UNCHANGED noticeVars
  BY <1>6, NoticesStutter
<1> QED BY <1>1, <1>2, <1>3, <1>4, <1>5, <1>6 DEF NoticesNext

\* No event waiting to be read or in hand: then no card of it hides what is shown.
LEMMA CardIsPainted == NoticesInv => CardCatchesUp
<1> SUFFICES ASSUME NoticesInv, clerks = 1, ~blank,
                    \A e \in 1 .. Len(journal) : journal[e].type = "card" => ~(e \in Pending \/ InHand(e)),
                    NEW h \in Halves \ silent
             PROVE  painted[h] = fate[h]
  BY DEF CardCatchesUp
<1>1. 1 \in 1 .. 2
  OBVIOUS
<1>2. ~HoldsCard
  BY <1>1, ClerkFields DEF HoldsCard, InHand
<1>3. \A e \in Pending : journal[e].type # "card"
  BY DEF Pending
<1> QED BY <1>2, <1>3 DEF NoticesInv, CardInv, Shown

\* The consumer and the reminders keep what NoticesHold states: no administrator is told
\* of an event twice, a reminder asked for stays queued for its time or is journaled, a
\* failure that stands and was journaled is told or about to be, and with one process
\* the card catches up (event-consumer.ts, notifications/jobs.ts).
THEOREM NoticesAreKept == NoticesSpec => [](NoticesTypeOK /\ NoticesHold)
<1>1. NoticesInit => NoticesInv
  BY NoticesStart
<1>2. NoticesInv /\ [NoticesNext]_noticeVars => NoticesInv'
  BY NoticesStep
<1>3. NoticesInv => NoticesTypeOK /\ NoticesHold
  BY CardIsPainted DEF NoticesInv, NoticesTyped, ToldInv, FailureInv, NoticesHold
<1> QED BY <1>1, <1>2, <1>3, PTL DEF NoticesSpec
===============================================================================

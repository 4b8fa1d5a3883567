------------------------------- MODULE Access -------------------------------
(***************************************************************************)
(* Signing in, the sessions that come of it, and the recovery of a         *)
(* password by mail.  A sign-in reads the account, checks the password     *)
(* outside any transaction and only then locks the account; a reset locks  *)
(* it too.  What a transaction does under that lock is one step here.      *)
(*                                                                         *)
(* A password is the number of the reset that set it, and its hash is      *)
(* unlike every other, as a salted hash is.  The counters of attempts, the *)
(* shape of tokens and cookies and the CSRF token itself are left out.     *)
(***************************************************************************)
EXTENDS Outbox

CONSTANTS
  Account,   \* rows of users; none is disabled: nothing sets disabled_at
  Session,   \* sign-ins, and the auth_sessions they open
  Reset      \* password_reset_tokens, and the identity_outbox_jobs that mail them

VARIABLES
  secrets,   \* of each account: its password and its hash
  sessions,
  resets,
  letters,   \* identity_outbox_jobs
  batches,   \* the claims of letters each worker has in memory
  delivered  \* tokens that have reached their mailbox

accessVars == <<secrets, sessions, resets, letters, batches, delivered>>

Secret == [password: Nat, hash: Nat, current: BOOLEAN]  \* current: needs no rehash

SignIn ==
  [account: Account, password: Nat, hash: Nat, fresh: BOOLEAN,
   status: {"CHECKED", "REFUSED", "LIVE", "EXPIRED", "REVOKED"}]

ResetToken == [account: Account, status: {"ISSUED", "USED", "LAPSED"}]

LetterClaim == [letter: Reset, lease: Nat, outcome: {"WAITING", "SENT", "FAILED"}]

AccessTypeOK ==
  /\ secrets \in [Account -> Secret]
  /\ DOMAIN sessions \subseteq Session /\ \A s \in DOMAIN sessions : sessions[s] \in SignIn
  /\ DOMAIN resets \subseteq Reset /\ \A r \in DOMAIN resets : resets[r] \in ResetToken
  /\ DOMAIN letters = DOMAIN resets /\ \A r \in DOMAIN letters : letters[r] \in Job
  /\ batches \in [Worker -> SUBSET LetterClaim]
  /\ delivered \subseteq DOMAIN resets

AccessInit ==
  /\ secrets \in [Account -> [password: {0}, hash: {0}, current: BOOLEAN]]
  /\ sessions = << >> /\ resets = << >> /\ letters = << >>
  /\ batches = [w \in Worker |-> {}] /\ delivered = {}

Adding(f, k, v) == [x \in DOMAIN f \cup {k} |-> IF x = k THEN v ELSE f[x]]

-----------------------------------------------------------------------------
(* The account is read and the password it has now matches.                *)
CheckPassword(s, a) ==
  /\ s \notin DOMAIN sessions
  /\ sessions' = Adding(sessions, s,
       [account |-> a, password |-> secrets[a].password, hash |-> secrets[a].hash,
        fresh |-> TRUE, status |-> "CHECKED"])
  /\ UNCHANGED <<secrets, resets, letters, batches, delivered>>

Unchanged(s) == secrets[sessions[s].account].hash = sessions[s].hash

Opened(s) ==
  LET a == sessions[s].account
      old == secrets[a] IN
  /\ sessions[s].status = "CHECKED"
  /\ sessions' = [sessions EXCEPT ![s].status = "LIVE"]
  /\ secrets' = [secrets EXCEPT ![a] =
       IF old.current THEN old ELSE [old EXCEPT !.hash = old.hash + 1, !.current = TRUE]]
  /\ UNCHANGED <<resets, letters, batches, delivered>>

(* Mutated form: the hash is not read again under the lock.                *)
OpenCheckedSession(s) == Opened(s)

OpenSession(s) == Unchanged(s) /\ Opened(s)

(* Another sign-in has rehashed the password, or a reset has changed it.   *)
RefuseSession(s) ==
  /\ sessions[s].status = "CHECKED" /\ ~Unchanged(s)
  /\ sessions' = [sessions EXCEPT ![s].status = "REFUSED"]
  /\ UNCHANGED <<secrets, resets, letters, batches, delivered>>

(* Every request of the session puts its idle time-out off.                *)
Refresh(s) ==
  /\ sessions[s].status = "LIVE" /\ ~sessions[s].fresh
  /\ sessions' = [sessions EXCEPT ![s].fresh = TRUE]
  /\ UNCHANGED <<secrets, resets, letters, batches, delivered>>

Authenticate(s) == Refresh(s)
VerifyCsrf(s) == Refresh(s)
IssueCsrf(s) == Refresh(s)

(* Twelve idle hours pass in two halves; seven days at once.               *)
TimePasses(s) ==
  /\ sessions[s].status = "LIVE"
  /\ \/ sessions[s].fresh /\ sessions' = [sessions EXCEPT ![s].fresh = FALSE]
     \/ sessions' = [sessions EXCEPT ![s].status = "EXPIRED"]
  /\ UNCHANGED <<secrets, resets, letters, batches, delivered>>

RevokeToken(s) ==
  /\ sessions[s].status = "LIVE"
  /\ sessions' = [sessions EXCEPT ![s].status = "REVOKED"]
  /\ UNCHANGED <<secrets, resets, letters, batches, delivered>>

-----------------------------------------------------------------------------
(* Recovery.                                                               *)
RequestReset(r, a) ==
  /\ r \notin DOMAIN resets
  /\ resets' = Adding(resets, r, [account |-> a, status |-> "ISSUED"])
  /\ letters' = Adding(letters, r, Queued)
  /\ UNCHANGED <<secrets, sessions, batches, delivered>>

ResetLapses(r) ==
  /\ resets[r].status = "ISSUED"
  /\ resets' = [resets EXCEPT ![r].status = "LAPSED"]
  /\ UNCHANGED <<secrets, sessions, letters, batches, delivered>>

ConsumeReset(r) ==
  LET a == resets[r].account
      old == secrets[a] IN
  /\ r \in delivered /\ resets[r].status = "ISSUED"
  /\ resets' = [resets EXCEPT ![r].status = "USED"]
  /\ secrets' = [secrets EXCEPT ![a] =
       [password |-> old.password + 1, hash |-> old.hash + 1, current |-> TRUE]]
  /\ sessions' = [s \in DOMAIN sessions |->
       IF sessions[s].account = a /\ sessions[s].status = "LIVE"
       THEN [sessions[s] EXCEPT !.status = "REVOKED"] ELSE sessions[s]]
  /\ UNCHANGED <<letters, batches, delivered>>

-----------------------------------------------------------------------------
(* The mail.  A worker claims every letter that waits or has lost its      *)
(* worker, and sends one after another under the leases of that claim.     *)
(* Mutated form: only the letters that wait.                               *)
WaitingLetters == {r \in DOMAIN letters : letters[r].status = "PENDING"}

ClaimableLetters ==
  {r \in DOMAIN letters :
     \/ letters[r].status = "PENDING"
     \/ letters[r].status = "PROCESSING" /\ letters[r].expired}

ClaimLetters(w) ==
  /\ batches[w] = {} /\ ClaimableLetters # {}
  /\ letters' = [r \in DOMAIN letters |->
       IF r \in ClaimableLetters
       THEN [status |-> "PROCESSING", attempts |-> letters[r].attempts + 1,
             lease |-> letters[r].attempts + 1, expired |-> FALSE]
       ELSE letters[r]]
  /\ batches' = [batches EXCEPT ![w] =
       {[letter |-> r, lease |-> letters'[r].lease, outcome |-> "WAITING"] :
          r \in ClaimableLetters}]
  /\ UNCHANGED <<secrets, sessions, resets, delivered>>

(* A send that fails may still have delivered.                             *)
SendLetter(w, c) ==
  /\ c \in batches[w] /\ \A other \in batches[w] : other.outcome = "WAITING"
  /\ \E outcome \in {"SENT", "FAILED"}, reached \in BOOLEAN :
       /\ outcome = "SENT" => reached
       /\ batches' = [batches EXCEPT ![w] = (@ \ {c}) \cup {[c EXCEPT !.outcome = outcome]}]
       /\ delivered' = IF reached THEN delivered \cup {c.letter} ELSE delivered
  /\ UNCHANGED <<secrets, sessions, resets, letters>>

LeaseHolds(c) ==
  /\ letters[c.letter].status = "PROCESSING" /\ letters[c.letter].lease = c.lease
  /\ ~letters[c.letter].expired

Finished(c, old) ==
  [old EXCEPT !.lease = 0,
     !.status = IF c.outcome = "SENT" THEN "COMPLETED"
                ELSE IF old.attempts >= MaxAttempts THEN "DEAD_LETTER" ELSE "PENDING"]

(* Mutated form: whoever has sent the letter finishes it.                  *)
FinishAnyLetter(w, c) ==
  /\ c \in batches[w] /\ c.outcome # "WAITING"
  /\ letters' = [letters EXCEPT ![c.letter] = Finished(c, letters[c.letter])]
  /\ batches' = [batches EXCEPT ![w] = @ \ {c}]
  /\ UNCHANGED <<secrets, sessions, resets, delivered>>

(* A lease that no longer holds ends the process, and with it the batch.   *)
FinishLetter(w, c) ==
  /\ c \in batches[w] /\ c.outcome # "WAITING"
  /\ IF LeaseHolds(c)
     THEN /\ letters' = [letters EXCEPT ![c.letter] = Finished(c, letters[c.letter])]
          /\ batches' = [batches EXCEPT ![w] = @ \ {c}]
     ELSE letters' = letters /\ batches' = [batches EXCEPT ![w] = {}]
  /\ UNCHANGED <<secrets, sessions, resets, delivered>>

LetterLeaseExpires(r) ==
  /\ letters[r].status = "PROCESSING" /\ ~letters[r].expired
  /\ letters' = [letters EXCEPT ![r].expired = TRUE]
  /\ UNCHANGED <<secrets, sessions, resets, batches, delivered>>

LetterProgress(w) ==
  \/ ClaimLetters(w)
  \/ \E c \in batches[w] : SendLetter(w, c) \/ FinishLetter(w, c)

AccessRequests ==
  \/ \E s \in Session, a \in Account : CheckPassword(s, a)
  \/ \E s \in DOMAIN sessions :
       \/ OpenSession(s) \/ RefuseSession(s) \/ RevokeToken(s) \/ TimePasses(s)
       \/ Authenticate(s) \/ VerifyCsrf(s) \/ IssueCsrf(s)
  \/ \E r \in Reset, a \in Account : RequestReset(r, a)
  \/ \E r \in DOMAIN resets : ConsumeReset(r) \/ ResetLapses(r)

-----------------------------------------------------------------------------
(* A session that can be used was opened with the password the account has *)
(* now, however sign-ins and resets overlap ("Cambio de contraseña, reset  *)
(* ... invalidan sesiones aplicables", plan.md).                           *)
NoSessionOutlivesReset ==
  \A s \in DOMAIN sessions :
    sessions[s].status = "LIVE" => sessions[s].password = secrets[sessions[s].account].password
=============================================================================

---------------------------- MODULE Registration -----------------------------
(***************************************************************************)
(* How accounts come to be and get their invitation codes: registration by *)
(* mail (auth.service.js), Google's callback (googleOAuth.service.js,      *)
(* oauthState.service.js) and the script that gives codes to accounts from *)
(* before there were any (referralBackfill.service.js).                    *)
(*                                                                         *)
(* Each looks first and inserts later; unique indexes decide.  Codes are   *)
(* drawn at random, so any code may be drawn, one in use too.  An account  *)
(* is named by the request that created it.                                *)
(***************************************************************************)
EXTENDS Documents, Integers

CONSTANTS
    Legacy,         \* accounts without a code
    Emails,
    GoogleIds,
    States,         \* OAuth states that were handed out
    Codes,
    MaxRetries      \* MAX_REFERRAL_CODE_RETRIES

ASSUME MaxRetriesAssumption == MaxRetries \in Nat \ {0}
ASSUME AccountNamesAssumption == Legacy \cap (Clients \cup Reviews) = {} /\ None \notin Legacy
ASSUME AddressesAssumption == None \notin Emails \cup GoogleIds \cup Codes

VARIABLES
    account,        \* the User documents
    usedNonce,      \* the OAuthStateNonce documents
    signup,         \* requests in progress
    backfill        \* runs of the script, each at one account

registrationVars == <<account, usedNonce, signup, backfill>>

-----------------------------------------------------------------------------

Accounts == Clients \cup Legacy

NoAccount == [email |-> None, google |-> None, code |-> None, owner |-> None, active |-> FALSE]

Exists(a) == account[a].email # None

RegistrationInit ==
    /\ \E email \in [Legacy -> Emails] :
          /\ \A a, b \in Legacy : email[a] = email[b] => a = b
          /\ account = [a \in Accounts |->
                IF a \in Legacy THEN [NoAccount EXCEPT !.email = email[a], !.active = TRUE]
                ELSE NoAccount]
    /\ usedNonce = {}
    /\ signup = [t \in Clients |->
                    [pc |-> "new", email |-> None, google |-> None, ref |-> None,
                     owner |-> None, attempt |-> 0, state |-> None, account |-> None]]
    /\ backfill = [r \in Reviews |-> [pc |-> "new", account |-> None, attempt |-> 0]]

SignupGoes(t, pc) == signup' = [signup EXCEPT ![t].pc = pc]

SignupEnds(t, a) ==
    signup' = [signup EXCEPT ![t] = [@ EXCEPT !.pc = "done", !.account = a, !.owner = None,
                                              !.attempt = 0]]

-----------------------------------------------------------------------------
(* Requests.                                                               *)

register(t, email, ref) ==
    /\ signup[t].pc = "new"
    /\ signup' = [signup EXCEPT ![t] =
          [@ EXCEPT !.email = email, !.ref = ref,
                    !.pc = IF \E a \in Accounts : account[a].email = email THEN "done"
                           ELSE "owner"]]
    /\ UNCHANGED <<account, usedNonce, backfill>>

\* Mutant: the nonce of a state is not unique.
NonceIsFree(state) == TRUE

NonceIsNew(state) == state \notin usedNonce

\* The callback's state may be used once: its nonce is inserted under a unique index.
consumeGoogleOAuthState(t, state, google, email, ref) ==
    /\ signup[t].pc = "new"
    /\ signup' = [signup EXCEPT ![t] =
          IF NonceIsNew(state)
          THEN [@ EXCEPT !.pc = "google", !.google = google, !.email = email, !.ref = ref,
                         !.state = state]
          ELSE [@ EXCEPT !.pc = "done"]]
    /\ usedNonce' = usedNonce \cup {state}
    /\ UNCHANGED <<account, backfill>>

\* resolveGoogleUser: the account under the Google id, or the one under its address,
\* to which the id is added, or a new one.
FindByGoogleId(t) ==
    /\ signup[t].pc = "google"
    /\ \/ \E a \in Accounts : account[a].google = signup[t].google /\ SignupEnds(t, a)
       \/ /\ \A a \in Accounts : account[a].google # signup[t].google
          /\ SignupGoes(t, "email")
    /\ UNCHANGED <<account, usedNonce, backfill>>

FindByEmail(t) ==
    /\ signup[t].pc = "email"
    /\ \/ \E a \in Accounts :
             /\ account[a].email = signup[t].email
             /\ signup' = [signup EXCEPT ![t].pc = "link", ![t].account = a]
       \/ /\ \A a \in Accounts : account[a].email # signup[t].email
          /\ SignupGoes(t, "owner")
    /\ UNCHANGED <<account, usedNonce, backfill>>

linkGoogleId(t) ==
    LET a == signup[t].account IN
    /\ signup[t].pc = "link"
    /\ IF \A b \in Accounts \ {a} : account[b].google # signup[t].google
       THEN account' = [account EXCEPT ![a].google = signup[t].google] /\ SignupEnds(t, a)
       ELSE SignupEnds(t, None) /\ UNCHANGED account
    /\ UNCHANGED <<usedNonce, backfill>>

\* resolveReferralOwnerForNewUser: the active owner of the code, who is somebody else.
resolveReferralOwner(t) ==
    /\ signup[t].pc = "owner"
    /\ \/ signup[t].ref = None /\ SignupGoes(t, "create")
       \/ \E a \in Accounts :
             /\ signup[t].ref # None /\ account[a].code = signup[t].ref
             /\ account[a].active /\ account[a].email # signup[t].email
             /\ signup' = [signup EXCEPT ![t].pc = "create", ![t].owner = a]
       \/ /\ signup[t].ref # None
          /\ \A a \in Accounts : account[a].code = signup[t].ref =>
                ~account[a].active \/ account[a].email = signup[t].email
          /\ SignupEnds(t, None)
    /\ UNCHANGED <<account, usedNonce, backfill>>

isDuplicateReferralCode(code) == \E a \in Accounts : account[a].code = code

EmailOrGoogleIdIsTaken(t) ==
    \E a \in Accounts :
        \/ account[a].email = signup[t].email
        \/ account[a].google = signup[t].google /\ signup[t].google # None

\* One attempt of createUserWithReferralCodeRetry.  Of two violated indexes either may
\* be the one reported; only one of the code is tried again.
createUser(t, code) ==
    /\ signup[t].pc = "create"
    /\ \/ EmailOrGoogleIdIsTaken(t) /\ SignupEnds(t, None) /\ UNCHANGED account
       \/ /\ isDuplicateReferralCode(code)
          /\ IF signup[t].attempt + 1 < MaxRetries
             THEN signup' = [signup EXCEPT ![t].attempt = @ + 1]
             ELSE SignupEnds(t, None)
          /\ UNCHANGED account
       \/ /\ ~EmailOrGoogleIdIsTaken(t) /\ ~isDuplicateReferralCode(code)
          /\ account' = [account EXCEPT ![t] =
                [email |-> signup[t].email, google |-> signup[t].google, code |-> code,
                 owner |-> signup[t].owner, active |-> TRUE]]
          /\ SignupEnds(t, t)
    /\ UNCHANGED <<usedNonce, backfill>>

\* An administrator deactivates or deletes an account, or lets it in again.
StatusChanges(a) ==
    /\ Exists(a)
    /\ account' = [account EXCEPT ![a].active = ~@]
    /\ UNCHANGED <<usedNonce, signup, backfill>>

-----------------------------------------------------------------------------
(* The script.                                                             *)

\* The cursor reaches an account that had no code when the script looked.
backfillReferralCodes(r, a) ==
    /\ backfill[r].pc = "new" /\ Exists(a) /\ account[a].code = None
    /\ backfill' = [backfill EXCEPT ![r] = [@ EXCEPT !.pc = "assign", !.account = a]]
    /\ UNCHANGED <<account, usedNonce, signup>>

\* Mutant: the update filters by id only.
AnyCodeFilter(a) == TRUE

missingReferralCodeFilter(a) == account[a].code = None

assignReferralCodeIfMissing(r, code) ==
    LET a == backfill[r].account IN
    /\ backfill[r].pc = "assign"
    /\ IF missingReferralCodeFilter(a) /\ isDuplicateReferralCode(code)
       THEN /\ backfill' = [backfill EXCEPT ![r] =
                  IF @.attempt + 1 < MaxRetries THEN [@ EXCEPT !.attempt = backfill[r].attempt + 1]
                  ELSE [@ EXCEPT !.pc = "done", !.attempt = 0]]
            /\ UNCHANGED account
       ELSE /\ backfill' = [backfill EXCEPT ![r] = [@ EXCEPT !.pc = "done", !.attempt = 0]]
            /\ account' = IF missingReferralCodeFilter(a)
                          THEN [account EXCEPT ![a].code = code] ELSE account
    /\ UNCHANGED <<usedNonce, signup>>

-----------------------------------------------------------------------------

RegistrationNext ==
    \/ \E t \in Clients :
          \/ \E email \in Emails, ref \in Codes \cup {None} :
                \/ register(t, email, ref)
                \/ \E state \in States, google \in GoogleIds :
                      consumeGoogleOAuthState(t, state, google, email, ref)
          \/ FindByGoogleId(t) \/ FindByEmail(t) \/ linkGoogleId(t)
          \/ resolveReferralOwner(t)
          \/ \E code \in Codes : createUser(t, code)
    \/ \E a \in Accounts : StatusChanges(a)
    \/ \E r \in Reviews :
          \/ \E a \in Accounts : backfillReferralCodes(r, a)
          \/ \E code \in Codes : assignReferralCodeIfMissing(r, code)

RegistrationSpec == RegistrationInit /\ [][RegistrationNext]_registrationVars

-----------------------------------------------------------------------------
(* Properties.                                                             *)

\* The type invariant: documents fit user.model.js, and only accounts own codes.
RegistrationTypeOK ==
    /\ account \in [Accounts -> [email : Emails \cup {None}, google : GoogleIds \cup {None},
                                 code : Codes \cup {None}, owner : Accounts \cup {None},
                                 active : BOOLEAN]]
    /\ \A a \in Accounts : ~Exists(a) => account[a] = NoAccount
    /\ usedNonce \subseteq States

\* An address, a Google id, an invitation code and an OAuth state each lead to one
\* account or sign-in, however the requests that use them at once interleave.
EachOnce ==
    /\ \A a, b \in Accounts : Exists(a) /\ Exists(b) /\ a # b =>
          /\ account[a].email # account[b].email
          /\ account[a].google # account[b].google \/ account[a].google = None
          /\ account[a].code # account[b].code \/ account[a].code = None
    /\ \A t, u \in Clients :
          t # u /\ signup[t].state # None => signup[t].state # signup[u].state

\* Who invited an account and the code it invites with are for good: two runs of the
\* script, or the script and a retry, never give one account two codes, and nobody is
\* his own referrer.
CodesAreForGood ==
    [][\A a \in Accounts : Exists(a) =>
          /\ account[a].code # None => account'[a].code = account[a].code
          /\ account'[a].owner = account[a].owner /\ account[a].owner # a]_registrationVars
=============================================================================

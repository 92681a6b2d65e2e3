------------------------------ MODULE Accounts -------------------------------
(***************************************************************************)
(* One customer's User document, his requests to become a sub-agent        *)
(* (subAgentRequest.service.js) and everything else that writes the        *)
(* document: administration, profile, sign-in (user, admin.users, group    *)
(* and auth services; the wallet's fields are in Wallet).                  *)
(*                                                                         *)
(* A sub-agent request is created, approved or rejected in a transaction   *)
(* that fails and runs again when another writes its documents first.      *)
(* Every other operation loads the document, changes its copy and saves    *)
(* what it changed, whatever the document has become meanwhile.            *)
(***************************************************************************)
EXTENDS Documents, Integers, FiniteSets

CONSTANTS
    Editors,        \* requests that load and save the document
    Groups,
    Unread          \* stands for a field a query did not select

VARIABLES
    user,           \* the User document
    group,          \* the Group documents
    agentRequest,   \* the SubAgentRequest documents, named by their requests
    review,         \* the administrators' reviews of them
    editor          \* what Editors have loaded and will save

accountVars == <<user, group, agentRequest, review, editor>>

-----------------------------------------------------------------------------

Tokens == {None, "live", "expired"}     \* of a link or a code sent by mail

UserDoc ==
    [status : {"PENDING", "ACTIVE", "REJECTED"}, deleted : BOOLEAN, verified : BOOLEAN,
     link : Tokens,                         \* emailVerificationToken and its expiry
     role : {"CUSTOMER", "SUPERVISOR"},
     group : Groups,
     reseller : {"NONE", "APPROVED"},
     stopped : BOOLEAN,                     \* referralCommissionStoppedAt
     slot : BOOLEAN,                        \* subAgentRequestPending
     twoFactor : BOOLEAN, otp : Tokens,
     google : BOOLEAN, completed : BOOLEAN, \* googleId and profileCompletedAt are set
     completion : Tokens,                   \* profileCompletionToken and its expiry
     country : BOOLEAN,
     profile : {"old", "new"}]              \* name, avatar, password, permissions...

\* A verified account with a password; the others differ in what they say here.
Established(g) ==
    [status |-> "ACTIVE", deleted |-> FALSE, verified |-> TRUE, link |-> None,
     role |-> "CUSTOMER", group |-> g, reseller |-> "NONE", stopped |-> FALSE, slot |-> FALSE,
     twoFactor |-> FALSE, otp |-> None, google |-> FALSE, completed |-> TRUE,
     completion |-> None, country |-> TRUE, profile |-> "old"]

AccountInit ==
    /\ \E g \in Groups :
          user \in {[Established(g) EXCEPT !.verified = FALSE, !.link = "live"],
                    [Established(g) EXCEPT !.twoFactor = TRUE],
                    [Established(g) EXCEPT !.status = "REJECTED", !.deleted = TRUE],
                    [Established(g) EXCEPT !.google = TRUE, !.completed = FALSE,
                                           !.country = FALSE]}
    /\ group = [g \in Groups |-> [active |-> TRUE, deleted |-> FALSE]]
    /\ agentRequest = [t \in Clients |-> "absent"]
    /\ review = [r \in Reviews |-> [pc |-> "new", request |-> None, group |-> None,
                                    seen |-> None]]
    /\ editor = [e \in Editors |-> [pc |-> "new", copy |-> None, edited |-> None]]

-----------------------------------------------------------------------------
(* Sub-agent requests.                                                     *)

\* Mutant: a reseller may ask, and be approved, again.
CanBecomeResellerAgain(doc) == ~doc.deleted /\ doc.status = "ACTIVE"

\* assertCustomerCanRequest, and what an approval asks of the user.
CanBecomeReseller(doc) ==
    ~doc.deleted /\ doc.status = "ACTIVE" /\ doc.reseller # "APPROVED"

claimPendingRequestSlot ==
    /\ CanBecomeReseller(user) /\ ~user.slot
    /\ user' = [user EXCEPT !.slot = TRUE]

\* All that the transaction reads it writes, or the unique index on pending requests
\* guards, so it is one step.
createSubAgentRequest(t) ==
    /\ agentRequest[t] = "absent"
    /\ \A other \in Clients : agentRequest[other] # "PENDING"
    /\ claimPendingRequestSlot
    /\ agentRequest' = [agentRequest EXCEPT ![t] = "PENDING"]
    /\ UNCHANGED <<group, review, editor>>

BeginApproval(r, t, g) ==
    /\ review[r].pc = "new" /\ agentRequest[t] # "absent"
    /\ group[g].active /\ ~group[g].deleted
    /\ review' = [review EXCEPT ![r] = [pc |-> "open", request |-> t, group |-> g,
                                        seen |-> user]]
    /\ UNCHANGED <<user, group, agentRequest, editor>>

\* The transaction begins again, or is refused because of what the group has become.
RetryApproval(r) ==
    /\ review[r].pc = "open" /\ user # review[r].seen
    /\ LET g == group[review[r].group] IN
       review' = [review EXCEPT ![r] =
          IF g.active /\ ~g.deleted THEN [@ EXCEPT !.seen = user]
          ELSE [@ EXCEPT !.pc = "done", !.seen = None]]
    /\ UNCHANGED <<user, group, agentRequest, editor>>

ReviewDone(r) == review' = [review EXCEPT ![r].pc = "done", ![r].seen = None]

\* Mutant: the approval leaves the slot taken.
ApprovedInSlot(doc, g) ==
    [doc EXCEPT !.group = g, !.reseller = "APPROVED", !.stopped = TRUE]

Approved(doc, g) ==
    [doc EXCEPT !.group = g, !.reseller = "APPROVED", !.stopped = TRUE, !.slot = FALSE]

\* The group is read only: it may be another by the commit.
approveSubAgentRequest(r) ==
    LET t == review[r].request IN
    /\ review[r].pc = "open" /\ user = review[r].seen
    /\ IF agentRequest[t] = "PENDING" /\ CanBecomeReseller(user)
       THEN /\ agentRequest' = [agentRequest EXCEPT ![t] = "APPROVED"]
            /\ user' = Approved(user, review[r].group)
       ELSE UNCHANGED <<user, agentRequest>>
    /\ ReviewDone(r)
    /\ UNCHANGED <<group, editor>>

\* A filtered update of the request and one of the user, whoever he is by then.
rejectSubAgentRequest(r, t) ==
    /\ review[r].pc = "new" /\ agentRequest[t] = "PENDING"
    /\ agentRequest' = [agentRequest EXCEPT ![t] = "REJECTED"]
    /\ user' = [user EXCEPT !.slot = FALSE]
    /\ ReviewDone(r)
    /\ UNCHANGED <<group, editor>>

-----------------------------------------------------------------------------
(* Loading and saving.                                                     *)

\* Fields the schema leaves out of a query that does not select them.  A field that
\* was not read counts as changed when it is assigned.
NotSelected == {"slot", "link", "otp", "completion"}

Read(unread) == [f \in DOMAIN user |-> IF f \in unread THEN Unread ELSE user[f]]

Edit(e, copy, edits) ==
    /\ editor[e].pc = "new"
    /\ \E edited \in edits :
          editor' = [editor EXCEPT ![e] = [pc |-> "save", copy |-> copy, edited |-> edited]]
    /\ UNCHANGED <<user, group, agentRequest, review>>

save(e) ==
    /\ editor[e].pc = "save"
    /\ user' = Saved(user, editor[e].copy, editor[e].edited)
    /\ editor' = [editor EXCEPT ![e] = [pc |-> "done", copy |-> None, edited |-> None]]
    /\ UNCHANGED <<group, agentRequest, review>>

Usual == Read(NotSelected)

\* An update by id with $set writes its fields without having read them.
approveUser(e) ==
    LET copy == Read(NotSelected \cup {"status", "verified"}) IN
    /\ user.status # "ACTIVE"
    /\ Edit(e, copy, {[copy EXCEPT !.status = "ACTIVE", !.verified = TRUE, !.link = None]})

rejectUser(e) ==
    user.status # "REJECTED" /\ Edit(e, Usual, {[Usual EXCEPT !.status = "REJECTED"]})

\* admin.users.service: any status, verified or not, any group id; the profile.
updateUser(e) ==
    Edit(e, Usual,
         {[Usual EXCEPT !.status = s, !.verified = (s = "ACTIVE" \/ @),
                        !.link = IF s = "ACTIVE" THEN None ELSE @] :
             s \in {"PENDING", "ACTIVE", "REJECTED"}}
         \cup {[Usual EXCEPT !.verified = v] : v \in BOOLEAN}
         \cup {[Usual EXCEPT !.group = g, !.profile = "new"] : g \in Groups})

deleteUser(e) ==
    ~user.deleted /\ Edit(e, Usual, {[Usual EXCEPT !.deleted = TRUE, !.status = "REJECTED"]})

restoreUser(e) ==
    user.deleted /\ Edit(e, Usual, {[Usual EXCEPT !.deleted = FALSE, !.status = "ACTIVE"]})

updateUserRole(e) == Edit(e, Usual, {[Usual EXCEPT !.role = r] : r \in {"CUSTOMER", "SUPERVISOR"}})

\* Permissions, avatar or password.
updateUserProfile(e) == Edit(e, Usual, {[Usual EXCEPT !.profile = "new"]})

changeUserGroup(e) ==
    Edit(e, Usual, {[Usual EXCEPT !.group = g] : g \in {x \in Groups : group[x].active}})

profileCompletionRequired == user.google /\ ~user.completed /\ ~user.country

\* The customer's own changes; a Google account completes its profile with them.
updateMyProfile(e) ==
    Edit(e, Usual, {[Usual EXCEPT !.profile = "new", !.country = (c \/ @),
                                  !.completed = (@ \/ (c /\ profileCompletionRequired))] :
                       c \in BOOLEAN})

-----------------------------------------------------------------------------
(* Signing in.                                                             *)

verifyEmail(e) ==
    LET copy == Read(NotSelected \ {"link"}) IN
    /\ user.link = "live"
    /\ Edit(e, copy, {[copy EXCEPT !.verified = TRUE, !.link = None]})

resendVerification(e) ==
    LET copy == Read(NotSelected \ {"link"}) IN
    ~user.verified /\ Edit(e, copy, {[copy EXCEPT !.link = "live"]})

\* A Google account has one once it was set with the profile.
hasPassword == user.google => user.profile = "new"

\* A sign-in with two-factor authentication sends a code.
login(e) ==
    /\ user.verified /\ user.status = "ACTIVE" /\ hasPassword /\ user.twoFactor
    /\ Edit(e, Usual, {[Usual EXCEPT !.otp = "live"]})

generate2FASecret(e) == ~user.twoFactor /\ Edit(e, Usual, {[Usual EXCEPT !.otp = "live"]})

\* A code that is missing or expired is cleared, one that is right is used up.
ConsumeCode(e, enabled) ==
    LET copy == Read(NotSelected \ {"otp"}) IN
    Edit(e, copy, {[copy EXCEPT !.otp = None,
                                !.twoFactor = IF user.otp = "live" THEN enabled ELSE @]})

enable2FA(e) == ~user.twoFactor /\ ConsumeCode(e, TRUE)

verify2FA(e) == user.twoFactor /\ user.status = "ACTIVE" /\ ConsumeCode(e, TRUE)

disable2FA(e) ==
    user.twoFactor /\ hasPassword
    /\ Edit(e, Usual, {[Usual EXCEPT !.twoFactor = FALSE, !.otp = None]})

\* loginWithGoogle, when country and currency are still to be collected.
issueGoogleProfileCompletionToken(e) ==
    /\ user.status = "ACTIVE" /\ profileCompletionRequired
    /\ Edit(e, Usual, {[Usual EXCEPT !.completion = "live"]})

completeGoogleProfile(e) ==
    LET copy == Read(NotSelected \ {"completion"})
        cleared == [copy EXCEPT !.completion = None]
    IN
    \/ user.completion = "expired" /\ Edit(e, copy, {cleared})
    \/ /\ user.completion = "live" /\ user.google /\ user.status = "ACTIVE"
       /\ group[user.group].active
       /\ Edit(e, copy, {[cleared EXCEPT !.country = TRUE, !.completed = TRUE]})

\* Links and codes expire.
TokensExpire ==
    /\ \E f \in {"link", "otp", "completion"} :
          user[f] = "live" /\ user' = [user EXCEPT ![f] = "expired"]
    /\ UNCHANGED <<group, agentRequest, review, editor>>

-----------------------------------------------------------------------------
(* Groups.                                                                 *)

updateGroup(g, active) ==
    /\ group' = [group EXCEPT ![g].active = active]
    /\ UNCHANGED <<user, agentRequest, review, editor>>

deleteGroup(g) ==
    /\ ~group[g].deleted
    /\ group' = [group EXCEPT ![g] = [active |-> FALSE, deleted |-> TRUE]]
    /\ UNCHANGED <<user, agentRequest, review, editor>>

-----------------------------------------------------------------------------

AccountNext ==
    \/ \E t \in Clients : createSubAgentRequest(t)
    \/ \E r \in Reviews :
          \/ \E t \in Clients, g \in Groups : BeginApproval(r, t, g)
          \/ RetryApproval(r)
          \/ approveSubAgentRequest(r)
          \/ \E t \in Clients : rejectSubAgentRequest(r, t)
    \/ \E e \in Editors :
          \/ approveUser(e) \/ rejectUser(e) \/ updateUser(e)
          \/ deleteUser(e) \/ restoreUser(e) \/ updateUserRole(e)
          \/ updateUserProfile(e) \/ changeUserGroup(e) \/ updateMyProfile(e)
          \/ verifyEmail(e) \/ resendVerification(e) \/ login(e)
          \/ generate2FASecret(e) \/ enable2FA(e) \/ verify2FA(e) \/ disable2FA(e)
          \/ issueGoogleProfileCompletionToken(e) \/ completeGoogleProfile(e)
          \/ save(e)
    \/ TokensExpire
    \/ \E g \in Groups : deleteGroup(g) \/ \E active \in BOOLEAN : updateGroup(g, active)

AccountSpec == AccountInit /\ [][AccountNext]_accountVars

-----------------------------------------------------------------------------
(* Properties.                                                             *)

\* The type invariant: the documents fit their schemas.
AccountTypeOK ==
    /\ user \in UserDoc
    /\ group \in [Groups -> [active : BOOLEAN, deleted : BOOLEAN]]
    /\ agentRequest \in [Clients -> {"absent", "PENDING", "APPROVED", "REJECTED"}]

\* The slot in the user document, which keeps a second request out, is taken exactly
\* while one request is pending and auditSubAgentRequestIndexes finds no second one,
\* whatever other requests save the document from an older copy.
SlotMatchesRequest ==
    LET pending == {t \in Clients : agentRequest[t] = "PENDING"} IN
    /\ Cardinality(pending) <= 1
    /\ user.slot <=> pending # {}

\* A reseller has exactly one approved request and earns no more commissions, and
\* nobody else has one, whatever happens to the account around the approval.
ResellerOnRecord ==
    LET approved == {t \in Clients : agentRequest[t] = "APPROVED"} IN
    /\ Cardinality(approved) <= 1
    /\ (user.reseller = "APPROVED") <=> approved # {}
    /\ (user.reseller = "APPROVED") <=> user.stopped
=============================================================================

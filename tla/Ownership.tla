------------------------------ MODULE Ownership ------------------------------
(***************************************************************************)
(* Who a mailbox belongs to, and what depends on it: the collection rules  *)
(* that deliver the mail of other domains into it, the requests that push  *)
(* it to another user, and its share with a reader.  Administrators change *)
(* users, mailboxes, domains, aliases and rules through handlers that      *)
(* check and then write; collectionMutationLock serialises those.  Users   *)
(* push and share without that lock.                                       *)
(*                                                                         *)
(* One mailbox, and one user it is shared with.  Steps of a transaction    *)
(* between its first read and its commit interleave with other requests,   *)
(* as they do on PostgreSQL and MySQL; SQLite admits fewer orders.         *)
(***************************************************************************)
EXTENDS Naturals, FiniteSets

CONSTANTS
  Person,          \* rows of users
  DefaultAdmin,    \* the one whose address is LANQIN_ADMIN_EMAIL, or NoPerson
  Reader,          \* the recipient of the share
  Realm,           \* rows of domains
  Home,            \* the domain of the mailbox
  AdminSlot,       \* requests of administrators under way
  Resolver,        \* requests that resolve a push under way
  NoPerson,
  Budget           \* bounds: how many requests of administrators, pushes and
                   \* changes of the share a behaviour makes

ASSUME OwnershipAssumption ==
  /\ NoPerson \notin Person /\ DefaultAdmin \in Person \cup {NoPerson}
  /\ Reader \in Person /\ Home \in Realm
  /\ Budget \subseteq [admin : Nat, push : Nat, share : Nat]

VARIABLES
  people,     \* users: role, disabled, gone
  box,        \* the mailbox: status and owner
  realm,      \* the status of each domain
  alias,      \* an enabled alias forwards the address of the mailbox
  targets,    \* domain_collections: the domains whose target the mailbox is
  adm,        \* the requests of administrators
  push,       \* the last row of mailbox_push_requests
  resolving,  \* the requests that resolve it, or one before it
  share,      \* the row of mailbox_shares
  page,       \* the share as the owner's browser has loaded it
  past,       \* history
  left        \* the requests of each kind still to make

ownershipVars == <<people, box, realm, alias, targets, adm, push, resolving, share, page, past, left>>
adminState == <<people, realm, alias, targets, adm>>
shareState == <<share, page>>
pushState == <<push, resolving>>

-----------------------------------------------------------------------------
(* Types *)

Role == {"admin", "user"}
Status == {"active", "disabled", "gone"}

UserOp == [kind : {"user"}, who : Person, role : Role, disabled : BOOLEAN]
BoxOp == [kind : {"box"}, owner : Person, status : {"active", "disabled"}]
RealmOp == [kind : {"realm"}, realm : Realm, status : {"active", "disabled"}]
CollectOp == [kind : {"collect"}, realm : Realm, on : BOOLEAN]
AliasOp == [kind : {"alias"}, on : BOOLEAN]
RemoveOp == [kind : {"removeUser"}, who : Person] \cup [kind : {"removeBox"}]
              \cup [kind : {"removeRealm"}, realm : Realm]
AdminOp == UserOp \cup BoxOp \cup RealmOp \cup CollectOp \cup AliasOp \cup RemoveOp
NoOp == [kind |-> "none"]

NoPush == [status |-> "none", from |-> NoPerson, to |-> NoPerson, late |-> FALSE]
Action == {"accept", "cancelled", "rejected"}
NoAnswer == [action |-> "none", from |-> NoPerson, to |-> NoPerson, current |-> FALSE]
Answer == [action : Action \cup {"none"}, from : Person \cup {NoPerson},
           to : Person \cup {NoPerson}, current : BOOLEAN]
NoShare == [kept |-> FALSE, owner |-> NoPerson, revoked |-> FALSE, left |-> FALSE,
            expired |-> FALSE, scope |-> "all", version |-> 0]
Share == [kept : BOOLEAN, owner : Person \cup {NoPerson}, revoked : BOOLEAN, left : BOOLEAN,
          expired : BOOLEAN, scope : {"all", "custom"}, version : Nat]

OwnershipTypeOK ==
  /\ people \in [Person -> [role : Role, disabled : BOOLEAN, gone : BOOLEAN]]
  /\ box \in [status : Status, owner : Person]
  /\ realm \in [Realm -> Status]
  /\ alias \in BOOLEAN
  /\ targets \subseteq Realm
  /\ adm \in [AdminSlot -> AdminOp \cup {NoOp}]
  /\ push \in [status : {"none", "pending", "accepted", "cancelled", "rejected", "expired"},
               from : Person \cup {NoPerson}, to : Person \cup {NoPerson}, late : BOOLEAN]
  /\ resolving \in [Resolver -> Answer]
  /\ share \in Share /\ page \in Share
  /\ past \in [moved : {"no", "raced", "target"}, given : BOOLEAN, crossed : BOOLEAN,
               consent : BOOLEAN, stray : BOOLEAN]
  /\ left \in [admin : Nat, push : Nat, share : Nat]

\* past.moved: the mailbox changed hands while a rule referred to it, or by a
\* push in the middle of a request of an administrator.  given: the push
\* changed the owner.  crossed: the write of another request fell between the
\* read and the write of a resolution.  consent: the owner of the share row
\* gave it and nobody took it back.  stray: an owner restored a row that names
\* another one.

-----------------------------------------------------------------------------
(* Helpers *)

Enabled(u) == ~people[u].gone /\ ~people[u].disabled
Active(status) == status = "active"
ResolverBusy == \E r \in Resolver : resolving[r].current
AdminBusy == \E s \in AdminSlot : adm[s] # NoOp

Spend(kind) == left[kind] > 0 /\ left' = [left EXCEPT ![kind] = @ - 1]

\* A write that lands inside a resolution of the last push crosses it.
Crossing(r) == \E q \in Resolver \ {r} : resolving[q].current

\* Mutant: the routes lose the middleware.
NoLock == TRUE

\* The in-process mutex, and the advisory lock between processes.
LockFree == ~AdminBusy

Referenced == targets # {}
\* collectionTargetInUse
TargetInUse(kind, id) ==
  Referenced /\ CASE kind = "mailbox" -> TRUE
                  [] kind = "user" -> box.owner = id
                  [] kind = "domain" -> Home = id

\* ensureAdminRemains
AdminLeft(u, role, disabled) ==
  \/ role = "admin" /\ ~disabled
  \/ \E v \in Person \ {u} : Enabled(v) /\ people[v].role = "admin"

-----------------------------------------------------------------------------
(* Requests of administrators: the checks.  A permission group may entitle  *)
(* a regular user to most of them, but not against an administrator.        *)

MayTouch(actor, u, role) ==
  people[actor].role = "admin" \/ (people[u].role = "user" /\ role = "user")

\* handleUpdateUser.  Who gives up the role may keep access through a group.
MayUpdateUser(actor, op) ==
  /\ ~people[op.who].gone
  /\ MayTouch(actor, op.who, op.role)
  /\ op.disabled => ~TargetInUse("user", op.who)
  /\ op.who = DefaultAdmin => op.role = "admin" /\ ~op.disabled
  /\ AdminLeft(op.who, op.role, op.disabled)
  /\ op.disabled => actor # op.who

MayRemoveUser(actor, op) ==
  /\ ~people[op.who].gone /\ op.who \notin {actor, DefaultAdmin}
  /\ ~TargetInUse("user", op.who)
  /\ MayTouch(actor, op.who, "user")
  /\ AdminLeft(op.who, "user", TRUE)

\* handleUpdateMailbox, and its twin of the open API where a field that is not
\* given keeps the value it has read: each is some op of this form.
MayUpdateBox(op) ==
  /\ box.status # "gone" /\ Enabled(op.owner)
  /\ ~Active(op.status) \/ op.owner # box.owner => ~TargetInUse("mailbox", op)

\* Of the last mailbox of the actor himself there is no telling here.
MayRemoveBox == box.status # "gone" /\ ~TargetInUse("mailbox", NoOp)

MayUpdateRealm(op) ==
  /\ realm[op.realm] # "gone"
  /\ ~Active(op.status) => ~TargetInUse("domain", op.realm)

MayRemoveRealm(op) ==
  /\ realm[op.realm] # "gone" /\ ~TargetInUse("domain", op.realm)
  /\ op.realm = Home => box.status = "gone"

\* handleSetDomainCollection
MayCollect(actor, op) ==
  /\ people[actor].role = "admin"
  /\ realm[op.realm] # "gone" /\ op.on # (op.realm \in targets)
  /\ op.on => /\ Active(realm[op.realm]) /\ Active(box.status) /\ Active(realm[Home])
              /\ Enabled(box.owner) /\ ~alias

\* collectionAliasAllowed, for an alias of the address of the mailbox.
MayAlias(op) == realm[Home] # "gone" /\ alias # op.on /\ (op.on => ~Referenced)

MayRun(actor, op) ==
  CASE op.kind = "user" -> MayUpdateUser(actor, op)
    [] op.kind = "removeUser" -> MayRemoveUser(actor, op)
    [] op.kind = "box" -> MayUpdateBox(op)
    [] op.kind = "removeBox" -> MayRemoveBox
    [] op.kind = "realm" -> MayUpdateRealm(op)
    [] op.kind = "removeRealm" -> MayRemoveRealm(op)
    [] op.kind = "collect" -> MayCollect(actor, op)
    [] op.kind = "alias" -> MayAlias(op)

StartAdmin(s, op) ==
  /\ adm[s] = NoOp /\ LockFree /\ Spend("admin")
  /\ \E actor \in Person : Enabled(actor) /\ MayRun(actor, op)
  /\ adm' = [adm EXCEPT ![s] = op]
  /\ UNCHANGED <<people, box, realm, alias, targets, pushState, shareState, past>>

-----------------------------------------------------------------------------
(* Requests of administrators: the writes                                   *)

Finished(s) == adm' = [adm EXCEPT ![s] = NoOp]

\* The foreign keys: with a mailbox go its push and its share.
BoxGone ==
  /\ box' = [box EXCEPT !.status = "gone"]
  /\ push' = NoPush /\ share' = NoShare /\ page' = NoShare

Crossed == past' = [past EXCEPT !.crossed = @ \/ ResolverBusy]

UpdateUser(s) ==
  /\ adm[s].kind = "user"
  /\ people' = IF people[adm[s].who].gone THEN people
               ELSE [people EXCEPT ![adm[s].who].role = adm[s].role, ![adm[s].who].disabled = adm[s].disabled]
  /\ Finished(s)
  /\ UNCHANGED <<box, realm, alias, targets, pushState, shareState, past, left>>

\* Mailboxes go with their owner; the rules that refer to one forbid it.
RemoveUser(s) ==
  LET u == adm[s].who
      owns == box.owner = u /\ box.status # "gone"
  IN
  /\ adm[s].kind = "removeUser"
  /\ Finished(s)
  /\ IF owns /\ Referenced
     THEN UNCHANGED <<people, box, push, shareState>>
     ELSE /\ people' = [people EXCEPT ![u].gone = TRUE]
          /\ IF owns THEN BoxGone
             ELSE /\ push' = IF u \in {push.from, push.to} THEN NoPush ELSE push
                  /\ IF u \in {share.owner, Reader} THEN share' = NoShare /\ page' = NoShare
                     ELSE UNCHANGED shareState
                  /\ UNCHANGED box
  /\ Crossed
  /\ UNCHANGED <<realm, alias, targets, resolving, left>>

UpdateBox(s) ==
  LET gone == box.status = "gone" \/ people[adm[s].owner].gone IN
  /\ adm[s].kind = "box"
  /\ box' = IF gone THEN box ELSE [status |-> adm[s].status, owner |-> adm[s].owner]
  /\ past' = [past EXCEPT !.crossed = @ \/ ResolverBusy,
                          !.moved = IF box'.owner # box.owner /\ Referenced THEN "target" ELSE @]
  /\ Finished(s)
  /\ UNCHANGED <<people, realm, alias, targets, pushState, shareState, left>>

\* Its mail is deleted first.
RemoveBox(s) ==
  /\ adm[s].kind = "removeBox"
  /\ IF Referenced THEN UNCHANGED <<box, push, shareState>> ELSE BoxGone
  /\ Crossed /\ Finished(s)
  /\ UNCHANGED <<people, realm, alias, targets, resolving, left>>

UpdateRealm(s) ==
  /\ adm[s].kind = "realm"
  /\ realm' = IF realm[adm[s].realm] = "gone" THEN realm ELSE [realm EXCEPT ![adm[s].realm] = adm[s].status]
  /\ Finished(s)
  /\ UNCHANGED <<people, box, alias, targets, pushState, shareState, past, left>>

RemoveRealm(s) ==
  /\ adm[s].kind = "removeRealm"
  /\ realm' = [realm EXCEPT ![adm[s].realm] = "gone"]
  /\ targets' = targets \ {adm[s].realm}
  /\ alias' = (alias /\ adm[s].realm # Home)
  /\ Finished(s)
  /\ UNCHANGED <<people, box, pushState, shareState, past, left>>

SetCollection(s) ==
  /\ adm[s].kind = "collect"
  /\ targets' = IF adm[s].on /\ box.status # "gone" /\ realm[adm[s].realm] # "gone"
                THEN targets \cup {adm[s].realm} ELSE targets \ {adm[s].realm}
  /\ Finished(s)
  /\ UNCHANGED <<people, box, realm, alias, pushState, shareState, past, left>>

SaveAlias(s) ==
  /\ adm[s].kind = "alias"
  /\ alias' = adm[s].on
  /\ Finished(s)
  /\ UNCHANGED <<people, box, realm, targets, pushState, shareState, past, left>>

\* handleDeleteAlias takes no lock.
DeleteAlias ==
  /\ alias
  /\ alias' = FALSE
  /\ UNCHANGED <<people, box, realm, targets, adm, pushState, shareState, past, left>>

WriteAdmin(s) ==
  \/ UpdateUser(s) \/ RemoveUser(s) \/ UpdateBox(s) \/ RemoveBox(s)
  \/ UpdateRealm(s) \/ RemoveRealm(s) \/ SetCollection(s) \/ SaveAlias(s)

-----------------------------------------------------------------------------
(* mailbox_push.go *)

\* The unique index admits one pending row; its sender may lose the mailbox
\* before the INSERT, as he may after it.  A request that still resolves the
\* push before it goes on.
CreatePush(to) ==
  /\ Active(box.status) /\ Enabled(box.owner) /\ Enabled(to) /\ to # box.owner
  /\ push.status # "pending"
  /\ push' = [status |-> "pending", from |-> box.owner, to |-> to, late |-> FALSE]
  /\ resolving' = [r \in Resolver |-> [resolving[r] EXCEPT !.current = FALSE]]
  /\ past' = [past EXCEPT !.given = FALSE, !.crossed = FALSE]
  /\ Spend("push")
  /\ UNCHANGED <<adminState, box, shareState>>

PushTimesOut ==
  /\ push.status = "pending" /\ ~push.late
  /\ push' = [push EXCEPT !.late = TRUE]
  /\ UNCHANGED <<adminState, box, resolving, shareState, past, left>>

\* handleListMailboxPush writes the status it shows.
ExpirePush ==
  /\ push.status = "pending" /\ push.late
  /\ push' = [push EXCEPT !.status = "expired"]
  /\ Crossed
  /\ UNCHANGED <<adminState, box, resolving, shareState, left>>

Resolvable == push.status = "pending" /\ ~push.late

\* The reads of resolveMailboxPush.
ReadPush(r, action) ==
  /\ resolving[r].action = "none" /\ Resolvable
  /\ Enabled(IF action = "cancelled" THEN push.from ELSE push.to)
  /\ action = "accept" => Active(box.status) /\ box.owner = push.from
  /\ resolving' = [resolving EXCEPT ![r] = [action |-> action, from |-> push.from, to |-> push.to, current |-> TRUE]]
  /\ UNCHANGED <<adminState, box, push, shareState, past, left>>

\* Its writes.  None of the counts of changed rows is looked at.
Answered(r) == resolving' = [resolving EXCEPT ![r] = NoAnswer]
Close(r, status) ==
  push' = IF resolving[r].current /\ push.status = "pending" THEN [push EXCEPT !.status = status] ELSE push
Gives(r) == box.status # "gone" /\ box.owner = resolving[r].from

\* The mailbox goes to no user who is gone: the foreign key.
AcceptPush(r) ==
  LET gives == Gives(r)
      lapses == share.kept /\ ~share.revoked /\ ~share.left
  IN
  /\ resolving[r].action = "accept" /\ (gives => resolving[r].to \in {u \in Person : ~people[u].gone})
  /\ box' = IF gives THEN [box EXCEPT !.owner = resolving[r].to] ELSE box
  /\ share' = IF lapses THEN [share EXCEPT !.revoked = TRUE, !.version = @ + 1] ELSE share
  /\ Close(r, "accepted")
  /\ past' = [past EXCEPT !.given = @ \/ (gives /\ resolving[r].current),
                          !.crossed = @ \/ Crossing(r),
                          !.consent = @ /\ ~lapses,
                          !.moved = IF gives /\ Referenced THEN "target"
                                    ELSE IF gives /\ AdminBusy /\ @ = "no" THEN "raced" ELSE @]
  /\ Answered(r)
  /\ UNCHANGED <<adminState, page, left>>

ClosePush(r) ==
  /\ resolving[r].action \in {"cancelled", "rejected"}
  /\ Close(r, resolving[r].action)
  /\ past' = [past EXCEPT !.crossed = @ \/ Crossing(r)]
  /\ Answered(r)
  /\ UNCHANGED <<adminState, box, shareState, left>>

\* A statement or the commit fails: all of it is rolled back.
RollBackPush(r) ==
  /\ resolving[r].action # "none"
  /\ Answered(r)
  /\ UNCHANGED <<adminState, box, push, shareState, past, left>>

-----------------------------------------------------------------------------
(* mailbox_sharing.go *)

Sharable == Active(box.status) /\ Enabled(box.owner) /\ Spend("share")
OwnsShare(u) == share.kept /\ share.owner = u /\ box.owner = u
Bumped(row) == [row EXCEPT !.version = @ + 1]
Consents(consent) == past' = [past EXCEPT !.consent = consent]

\* A row that was revoked or left is restored, whoever owned the mailbox then.
CreateShare(scope) ==
  /\ Sharable /\ Enabled(Reader) /\ Reader # box.owner
  /\ ~share.kept \/ share.revoked \/ share.left
  /\ share' = IF share.kept
              THEN [share EXCEPT !.scope = scope, !.expired = FALSE, !.revoked = FALSE, !.left = FALSE,
                                 !.version = @ + 1]
              ELSE [NoShare EXCEPT !.kept = TRUE, !.owner = box.owner, !.scope = scope, !.version = 1]
  /\ past' = [past EXCEPT !.consent = share'.owner = box.owner,
                          !.stray = @ \/ share'.owner # box.owner]
  /\ UNCHANGED <<adminState, box, pushState, page>>

LoadShare ==
  /\ OwnsShare(box.owner) /\ page # share
  /\ page' = share
  /\ UNCHANGED <<adminState, box, pushState, share, past, left>>

\* handleUpdateMailboxShare: what the browser shows is saved unless the row has
\* a later version; the expiry is kept or renewed.
UpdateShare(scope, renewed) ==
  /\ page.kept /\ OwnsShare(page.owner) /\ Sharable
  /\ page.version = share.version
  /\ share' = [share EXCEPT !.scope = scope, !.expired = @ /\ ~renewed, !.revoked = FALSE,
                            !.left = FALSE, !.version = @ + 1]
  /\ Consents(TRUE)
  /\ UNCHANGED <<adminState, box, pushState, page>>

RevokeShare ==
  /\ OwnsShare(box.owner) /\ ~share.revoked /\ Spend("share")
  /\ share' = Bumped([share EXCEPT !.revoked = TRUE])
  /\ Consents(FALSE)
  /\ UNCHANGED <<adminState, box, pushState, page>>

LeaveShare ==
  /\ OwnsShare(box.owner) /\ ~share.left /\ Spend("share")
  /\ share' = Bumped([share EXCEPT !.left = TRUE])
  /\ Consents(FALSE)
  /\ UNCHANGED <<adminState, box, pushState, page>>

ShareExpires ==
  /\ share.kept /\ ~share.expired
  /\ share' = [share EXCEPT !.expired = TRUE]
  /\ page' = IF page = share THEN share' ELSE page
  /\ UNCHANGED <<adminState, box, pushState, past, left>>

\* mailboxReadAccessWithID
ReaderReads ==
  /\ OwnsShare(box.owner) /\ ~share.revoked /\ ~share.left /\ ~share.expired
  /\ Active(box.status) /\ Active(realm[Home])

-----------------------------------------------------------------------------

\* The reader is a regular user; the others are administrators, one of whom has
\* the mailbox.
OwnershipInit ==
  /\ \E second \in Person \ {Reader} :
       /\ people = [u \in Person |-> [role |-> IF u = Reader THEN "user" ELSE "admin",
                                      disabled |-> FALSE, gone |-> FALSE]]
       /\ box = [status |-> "active", owner |-> second]
  /\ realm = [d \in Realm |-> "active"]
  /\ alias = FALSE /\ targets = {}
  /\ adm = [s \in AdminSlot |-> NoOp]
  /\ push = NoPush
  /\ resolving = [r \in Resolver |-> NoAnswer]
  /\ share = NoShare /\ page = NoShare
  /\ past = [moved |-> "no", given |-> FALSE, crossed |-> FALSE, consent |-> FALSE, stray |-> FALSE]
  /\ left \in Budget

OwnershipNext ==
  \/ \E s \in AdminSlot : WriteAdmin(s) \/ \E op \in AdminOp : StartAdmin(s, op)
  \/ DeleteAlias
  \/ \E to \in Person : CreatePush(to)
  \/ PushTimesOut \/ ExpirePush
  \/ \E r \in Resolver : \/ AcceptPush(r) \/ ClosePush(r) \/ RollBackPush(r)
                         \/ \E action \in Action : ReadPush(r, action)
  \/ \E scope \in {"all", "custom"} : CreateShare(scope) \/ \E renewed \in BOOLEAN : UpdateShare(scope, renewed)
  \/ LoadShare \/ RevokeShare \/ LeaveShare \/ ShareExpires

OwnershipSpec == OwnershipInit /\ [][OwnershipNext]_ownershipVars

-----------------------------------------------------------------------------
(* Properties *)

\* However the requests of administrators overlap, one of them stays enabled.
AdminRemains == \E u \in Person : Enabled(u) /\ people[u].role = "admin"

\* Collected mail has somewhere to go: unless a push moved the mailbox, it, its
\* domain and its owner are active and no alias leads the mail away.
TargetUsable ==
  Referenced /\ past.moved = "no" =>
    Active(box.status) /\ Active(realm[Home]) /\ Enabled(box.owner) /\ ~alias

\* The status of a push tells whether it changed the owner, unless another
\* write crossed the one that resolved it.
PushTellsOutcome ==
  ~past.crossed /\ push.status # "none" => (past.given <=> push.status = "accepted")

\* A page that still has the version of the row shows what the row holds, so
\* that saving it undoes nobody else's change.
PageNotStale == page.kept /\ page.version = share.version => page = share

\* The reader gets in only by a grant of the present owner that neither of the
\* two has ended since, unless another owner restored that owner's old row.
ReaderHasConsent == ReaderReads => past.consent \/ past.stray

\* What administration, pushes and shares keep together, whatever interleaving:
\* an administrator remains, a collection target can receive, a push and the
\* mailbox's owner agree, the page shows the present owner's boxes, and a reader
\* has the owner's consent (admin_handlers.go, domain_collection.go,
\* mailbox_push.go, mailbox_sharing.go).
OwnershipSafe ==
  AdminRemains /\ TargetUsable /\ PushTellsOutcome /\ PageNotStale /\ ReaderHasConsent

\* docs/DOMAIN_COLLECTION.md:18: a mailbox that a rule refers to is not
\* transferred.  The push does it.
TargetNotTransferred == past.moved # "target"
=============================================================================

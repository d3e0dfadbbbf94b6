------------------------- MODULE MCDesktopServices -------------------------
(***************************************************************************)
(* Small instances of the desktop's services for TLC: the embedded node    *)
(* (extended, so that its assumption is checked) and the services that     *)
(* share no state with it or with each other.  A behaviour is one of one   *)
(* service, the one in `focus`; the others stay in an initial state.  The  *)
(* services do not interact, so nothing is lost by taking them in turn.    *)
(***************************************************************************)
EXTENDS MCDesktopWindows

CONSTANTS
    t1, t2, devnet, testnet,
    Dirs, MaxStarts,
    Clicks, MaxRequests, MaxToolCalls, MaxRounds, MaxDrawn,
    Publications, Models, MaxPolls,
    Files, Removals, MaxEnvelope,
    Members, MaxCallbacks, MaxSends,
    Turns, Writers, MaxChatCalls,
    Capacity, MaxEvents

VARIABLES
    start, encrypt, keyring, disk, noise, held, starts, launches, identities,
    toolTurn, policy, slot, drawing, card, click, stop, write, pending,
    decided, issued, acted, answers,
    publication, record, mined, registry, crossedRecords,
    upload, removal, index, pinned, envelope, keys, kept, atRisk, exposed,
    linking, linkFile, root, deploys, onHome, sending, userOps, sends, abroad,
    turn, writer, queue, holds, rpc,
    bus, recorder, first, next, trail

\* There is a network, a model and a file, accounts are finitely many, and the
\* bounds are numbers.
ASSUME StorageAssumption ==
    Dirs # {} /\ MaxStarts \in Nat /\ MaxLaunches \in Nat
ASSUME DeskAssumption ==
    /\ MaxRequests \in Nat /\ MaxDrawn \in Nat
    /\ MaxToolCalls \in Nat /\ MaxRounds \in Nat \ {0}
ASSUME PublishAssumption ==
    Models # {} /\ MaxPolls \in Nat /\ "none" \notin Publications
ASSUME IndexAssumption == Files # {} /\ MaxEnvelope \in Nat
ASSUME LinkAssumption ==
    IsFiniteSet(Accounts) /\ MaxCallbacks \in Nat /\ MaxSends \in Nat
ASSUME ChatAssumption == MaxChatCalls \in Nat
ASSUME TrailAssumption == MaxEvents \in Nat

Storage == INSTANCE NodeStorage
Desk == INSTANCE ApprovalDesk WITH turn <- toolTurn, MaxCalls <- MaxToolCalls
Publish == INSTANCE ModelPublish WITH crossed <- crossedRecords
Index == INSTANCE FileIndex
Link == INSTANCE CitrateLink
Chat == INSTANCE ChatTurns WITH MaxCalls <- MaxChatCalls
Trail == INSTANCE EventTrail

Services ==
    {"node", "storage", "desk", "publish", "index", "link", "chat", "trail"}
        \cup Windows

nodeVars == vars
storageVars == <<start, encrypt, keyring, disk, noise, held, starts, launches,
                 identities>>
deskVars == <<toolTurn, policy, slot, drawing, card, click, stop, write,
              pending, decided, issued, acted, answers>>
publishVars == <<publication, record, mined, registry, crossedRecords>>
indexVars == <<upload, removal, index, pinned, envelope, keys, kept, atRisk,
               exposed>>
linkVars == <<linking, linkFile, root, deploys, onHome, sending, userOps,
              sends, abroad>>
chatVars == <<turn, writer, queue, holds, rpc>>
trailVars == <<bus, recorder, first, next, trail>>
serviceVars == <<nodeVars, storageVars, deskVars, publishVars, indexVars,
                 linkVars, chatVars, trailVars, Slots, focus>>

\* A service that is not looked at is off; the node is at rest.
ServicesInit ==
    /\ focus \in Services
    /\ Init /\ (focus # "node" => config = devnet)
    /\ WindowsInit
    /\ IF focus = "storage" THEN Storage!Init
       ELSE /\ start = Off /\ encrypt = Off /\ keyring = Off /\ disk = Off
            /\ noise = Off /\ held = Off /\ starts = Off /\ launches = Off
            /\ identities = Off
    /\ IF focus = "desk" THEN Desk!Init
       ELSE /\ toolTurn = Off /\ policy = Off /\ slot = Off /\ drawing = Off
            /\ card = Off /\ click = Off /\ stop = Off /\ write = Off
            /\ pending = Off /\ decided = Off /\ issued = Off /\ acted = Off
            /\ answers = Off
    /\ IF focus = "publish" THEN Publish!Init
       ELSE /\ publication = Off /\ record = Off /\ mined = Off
            /\ registry = Off /\ crossedRecords = Off
    /\ IF focus = "index" THEN Index!Init
       ELSE /\ upload = Off /\ removal = Off /\ index = Off /\ pinned = Off
            /\ envelope = Off /\ keys = Off /\ kept = Off /\ atRisk = Off
            /\ exposed = Off
    /\ IF focus = "link" THEN Link!Init
       ELSE /\ linking = Off /\ linkFile = Off /\ root = Off /\ deploys = Off
            /\ onHome = Off /\ sending = Off /\ userOps = Off /\ sends = Off
            /\ abroad = Off
    /\ IF focus = "chat" THEN Chat!Init
       ELSE /\ turn = Off /\ writer = Off /\ queue = Off /\ holds = Off
            /\ rpc = Off
    /\ IF focus = "trail" THEN Trail!Init
       ELSE /\ bus = Off /\ recorder = Off /\ first = Off /\ next = Off
            /\ trail = Off

\* A step of the service in focus, and of no other.
ServicesNext ==
    /\ UNCHANGED focus
    /\ IF focus = "node" THEN Next ELSE UNCHANGED nodeVars
    /\ WindowsNext
    /\ IF focus = "storage" THEN Storage!Next ELSE UNCHANGED storageVars
    /\ IF focus = "desk" THEN Desk!Next ELSE UNCHANGED deskVars
    /\ IF focus = "publish" THEN Publish!Next ELSE UNCHANGED publishVars
    /\ IF focus = "index" THEN Index!Next ELSE UNCHANGED indexVars
    /\ IF focus = "link" THEN Link!Next ELSE UNCHANGED linkVars
    /\ IF focus = "chat" THEN Chat!Next ELSE UNCHANGED chatVars
    /\ IF focus = "trail" THEN Trail!Next ELSE UNCHANGED trailVars

ServicesSpec == ServicesInit /\ [][ServicesNext]_serviceVars

Symmetry == Permutations(Tasks)

\* Every variable has its type.
ServicesTypeOK ==
    /\ TypeOK
    /\ WindowsTypeOK
    /\ focus = "storage" => Storage!TypeOK
    /\ focus = "desk" => Desk!TypeOK
    /\ focus = "publish" => Publish!TypeOK
    /\ focus = "index" => Index!TypeOK
    /\ focus = "link" => Link!TypeOK
    /\ focus = "chat" => Chat!TypeOK
    /\ focus = "trail" => Trail!TypeOK

\* What NodeStorage, ApprovalDesk, ModelPublish, FileIndex, CitrateLink,
\* ChatTurns and EventTrail say of themselves.
SealedIdentityKept == [][focus = "storage" => Storage!KeepsIdentity]_serviceVars
SealedDataKept == [][focus = "storage" => Storage!KeepsSealed]_serviceVars
RevocationDurable == [][focus = "vault" => Vault!KeepsRevoked]_serviceVars
ConsentPerAct == focus = "desk" => Desk!ConsentPerAct
ConsentFollowed ==
    /\ focus = "desk" => Desk!PromiseBegins
    /\ [][focus = "desk" => Desk!KeepsPromise]_serviceVars
CardLeavesWrites == focus = "desk" => Desk!CardLeavesWrites
Evidence == focus = "publish" => Publish!Evidence
FilesKept == focus = "index" => Index!FilesKept
PrivateUploadsSealed == focus = "index" => Index!PrivateUploadsSealed
SenderIsRoot == focus = "link" => Link!SenderIsRoot
ConversationFlows == focus = "chat" => Chat!ConversationFlows
Unbroken == focus = "trail" => Trail!Unbroken
=============================================================================

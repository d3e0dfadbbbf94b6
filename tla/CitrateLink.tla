------------------------------ MODULE CitrateLink ------------------------------
(***************************************************************************)
(* Linking this device to the member's smart wallet, and sends through it  *)
(* that a paymaster sponsors.  A link is a sign-in in the browser, a check *)
(* whether the predicted wallet is on chain, where it is not a deployment  *)
(* with this device's key as its root validator, and a file.  The wallet   *)
(* may as well be deployed from the web, with a passkey.  The authority,   *)
(* the chain and the bundler are external.                                 *)
(***************************************************************************)
EXTENDS Naturals, FiniteSets

CONSTANTS
    Members,      \* subjects of the authority, each with its predicted wallet
    Accounts,     \* this device's secp256k1 accounts
    MaxCallbacks, \* connections one sign-in answers (8 in the code)
    MaxSends      \* bound: sponsored sends

VARIABLES
    linking,   \* the link under way: where it is, account, member, callbacks
    linkFile,  \* citrate_link.json; NoLink: missing or not readable
    root,      \* root[m]: the validator of m's wallet on chain
    deploys,   \* deploys[m]: the keys for which a deployment was broadcast
    onHome,    \* the node the wallet asks is of the network with the contracts
    sending,   \* the sponsored send under way and the link it works with
    userOps,   \* user operations handed to the bundler
    sends,
    \* history
    abroad     \* a deployment went out by a node of another network

vars == <<linking, linkFile, root, deploys, onHome, sending, userOps, sends,
          abroad>>

Passkey == "passkey"
Nobody == "nobody"
Keys == Accounts \cup {Passkey}
NoLink == [member |-> Nobody, account |-> Nobody, pending |-> TRUE]
Links == {NoLink} \cup
         [member : Members, account : Accounts, pending : BOOLEAN]
NotLinking == [at |-> "idle", account |-> Nobody, member |-> Nobody, tries |-> 0,
               pending |-> TRUE]
NotSending == [at |-> "idle", link |-> NoLink]

TypeOK ==
    /\ linking \in [at : {"idle", "signIn", "token", "code", "enroll", "deploy",
                          "save"},
                    account : Accounts \cup {Nobody},
                    member : Members \cup {Nobody},
                    tries : 0 .. MaxCallbacks, pending : BOOLEAN]
    /\ linkFile \in Links
    /\ root \in [Members -> Keys \cup {Nobody}]
    /\ deploys \in [Members -> SUBSET Keys] /\ onHome \in BOOLEAN
    /\ sending \in [at : {"idle", "nonce", "sign"}, link : Links]
    /\ userOps \subseteq Links /\ sends \in 0 .. MaxSends
    /\ abroad \in BOOLEAN

Init ==
    /\ linking = NotLinking /\ linkFile = NoLink
    /\ root = [m \in Members |-> Nobody] /\ deploys = [m \in Members |-> {}]
    /\ onHome \in BOOLEAN /\ sending = NotSending /\ userOps = {} /\ sends = 0
    /\ abroad = FALSE

Step(from, to) ==
    /\ linking.at = from
    /\ linking' = [linking EXCEPT !.at = to]

\* The button, off while a link is under way; only for a secp256k1 account.
LinkDevice(a) ==
    /\ linking.at = "idle"
    /\ linking' = [NotLinking EXCEPT !.at = "signIn", !.account = a]
    /\ UNCHANGED <<linkFile, root, deploys, onHome, sending, userOps, sends,
                   abroad>>

\* Any error, a timeout, a foreign state or a mismatched address ends the link.
LinkFails ==
    /\ linking.at # "idle"
    /\ linking' = NotLinking
    /\ UNCHANGED <<linkFile, root, deploys, onHome, sending, userOps, sends,
                   abroad>>

\* accept_oidc_callback: another page asks the listener first, or the callback
\* comes with the state of this sign-in.
Callback ==
    /\ linking.at = "signIn" /\ linking.tries < MaxCallbacks
    /\ \E at \in {"signIn", "token"} :
         linking' = [linking EXCEPT !.at = at, !.tries = @ + 1]
    /\ UNCHANGED <<linkFile, root, deploys, onHome, sending, userOps, sends,
                   abroad>>

\* The token's subject gives the member; a wallet address the authority claims
\* has to be the predicted one.
Token(m) ==
    /\ linking.at = "token"
    /\ linking' = [linking EXCEPT !.at = "code", !.member = m]
    /\ UNCHANGED <<linkFile, root, deploys, onHome, sending, userOps, sends,
                   abroad>>

\* Mutant: a wallet found deployed passes for one of this device.
CheckCodeTrusting ==
    /\ linking.at = "code"
    /\ linking' = IF onHome /\ root[linking.member] # Nobody
                  THEN [linking EXCEPT !.at = "save", !.pending = FALSE]
                  ELSE [linking EXCEPT !.at = "enroll"]
    /\ UNCHANGED <<linkFile, root, deploys, onHome, sending, userOps, sends,
                   abroad>>

\* eth_getCode, of the node the wallet is set to: a deployed wallet leaves
\* this device waiting for the root's consent.
CheckCode ==
    /\ linking.at = "code"
    /\ linking' = IF onHome /\ root[linking.member] # Nobody
                  THEN [linking EXCEPT !.at = "save", !.pending = TRUE]
                  ELSE [linking EXCEPT !.at = "enroll"]
    /\ UNCHANGED <<linkFile, root, deploys, onHome, sending, userOps, sends,
                   abroad>>

\* deploy_via_permit: the authority's permit, then the factory transaction;
\* broadcast counts as deployed.  By a node of another network, whose chain id
\* is the same, it reaches no factory, and passes all the same.
Enroll ==
    /\ Step("enroll", "deploy")
    /\ UNCHANGED <<linkFile, root, deploys, onHome, sending, userOps, sends,
                   abroad>>

Deploy ==
    /\ linking.at = "deploy"
    /\ linking' = [linking EXCEPT !.at = "save", !.pending = FALSE]
    /\ deploys' = IF onHome
                  THEN [deploys EXCEPT ![linking.member] =
                          @ \cup {linking.account}]
                  ELSE deploys
    /\ abroad' = (abroad \/ ~onHome)
    /\ UNCHANGED <<linkFile, root, onHome, sending, userOps, sends>>

SaveLink ==
    /\ linking.at = "save"
    /\ linkFile' = [member |-> linking.member, account |-> linking.account,
                    pending |-> linking.pending]
    /\ linking' = NotLinking
    /\ UNCHANGED <<root, deploys, onHome, sending, userOps, sends, abroad>>

\* The application ends; link file cut short in the middle reads as none.
Crash ==
    /\ linking' = NotLinking /\ sending' = NotSending
    /\ linkFile' \in IF linking.at = "save" THEN {linkFile, NoLink}
                     ELSE {linkFile}
    /\ UNCHANGED <<root, deploys, onHome, userOps, sends, abroad>>

\* The member deploys the wallet from the web.
DeployFromWeb(m) ==
    /\ root[m] = Nobody
    /\ deploys' = [deploys EXCEPT ![m] = @ \cup {Passkey}]
    /\ UNCHANGED <<linking, linkFile, root, onHome, sending, userOps, sends,
                   abroad>>

\* The first deployment to be mined sets the root validator.
Mine(m) ==
    /\ root[m] = Nobody
    /\ \E k \in deploys[m] : root' = [root EXCEPT ![m] = k]
    /\ UNCHANGED <<linking, linkFile, deploys, onHome, sending, userOps, sends,
                   abroad>>

SwitchChain ==
    /\ onHome' = ~onHome
    /\ UNCHANGED <<linking, linkFile, root, deploys, sending, userOps, sends,
                   abroad>>

\* Mutant: a device that waits for its enrolment may send.
SendSponsoredPending ==
    /\ sending.at = "idle" /\ sends < MaxSends
    /\ linkFile # NoLink
    /\ sending' = [at |-> "nonce", link |-> linkFile]
    /\ sends' = sends + 1
    /\ UNCHANGED <<linking, linkFile, root, deploys, onHome, userOps, abroad>>

\* send_sponsored, of a link that is not pending.  Its check of the chain id
\* always passes: the wallet's is the same one in every environment.
SendSponsored ==
    /\ sending.at = "idle" /\ sends < MaxSends
    /\ linkFile # NoLink /\ ~linkFile.pending
    /\ sending' = [at |-> "nonce", link |-> linkFile]
    /\ sends' = sends + 1
    /\ UNCHANGED <<linking, linkFile, root, deploys, onHome, userOps, abroad>>

\* Nonce and gas price from the node, then the signature of the account.
ReadNonce ==
    /\ sending.at = "nonce"
    /\ sending' = [sending EXCEPT !.at = "sign"]
    /\ UNCHANGED <<linking, linkFile, root, deploys, onHome, userOps, sends,
                   abroad>>

SignAndSubmit ==
    /\ sending.at = "sign"
    /\ userOps' = userOps \cup {sending.link}
    /\ sending' = NotSending
    /\ UNCHANGED <<linking, linkFile, root, deploys, onHome, sends, abroad>>

\* No answer, a locked wallet, a refusal of the bundler.
SendFails ==
    /\ sending.at # "idle"
    /\ sending' = NotSending
    /\ UNCHANGED <<linking, linkFile, root, deploys, onHome, userOps, sends,
                   abroad>>

Next ==
    \/ \E a \in Accounts : LinkDevice(a)
    \/ LinkFails \/ Callback \/ CheckCode \/ Enroll \/ Deploy \/ SaveLink
    \/ \E m \in Members : Token(m) \/ DeployFromWeb(m) \/ Mine(m)
    \/ Crash \/ SwitchChain
    \/ SendSponsored \/ ReadNonce \/ SignAndSubmit \/ SendFails

Spec == Init /\ [][Next]_vars

-----------------------------------------------------------------------------
\* A link that may send, and every operation signed through one, is of a key
\* whose deployment of that wallet this device has broadcast; so unless two
\* deployments raced, it is the wallet's root validator, whatever crashes,
\* relinking under another account or passkeys from the web came before.  A
\* deployment sent by a node of another network is the one exception: link does
\* not look which one it is.
SenderIsRoot ==
    ~abroad =>
      \A l \in userOps \cup {f \in {linkFile} : ~f.pending} :
        /\ l.account \in deploys[l.member]
        /\ Cardinality(deploys[l.member]) = 1
             => root[l.member] \in {l.account, Nobody}
-----------------------------------------------------------------------------

(* Why SenderIsRoot holds.                                                 *)

\* From the token on, a link has a member; it has an account all along.
Signed ==
    /\ linking.at # "idle" => linking.account \in Accounts
    /\ linking.at \in {"code", "enroll", "deploy", "save"}
         => linking.member \in Members

\* A validator on chain was broadcast.
RootsDeployed == \A m \in Members : root[m] \in deploys[m] \cup {Nobody}

\* What may send, or has sent, is a link whose deployment went out.
Enrolled(link) ==
    /\ link.member \in Members /\ ~link.pending
    /\ ~abroad => link.account \in deploys[link.member]
MaySend ==
    /\ linking.at = "save" /\ ~linking.pending => Enrolled(linking)
    /\ ~linkFile.pending => Enrolled(linkFile)
    /\ sending.at # "idle" => Enrolled(sending.link)
    /\ \A l \in userOps : Enrolled(l)

IInv == TypeOK /\ Signed /\ RootsDeployed /\ MaySend
================================================================================

---------------------------- MODULE ProxySession ----------------------------
(***************************************************************************)
(* The proxy session one page task opens: the exit it currently holds, the *)
(* proxies it has given up on, and how each kind of pool answers a failed  *)
(* attempt (src/proxy/cyberyozh/session.py, provider.py, provider_v2.py    *)
(* and the DirectSession of src/proxy/resolver.py).                        *)
(*                                                                         *)
(* An exit is a source proxy and the serial number of its purchase: new    *)
(* credentials, a changed modem address and a fresh sticky id are all new  *)
(* exits of a proxy that may be the same.                                  *)
(***************************************************************************)
EXTENDS Naturals, FiniteSets

CONSTANTS Pool,         \* the proxies the account owns in the wanted category
          ChangeLinks,  \* those whose modem has a change-ip link
          NoProxy,      \* proxy_pool_id not given; the source of no lease
          Pins          \* the proxy_pool_ids a request may name

ASSUME ProxyAssumption ==
    /\ NoProxy \notin Pool
    /\ ChangeLinks \subseteq Pool
    /\ Pins \subseteq Pool \cup {NoProxy}

Kinds == {"direct", "rotating", "static", "mobile", "mobile_shared", "prem"}

VARIABLES kind,         \* proxy_type, normalised to how it recovers
          pinned,       \* proxy_pool_id
          lease,        \* CyberYozhSession.lease
          exclude_ids,  \* CyberYozhSession.exclude_ids
          minted        \* exits bought so far

sessionVars == <<kind, pinned, lease, exclude_ids, minted>>

Exit == [source: Pool \cup {NoProxy}, serial: Nat]
NoLease == [source |-> NoProxy, serial |-> 0]

SessionTypeOK ==
    /\ kind \in Kinds
    /\ pinned \in Pins
    /\ lease \in Exit
    /\ exclude_ids \subseteq Pool
    /\ minted \in Nat

(***************************************************************************)
(* rotate_next over the proxies the API lists as active: the pinned one    *)
(* when it is among those not given up on, otherwise any of them (the code *)
(* takes the first of a list whose order is the provider's).               *)
(***************************************************************************)
Candidates(listed, wanted, excluded) ==
    LET available == listed \ excluded
    IN  IF wanted \in available THEN {wanted} ELSE available

Mint(source) ==
    /\ minted' = minted + 1
    /\ lease' = [source |-> source, serial |-> minted + 1]

\* The first lease. A direct session holds none and asks nobody; a premium
\* lease names the gateway rather than a proxy of the pool.
Acquire ==
    /\ UNCHANGED <<kind, pinned, exclude_ids>>
    /\ \/ kind = "direct" /\ UNCHANGED <<lease, minted>>
       \/ kind = "prem" /\ Mint(NoProxy)
       \/ /\ kind \notin {"direct", "prem"}
          /\ \E listed \in SUBSET Pool :
               \E source \in Candidates(listed, pinned, {}) : Mint(source)

-----------------------------------------------------------------------------
(***************************************************************************)
(* recover: what on_failure does. The answer is should_retry.              *)
(***************************************************************************)

(* The failed proxy is not excluded.                                       *)
MutGiven == exclude_ids

\* Static and mobile exits that failed are not asked for again. The exclusion
\* comes first, so a modem whose address is changed is excluded as well and
\* keeps being used only through the lease it already has.
Given == IF kind \in {"static", "mobile", "mobile_shared"} /\ lease.source \in Pool
         THEN exclude_ids \cup {lease.source} ELSE exclude_ids

CanChangeIp == kind = "mobile" /\ lease.source \in ChangeLinks

\* call_change_ip_link: the same lease, behind a new address.
ChangeIp ==
    /\ CanChangeIp
    /\ Mint(lease.source)

\* rotate_next: new credentials for a rotating pool (which excludes nothing),
\* another proxy for the others, after a change-ip call that failed too.
RotateNext ==
    /\ kind \in Kinds \ {"direct", "prem"}
    /\ \E listed \in SUBSET Pool :
         \E source \in Candidates(listed, pinned, Given) : Mint(source)

\* PremProxyProvider.recover: every lookup is cached, so it asks nobody and
\* cannot fail; a fresh sticky id, or a fresh connection, is the new exit.
Reconnect ==
    /\ kind = "prem"
    /\ Mint(NoProxy)

Recovered ==
    /\ exclude_ids' = Given
    /\ ChangeIp \/ RotateNext \/ Reconnect
    /\ UNCHANGED <<kind, pinned>>

\* Nothing left to rotate to, or the provider's API raised: the old lease and
\* should_retry False. DirectSession always answers this.
NotRecovered ==
    /\ kind # "prem"
    /\ exclude_ids' = Given
    /\ UNCHANGED <<kind, pinned, lease, minted>>
=============================================================================

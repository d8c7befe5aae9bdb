----------------------------- MODULE EgressProxy -----------------------------
(***************************************************************************)
(* The CONNECT proxy of one job (apps/control-plane/src/egress-proxy.js)   *)
(* and the destination policy it asks (src/net/destination-policy.js).     *)
(*                                                                         *)
(* The browser asks for a tunnel to a host; the proxy resolves the name,   *)
(* judges every answer and dials one of them.  What a name resolves to     *)
(* changes at any time, a client may go away in the middle, and the proxy  *)
(* may be closed.  A socket is destroyed in one turn of the event loop and *)
(* emits "close" in a later one.                                           *)
(***************************************************************************)
EXTENDS Naturals, FiniteSets

CONSTANTS
    Clients,       \* sockets of the browser that ask for a tunnel
    Hosts,         \* names and literals a CONNECT may ask for
    Contract,      \* the hosts whose exact https origin the job's contract lists
    Addresses,     \* addresses a lookup may answer with
    AddressOf,     \* the form of an address: its family and the block it is in
    MaxTunnels     \* opts.maxTunnels

VARIABLES
    resolver,      \* the answer each name has now: addresses, or a failure
    client,        \* the state of each client's socket
    ask,           \* the authority each client asks for
    found,         \* what the lookup of each request answered
    upstream,      \* the socket dialled for each client, and to what address
    admitted,      \* clients that tunnelCount counts
    tunnelCount,
    listening

egressVars == <<resolver, client, ask, found, upstream, admitted, tunnelCount, listening>>

NoAddress == "none"
Malformed == "malformed"       \* not a host and port 443 in authority form
Failure   == {"failed"}
Unasked   == {"unasked"}

-----------------------------------------------------------------------------
(* The destination policy.                                                 *)

(* Blocks whose v6 addresses carry a v4 address, which decides for them. *)
EmbedsIpv4 == {"v4-compatible", "v4-mapped", "nat64"}

(* classifyAddress: what does not parse is forbidden. *)
IsPublicAddress(a) ==
    LET form == AddressOf[a]
    IN  \/ form.family \in {"v4", "v6"} /\ form.block = "public"
        \/ form.family = "v6" /\ form.block \in EmbedsIpv4 /\ form.inner = "public"

(* A literal is its own answer. *)
Literal(h) == h \in Addresses

OriginAllowed(h) == h \in Contract

(* The plausible slip: one acceptable answer is enough. *)
CheckDestinationOfAny(h, answers) ==
    OriginAllowed(h) /\ answers # Failure /\ \E a \in answers : IsPublicAddress(a)

CheckDestination(h, answers) ==
    /\ OriginAllowed(h)
    /\ answers \notin {{}, Failure}
    /\ \A a \in answers : IsPublicAddress(a)

-----------------------------------------------------------------------------
TypeOK ==
    /\ resolver \in [Hosts -> (SUBSET Addresses) \cup {Failure}]
    /\ client \in [Clients -> {"none", "waiting", "open", "ended", "destroyed", "closed"}]
    /\ ask \in [Clients -> Hosts \cup {Malformed}]
    /\ found \in [Clients -> (SUBSET Addresses) \cup {Failure, Unasked}]
    /\ upstream \in [Clients -> [state : {"none", "dialling", "joined", "destroyed"},
                                 address : Addresses \cup {NoAddress}]]
    /\ admitted \subseteq Clients
    /\ tunnelCount \in 0..Cardinality(Clients)
    /\ listening \in BOOLEAN

Init ==
    /\ resolver \in [Hosts -> {{a} : a \in Addresses}]
    /\ \A h \in Hosts : Literal(h) => resolver[h] = {h}
    /\ client = [c \in Clients |-> "none"]
    /\ ask = [c \in Clients |-> Malformed]
    /\ found = [c \in Clients |-> Unasked]
    /\ upstream = [c \in Clients |-> [state |-> "none", address |-> NoAddress]]
    /\ admitted = {}
    /\ tunnelCount = 0
    /\ listening = TRUE

Live(c)         == client[c] \in {"waiting", "open", "ended"}
UpstreamLive(c) == upstream[c].state \in {"dialling", "joined"}
ProxyKept       == UNCHANGED <<resolver, listening>>
CountKept       == UNCHANGED <<admitted, tunnelCount>>

(* end(): the answer is written and the client closes when it likes; *)
(* nothing is written to a socket that is destroyed.                 *)
Ended(c)     == [client EXCEPT ![c] = IF Live(c) THEN "ended" ELSE @]
Destroyed(c) == [upstream EXCEPT ![c].state = IF UpstreamLive(c) THEN "destroyed" ELSE @]

-----------------------------------------------------------------------------
(* The names and the browser.                                              *)

AnswerChanges(h) ==
    /\ ~Literal(h)
    /\ \E answers \in (SUBSET Addresses) \cup {Failure} : resolver' = [resolver EXCEPT ![h] = answers]
    /\ UNCHANGED <<client, ask, found, upstream, listening>>
    /\ CountKept

(* The handler of "connect" up to its first await. *)
Connect(c, h) ==
    /\ listening
    /\ client[c] = "none"
    /\ \/ /\ tunnelCount >= MaxTunnels
          /\ client' = [client EXCEPT ![c] = "ended"]
          /\ UNCHANGED ask
          /\ CountKept
       \/ /\ tunnelCount < MaxTunnels
          /\ client' = [client EXCEPT ![c] = "waiting"]
          /\ ask' = [ask EXCEPT ![c] = h]
          /\ admitted' = admitted \cup {c}
          /\ tunnelCount' = tunnelCount + 1
    /\ UNCHANGED <<found, upstream>>
    /\ ProxyKept

ClientGoes(c) ==
    /\ Live(c)
    /\ client' = [client EXCEPT ![c] = "destroyed"]
    /\ UNCHANGED <<ask, found, upstream>>
    /\ CountKept
    /\ ProxyKept

(* The "close" event of the client's socket. *)
ClientCloses(c) ==
    /\ client[c] = "destroyed"
    /\ client' = [client EXCEPT ![c] = "closed"]
    /\ tunnelCount' = IF c \in admitted THEN tunnelCount - 1 ELSE tunnelCount
    /\ upstream' = Destroyed(c)
    /\ UNCHANGED <<ask, found, admitted>>
    /\ ProxyKept

-----------------------------------------------------------------------------
(* authorizeEgressConnect and what follows it.                             *)

AwaitsAnswer(c) ==
    /\ c \in admitted
    /\ found[c] = Unasked
    /\ upstream[c].state = "none"
    /\ client[c] # "ended"

(* The resolver answers with what the name has now, or the lookup runs *)
(* into its timeout; an authority that is refused asks nobody.         *)
Lookup(c) ==
    /\ AwaitsAnswer(c)
    /\ ask[c] # Malformed
    /\ OriginAllowed(ask[c])
    /\ \E answers \in {resolver[ask[c]], Failure} : found' = [found EXCEPT ![c] = answers]
    /\ UNCHANGED <<client, ask, upstream>>
    /\ CountKept
    /\ ProxyKept

Refuse(c) ==
    /\ \/ AwaitsAnswer(c) /\ (ask[c] = Malformed \/ ~OriginAllowed(ask[c]))
       \/ /\ found[c] # Unasked
          /\ upstream[c].state = "none"
          /\ client[c] # "ended"
          /\ ~CheckDestination(ask[c], found[c])
    /\ Live(c)
    /\ client' = Ended(c)
    /\ UNCHANGED <<ask, found, upstream>>
    /\ CountKept
    /\ ProxyKept

DialWithoutLooking(c) ==
    /\ found[c] # Unasked /\ upstream[c].state = "none" /\ client[c] # "ended"
    /\ CheckDestination(ask[c], found[c])
    /\ \E a \in found[c] : upstream' = [upstream EXCEPT ![c] = [state |-> "dialling", address |-> a]]
    /\ UNCHANGED <<client, ask, found>>
    /\ CountKept
    /\ ProxyKept

(* The first of the checked addresses is dialled, unless the client has *)
(* gone while the lookup was under way.                                 *)
Dial(c) ==
    /\ found[c] # Unasked /\ upstream[c].state = "none" /\ client[c] # "ended"
    /\ CheckDestination(ask[c], found[c])
    /\ Live(c)
    /\ \E a \in found[c] : upstream' = [upstream EXCEPT ![c] = [state |-> "dialling", address |-> a]]
    /\ UNCHANGED <<client, ask, found>>
    /\ CountKept
    /\ ProxyKept

UpstreamConnects(c) ==
    /\ upstream[c].state = "dialling"
    /\ \/ Live(c) /\ upstream' = [upstream EXCEPT ![c].state = "joined"]
                  /\ client' = [client EXCEPT ![c] = "open"]
       \/ ~Live(c) /\ upstream' = Destroyed(c) /\ UNCHANGED client
    /\ UNCHANGED <<ask, found>>
    /\ CountKept
    /\ ProxyKept

(* An error before the tunnel stands is answered 502, one after it *)
(* destroys the client; an upstream that ends also ends the client. *)
UpstreamStops(c) ==
    /\ UpstreamLive(c)
    /\ upstream' = Destroyed(c)
    /\ \/ client' = Ended(c)
       \/ /\ upstream[c].state = "joined" /\ Live(c)
          /\ client' = [client EXCEPT ![c] = "destroyed"]
    /\ UNCHANGED <<ask, found>>
    /\ CountKept
    /\ ProxyKept

(* close(): every socket in "active" is destroyed. *)
CloseProxy ==
    /\ listening
    /\ listening' = FALSE
    /\ client' = [c \in Clients |-> IF Live(c) THEN "destroyed" ELSE client[c]]
    /\ upstream' = [c \in Clients |-> Destroyed(c)[c]]
    /\ UNCHANGED <<resolver, ask, found>>
    /\ CountKept

Next ==
    \/ \E h \in Hosts : AnswerChanges(h)
    \/ \E c \in Clients :
          \/ \E h \in Hosts \cup {Malformed} : Connect(c, h)
          \/ ClientGoes(c) \/ ClientCloses(c)
          \/ Lookup(c) \/ Refuse(c) \/ Dial(c) \/ UpstreamConnects(c) \/ UpstreamStops(c)
    \/ CloseProxy

Spec == Init /\ [][Next]_egressVars

(* A tunnel goes to an address that this request's own lookup answered and *)
(* that was judged, all the answers being public, for an origin of the     *)
(* contract: the name is not resolved again between the check and the      *)
(* dial (egress-proxy.js:100).                                             *)
TunnelsArePinned ==
    \A c \in Clients : UpstreamLive(c) =>
        /\ ask[c] \in Contract
        /\ upstream[c].address \in found[c]
        /\ \A a \in found[c] : IsPublicAddress(a)

(* No upstream outlives its client or the proxy, and the count is that of  *)
(* the admitted clients whose sockets are not closed.                      *)
NoOrphanTunnel ==
    /\ \A c \in Clients : UpstreamLive(c) => listening /\ client[c] # "closed"
    /\ tunnelCount = Cardinality({c \in admitted : client[c] # "closed"})
    /\ tunnelCount <= MaxTunnels
EgressKept == TunnelsArePinned /\ NoOrphanTunnel
=============================================================================

----------------------------- MODULE Discovery -----------------------------
(***************************************************************************)
(* Peer discovery (discovery/): the address books of several nodes, the    *)
(* ADDR messages between them, and the bootstrap from three sources.       *)
(*                                                                         *)
(* Identities and socket addresses are numbers, for the order in which the *)
(* code sorts them.  A frame in flight is the list of entries of one ADDR  *)
(* message; frames of different connections arrive in any order, and a     *)
(* frame whose sending failed is never in flight.                          *)
(***************************************************************************)
EXTENDS Integers, Sequences, SequencesExt, FiniteSetsExt

CONSTANTS
    Peers,                  \* the nodes
    Ids,                    \* node_ids
    Sockets,                \* socket addresses
    Undialable,             \* port 0, unspecified or multicast
    OnWire,                 \* the address an entry carries: IPv6 without its scope
    Encounters,             \* who may meet whom, where
    max_count,              \* entries a node advertises
    MAX_ADDR_ENTRIES,       \* 1000
    MIN_BOOTSTRAP_PEERS,    \* 8
    SeedConfigs,            \* seed_config sections
    Resolutions,            \* what the resolver may do with the seed domains
    MaxFrames               \* bound on the messages sent

ASSUME DiscoveryAssumption ==
    /\ Ids \subseteq Nat /\ Sockets \subseteq Nat /\ Undialable \subseteq Sockets
    /\ OnWire \in [Sockets -> Sockets] /\ Encounters \subseteq Peers \X Ids \X Sockets
    /\ {max_count, MAX_ADDR_ENTRIES, MIN_BOOTSTRAP_PEERS, MaxFrames} \subseteq Nat

VARIABLES
    book,      \* AddrBook::entries of each node, a partial function of Ids
    frames,    \* ADDR messages sent: receiver, entries, whether it arrived
    origin     \* history: the entries nodes did not get by gossip

discovery_vars == <<book, frames, origin>>

(***************************************************************************)
(* AddrBook                                                                *)
(***************************************************************************)

insert_addr(entries, id, addr, verified) ==
    IF id \in DOMAIN entries THEN entries
    ELSE [i \in DOMAIN entries \cup {id} |->
            IF i = id THEN [addr |-> addr, verified |-> verified] ELSE entries[i]]

\* The entries with the smallest node_ids.
top_k_sorted(entries, k) ==
    LET ids == SetToSortSeq(DOMAIN entries, <)
    IN  [i \in 1 .. Min({k, Len(ids)}) |->
            [node_id |-> ids[i], addr |-> entries[ids[i]].addr]]

is_dialable(addr) == addr \notin Undialable

handle_addr_message(entries, message) ==
    FoldLeft(LAMBDA acc, x : IF is_dialable(x.addr)
                             THEN insert_addr(acc, x.node_id, x.addr, FALSE) ELSE acc,
             entries, message)

\* encode_addr, then parse_addr: a list that is too long is not sent.
Encodable(list) == Len(list) <= MAX_ADDR_ENTRIES
AddrMessage(list) ==
    [i \in DOMAIN list |-> [node_id |-> list[i].node_id, addr |-> OnWire[list[i].addr]]]

DiscoveryInit ==
    /\ book = [n \in Peers |-> <<>>]
    /\ frames = <<>>
    /\ origin = {}

\* A peer that completed its handshake enters the book, or is promoted there
\* by mark_verified.
Meet(n, id, addr) ==
    /\ book' = [book EXCEPT ![n] =
                  [insert_addr(@, id, addr, TRUE) EXCEPT ![id].verified = TRUE]]
    /\ origin' = IF id \in DOMAIN book[n] THEN origin ELSE origin \cup {<<n, id, addr>>}
    /\ UNCHANGED frames

\* broadcast_known_addrs: one payload for all; sending to some of them fails.
Broadcast(n, recipients, failed) ==
    LET list == top_k_sorted(book[n], max_count)
        reached == SetToSeq(recipients \ failed)
    IN  /\ recipients # {} /\ max_count # 0 /\ book[n] # <<>>
        /\ Encodable(list)
        /\ Len(frames) + Len(reached) <= MaxFrames
        /\ frames' = frames \o [i \in DOMAIN reached |->
              [to |-> reached[i], entries |-> AddrMessage(list), arrived |-> FALSE]]
        /\ UNCHANGED <<book, origin>>

Receive(i) ==
    /\ ~frames[i].arrived
    /\ frames' = [frames EXCEPT ![i].arrived = TRUE]
    /\ book' = [book EXCEPT ![frames[i].to] = handle_addr_message(@, frames[i].entries)]
    /\ UNCHANGED origin

DiscoveryNext ==
    \/ \E e \in Encounters : Meet(e[1], e[2], e[3])
    \/ \E n \in Peers : \E recipients \in SUBSET (Peers \ {n}) :
          \E failed \in SUBSET recipients : Broadcast(n, recipients, failed)
    \/ \E i \in DOMAIN frames : Receive(i)

(***************************************************************************)
(* bootstrap: the seeds of the configuration, the DNS seeds behind the     *)
(* DNSSEC gate, and the addresses learned by gossip.  A resolution maps a  *)
(* domain to an answer, or to a hang that uses up the budget.  The three   *)
(* sources share no state, so the order in which they end does not matter. *)
(***************************************************************************)
Seed(addr, source) == [node_id |-> 0, addr |-> addr, source |-> source]

\* Mutant: an answer is good as soon as it has addresses.
PolicyIgnoresProof(answer, required) == answer.addrs # {}

apply_dnssec_policy(answer, required) ==
    /\ answer.addrs # {}
    /\ required => answer.validated

\* One domain that fails, or hangs beyond the budget, fails the source.
dns_source(cfg, resolution) ==
    LET usable(d) == /\ ~resolution[d].hangs
                     /\ apply_dnssec_policy(resolution[d], cfg.dnssec_required)
        ok == \A d \in cfg.dns_seeds : usable(d)
    IN  [ok |-> ok,
         peers |-> IF ok THEN {Seed(addr, "Dns") :
                                  addr \in UNION {resolution[d].addrs : d \in cfg.dns_seeds}}
                   ELSE {}]

seed_sockets(cfg) == {Seed(addr, "HardCodedIp") : addr \in cfg.hard_coded_ips}

gossip_source(list) ==
    {[node_id |-> list[i].node_id, addr |-> list[i].addr, source |-> "AddrGossip"] :
        i \in {j \in DOMAIN list : is_dialable(list[j].addr)}}

\* The order of dedupe_sort at one address; of the identities advertised for
\* it the first in the list, which is sorted.
Stronger(x, y) ==
    \/ x.node_id # 0 /\ y.node_id = 0
    \/ x.node_id # 0 /\ y.node_id # 0 /\ x.node_id < y.node_id
    \/ x.node_id = 0 /\ y.node_id = 0 /\ x.source = "HardCodedIp" /\ y.source = "Dns"

dedupe_sort(all) == {x \in all : ~\E y \in all : y.addr = x.addr /\ Stronger(y, x)}

bootstrap(cfg, resolution, list) ==
    LET dns == dns_source(cfg, resolution)
        peers == dedupe_sort(seed_sockets(cfg) \cup gossip_source(list) \cup dns.peers)
    IN  [ok |-> Cardinality(peers) >= MIN_BOOTSTRAP_PEERS, peers |-> peers]

-----------------------------------------------------------------------------
\* Types; no message is longer than its receiver accepts.
DiscoveryTypeOK ==
    /\ \A n \in Peers :
          /\ DOMAIN book[n] \subseteq Ids
          /\ \A id \in DOMAIN book[n] : book[n][id] \in [addr: Sockets, verified: BOOLEAN]
    /\ \A i \in DOMAIN frames : Len(frames[i].entries) \in 1 .. MAX_ADDR_ENTRIES

\* AddrBook::insert: "a known address is not demoted back to verified = false
\* by gossip, and a stale gossip address never overwrites one we already
\* track": whatever arrives, in whatever order.
BookStable ==
    [][ \A n \in Peers : \A id \in DOMAIN book[n] :
          /\ id \in DOMAIN book'[n]
          /\ book'[n][id].addr = book[n][id].addr
          /\ book[n][id].verified => book'[n][id].verified ]_discovery_vars

\* n met id at addr itself, or some node did and the address can be dialled.
Genuine(n, id, addr) ==
    \/ <<n, id, addr>> \in origin
    \/ is_dialable(addr) /\ \E met \in origin : met[2] = id /\ OnWire[met[3]] = addr

Bootstraps(n, P(_, _, _)) ==
    \A cfg \in SeedConfigs, resolution \in Resolutions :
        P(cfg, resolution, top_k_sorted(book[n], max_count))

\* A bootstrap yields every address once, each from a source that may be believed: an
\* address of an answer without proof is there only when another source has it too,
\* and however often gossip passed an address on, it still belongs to the identity
\* some node met there.  The identity learned by gossip is kept.
BootstrapSound ==
    book # [n \in Peers |-> <<>>] => \A n \in Peers : Bootstraps(n,
        LAMBDA cfg, resolution, list :
            LET peers == bootstrap(cfg, resolution, list).peers
                proven == UNION {resolution[d].addrs : d \in
                            {c \in cfg.dns_seeds : resolution[c].validated \/ ~cfg.dnssec_required}}
            IN  /\ \A x, y \in peers : x.addr = y.addr => x = y
                /\ \A x \in peers :
                      \/ x.addr \in cfg.hard_coded_ips \cup proven
                      \/ Genuine(n, x.node_id, x.addr)
                /\ \A x \in peers : x.node_id # 0 => Genuine(n, x.node_id, x.addr)
                /\ \A e \in Range(list) : is_dialable(e.addr) =>
                      \E x \in peers : x.addr = e.addr /\ x.node_id # 0)

\* discovery/mod.rs: "no single poisoned channel can starve the node of peers":
\* seeds and gossip that suffice together suffice whatever DNS does.
DnsCannotStarve ==
    book # [n \in Peers |-> <<>>] => \A n \in Peers : Bootstraps(n,
        LAMBDA cfg, resolution, list :
            Cardinality(cfg.hard_coded_ips \cup {a \in {e.addr : e \in Range(list)} : is_dialable(a)})
                >= MIN_BOOTSTRAP_PEERS => bootstrap(cfg, resolution, list).ok)

=============================================================================

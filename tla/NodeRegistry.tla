---------------------------- MODULE NodeRegistry ----------------------------
(***************************************************************************)
(* The name <-> id registry of the service                                *)
(* (src/service/src/node_registry.rs, struct NodeRegistry).  register     *)
(* hands out dense ids 0, 1, 2, ... to new names and returns the stored   *)
(* id of a name seen before; the getters read the two maps.  Names and    *)
(* kinds are model values; last_id is the value the last register call    *)
(* returned.                                                              *)
(***************************************************************************)
EXTENDS Naturals, Sequences, FiniteSets, SequencesExt, Functions

CONSTANTS
    Name,    \* NodeName strings the callers use
    Kind,    \* NodeKind values
    NoId     \* None

ASSUME NoId \notin Nat

VARIABLES
    name_to_info,   \* HashMap<NodeName, NodeInfo>: name -> [id, kind]
    id_to_name,     \* Vec<NodeName>, id i at position i + 1
    next_id,        \* usize
    last_id         \* result of the last register call

rvars == <<name_to_info, id_to_name, next_id, last_id>>

\* NodeRegistry::new()
RInit ==
    /\ name_to_info = [n \in {} |-> [id |-> 0, kind |-> CHOOSE k \in Kind : TRUE]]
    /\ id_to_name = <<>>
    /\ next_id = 0
    /\ last_id = NoId

\* get_id(name)
GetId(name) == IF name \in DOMAIN name_to_info THEN name_to_info[name].id ELSE NoId

\* get_name(id): Vec::get, None past the end
GetName(id) == IF id \in Nat /\ id < Len(id_to_name) THEN id_to_name[id + 1] ELSE NoId

\* get_kind(name)
GetKind(name) == IF name \in DOMAIN name_to_info THEN name_to_info[name].kind ELSE NoId

\* get_kind_by_id(id)
GetKindById(id) == IF GetName(id) = NoId THEN NoId ELSE GetKind(GetName(id))

\* Mutant: the new id is read after next_id is incremented
RegisterIdAfterIncrement(name, kind) ==
    IF name \in DOMAIN name_to_info
    THEN /\ last_id' = name_to_info[name].id
         /\ UNCHANGED <<name_to_info, id_to_name, next_id>>
    ELSE /\ next_id' = next_id + 1
         /\ name_to_info' = name_to_info @@ (name :> [id |-> next_id + 1, kind |-> kind])
         /\ id_to_name' = Append(id_to_name, name)
         /\ last_id' = next_id + 1

\* Mutant: a known name is inserted again instead of returning its id
RegisterNoLookup(name, kind) ==
    /\ next_id' = next_id + 1
    /\ name_to_info' = (name :> [id |-> next_id, kind |-> kind]) @@ name_to_info
    /\ id_to_name' = Append(id_to_name, name)
    /\ last_id' = next_id

\* Mutant: a known name returns next_id instead of its stored id
RegisterReturnNextId(name, kind) ==
    IF name \in DOMAIN name_to_info
    THEN /\ last_id' = next_id
         /\ UNCHANGED <<name_to_info, id_to_name, next_id>>
    ELSE /\ next_id' = next_id + 1
         /\ name_to_info' = name_to_info @@ (name :> [id |-> next_id, kind |-> kind])
         /\ id_to_name' = Append(id_to_name, name)
         /\ last_id' = next_id

\* Mutant: a known name has its kind overwritten (HashMap::insert first)
RegisterUpdateKind(name, kind) ==
    IF name \in DOMAIN name_to_info
    THEN /\ last_id' = name_to_info[name].id
         /\ name_to_info' = [name_to_info EXCEPT ![name].kind = kind]
         /\ UNCHANGED <<id_to_name, next_id>>
    ELSE /\ next_id' = next_id + 1
         /\ name_to_info' = name_to_info @@ (name :> [id |-> next_id, kind |-> kind])
         /\ id_to_name' = Append(id_to_name, name)
         /\ last_id' = next_id

\* register(name, kind): a known name returns its id (the kind passed is
\* ignored); a new name takes next_id, which is then incremented
Register(name, kind) ==
    IF name \in DOMAIN name_to_info
    THEN /\ last_id' = name_to_info[name].id
         /\ UNCHANGED <<name_to_info, id_to_name, next_id>>
    ELSE /\ next_id' = next_id + 1
         /\ name_to_info' = name_to_info @@ (name :> [id |-> next_id, kind |-> kind])
         /\ id_to_name' = Append(id_to_name, name)
         /\ last_id' = next_id

RNext == \E n \in Name, k \in Kind : Register(n, k)

RSpec == RInit /\ [][RNext]_rvars

-----------------------------------------------------------------------------
(* Properties                                                              *)

RegistryTypeOK ==
    /\ DOMAIN name_to_info \subseteq Name
    /\ \A n \in DOMAIN name_to_info : name_to_info[n] \in [id : Nat, kind : Kind]
    /\ id_to_name \in Seq(Name)
    /\ next_id \in Nat
    /\ last_id \in (0 .. next_id - 1) \cup {NoId}

\* The two maps of the registry stay inverse to each other and the ids
\* dense, over any sequence of register calls: every id below next_id
\* names a registered name whose info carries that id, and every
\* registered name is found again by get_name(get_id(name)).
RegistryBijective ==
    /\ next_id = Len(id_to_name)
    /\ Cardinality(DOMAIN name_to_info) = next_id
    /\ \A i \in 0 .. next_id - 1 : GetId(GetName(i)) = i
    /\ \A n \in DOMAIN name_to_info : GetName(GetId(n)) = n

\* The id register returns is the id get_id gives for that name afterwards
\* and get_name maps it back, whether the name was new or known.
RegisterReturnsStoredId ==
    [][\A n \in Name, k \in Kind :
         Register(n, k) => /\ last_id' = GetId(n)'
                           /\ GetName(last_id)' = n]_rvars

\* A node keeps the kind of its first registration: no register call
\* changes the kind get_kind_by_id reports for an existing id (apply_score
\* clustering and fetch_all_scores rely on the kind of an id being stable).
KindStable ==
    [][\A i \in 0 .. next_id - 1 : GetKindById(i)' = GetKindById(i)]_rvars

=============================================================================

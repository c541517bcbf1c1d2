-------------------------------- MODULE Groups --------------------------------
(***************************************************************************)
(* Groups of players, NPCs and pets: GroupManager                          *)
(* (common/src/comp/group.rs) with the handlers that drive it, group_manip *)
(* (invite, accept, decline, leave, kick, assign leader), invite_timeout,  *)
(* taming, the deletion of entities and players who leave the game world   *)
(* or come back to it.                                                     *)
(*                                                                         *)
(* The server runs these one after the other in its main loop, so each is  *)
(* one action; what is hard is their order, chosen by many players.  The   *)
(* state is that of the entities' components and of the slab of groups,    *)
(* kept in agreement by nothing but the handlers.  Events of an entity     *)
(* that was deleted before its turn find no component and do nothing.      *)
(***************************************************************************)
EXTENDS Integers, FiniteSets, Functions

CONSTANTS ENTITY,       \* the entities there may be
          Casts,        \* what they may be at the start: players in the game,
                        \* NPCs, wild animals or not created yet
          MaxGroups,    \* bound: entries of the slab
          GroupSizes,   \* what max_player_group_size may be set to
          Followed,     \* bound: the irregular events that may happen
          Nobody        \* no entity

ASSUME GroupsAssumption ==
    /\ Casts \subseteq [ENTITY -> {"player", "npc", "wild", "unborn"}]
    /\ \A cast \in Casts : IsFiniteSet({e \in ENTITY : cast[e] # "unborn"})
    /\ MaxGroups \in Nat \ {0}
    /\ GroupSizes \subseteq Nat
    /\ Nobody \notin ENTITY

(* Values of Group: a key of the slab (one more than in the code), or the  *)
(* group of all NPCs, which is none of them.  NoGroup is the absence of    *)
(* the component.                                                          *)
GROUP    == Nat \ {0}
NoGroup  == 0
NpcGroup == -1

VARIABLES
    max_group_size, \* the setting max_player_group_size
    alive,      \* the entities that exist
    client,     \* those with a Client component
    uid,        \* their Uid, named after the entity that got it first
    kind,       \* their Alignment: owned, npc, wild, none
    owner,      \* the Uid of Alignment::Owned
    groups,     \* their Group component
    slab,       \* GroupManager.groups
    invite,     \* Invite: who invited an entity
    pending,    \* PendingInvites: whom an entity has invited
    irregular   \* history: what has happened that upsets the bookkeeping

bodies  == <<max_group_size, alive, client, uid, kind, owner>>
manager == <<groups, slab>>
invites == <<invite, pending>>
vars    == <<bodies, manager, invites, irregular>>

Init ==
    \E cast \in Casts :
        LET players == {e \in ENTITY : cast[e] = "player"}
            born    == {e \in ENTITY : cast[e] # "unborn"}
        IN  /\ max_group_size \in GroupSizes
            /\ alive = born
            /\ client = players
            /\ uid = [e \in ENTITY |-> IF e \in born THEN e ELSE Nobody]
            /\ kind = [e \in ENTITY |-> IF e \in players THEN "owned"
                                       ELSE IF e \in born THEN cast[e] ELSE "none"]
            /\ owner = [e \in ENTITY |-> IF e \in players THEN e ELSE Nobody]
            /\ groups = [e \in ENTITY |-> IF cast[e] = "npc" THEN NpcGroup ELSE NoGroup]
            /\ slab = <<>>
            /\ invite = [e \in ENTITY |-> Nobody]
            /\ pending = [e \in ENTITY |-> {}]
            /\ irregular = {}
-----------------------------------------------------------------------------
(* Some events upset the bookkeeping; only those of Followed are let be.   *)
Happens(events) ==
    /\ events \subseteq Followed
    /\ irregular' = irregular \cup events

(* A player in the game world owns itself.                                 *)
InGame(e) == e \in alive \cap client /\ kind[e] = "owned"

IsPet(e) == kind[e] = "owned" /\ owner[e] # uid[e]

Pets(e) == {p \in alive \ {e} : kind[p] = "owned" /\ owner[p] = uid[e]}

(* The operations of GroupManager compute a new state w of its two         *)
(* variables from an old one.                                              *)
Now == [groups |-> groups, slab |-> slab]

Becomes(w) == groups' = w.groups /\ slab' = w.slab

(* members: only entities with an Alignment are found.                     *)
Members(w, g) == {e \in alive : w.groups[e] = g /\ kind[e] # "none"}

Leads(w, e) == w.groups[e] \in DOMAIN w.slab /\ w.slab[w.groups[e]].leader = e

Put(w, es, g) ==
    [groups |-> [e \in ENTITY |-> IF e \in es THEN g ELSE w.groups[e]], slab |-> w.slab]

(* Keys the slab does not use, at least n.  Which one it gives out makes   *)
(* no difference.                                                          *)
Vacant(w, n) == (1 .. Cardinality(DOMAIN w.slab) + n) \ DOMAIN w.slab

(* The slab with new entries, of keys that were vacant.                    *)
Entered(w, new) ==
    [k \in DOMAIN w.slab \cup DOMAIN new |-> IF k \in DOMAIN new THEN new[k] ELSE w.slab[k]]

(* create_group, with the entities that are put into it at once.           *)
Create(w, l, n, es) ==
    LET g == CHOOSE k \in Vacant(w, 1) : TRUE
        new == [k \in {g} |-> [leader |-> l, num_members |-> n]]
    IN  Put([groups |-> w.groups, slab |-> Entered(w, new)], es, g)

(* remove_group *)
Free(w, g) == [groups |-> w.groups, slab |-> Restrict(w.slab, DOMAIN w.slab \ {g})]

(* The number of members of a group is set.                                *)
Count(w, g, n) ==
    [groups |-> w.groups, slab |-> [w.slab EXCEPT ![g].num_members = n]]
-----------------------------------------------------------------------------
(* remove_from_group for a leader: the group ends.  Every player left with *)
(* pets starts a group of its own with them, all others have none.         *)
Disband(w, m, deleted) ==
    LET g       == w.groups[m]
        rest    == {e \in alive : w.groups[e] = g} \ (IF deleted THEN {m} ELSE {})
        with(o) == {o} \cup {p \in rest : IsPet(p) /\ owner[p] = uid[o]}
        keepers == {o \in rest : ~IsPet(o) /\ with(o) # {o}}
        freed   == Free(w, g)
        key     == CHOOSE k \in Injection(keepers, Vacant(freed, Cardinality(keepers))) : TRUE
        new     == [k \in {key[o] : o \in keepers} |->
                       [leader |-> CHOOSE o \in keepers : key[o] = k, num_members |-> 1]]
        joins(e) == {o \in keepers : e \in with(o)}
    IN  [groups |-> [e \in ENTITY |-> IF e \notin rest THEN w.groups[e]
                                     ELSE IF joins(e) = {} THEN NoGroup
                                     ELSE key[CHOOSE o \in joins(e) : TRUE]],
         slab   |-> Entered(freed, new)]

(* Mutant: members who are pets are counted off as well.                   *)
LessOneAlways(m, n) == IF n > 0 THEN n - 1 ELSE 0

(* A pet was never counted.                                                *)
LessOne(m, n) == IF IsPet(m) \/ n = 0 THEN n ELSE n - 1

(* One entity is no group.  The code takes it for the leader.              *)
Disbands(w, g) == Cardinality(Members(w, g)) = 1

(* remove_from_group for anybody else: it takes its pets with it.          *)
Depart(w, m, deleted) ==
    LET g    == w.groups[m]
        pets == Pets(m)
        left == IF pets # {} /\ ~deleted THEN Create(w, m, 1, {m} \cup pets)
                ELSE Put(w, {m} \cup pets, NoGroup)
        rest == Count(left, g, LessOne(m, left.slab[g].num_members))
    IN  IF g \notin DOMAIN w.slab THEN left
        ELSE IF Disbands(rest, g)
             THEN Put(Free(rest, g), {rest.slab[g].leader}, NoGroup)
             ELSE rest

RemoveFromGroup(w, m, deleted) ==
    IF w.groups[m] = NoGroup THEN w
    ELSE IF Leads(w, m) THEN Disband(w, m, deleted)
    ELSE Depart(w, m, deleted)

(* leave_group: pets stay, NPCs return to theirs.                          *)
LeaveGroup(w, m) ==
    IF IsPet(m) THEN w
    ELSE LET left == RemoveFromGroup(w, m, FALSE)
         IN  IF kind[m] = "npc" THEN Put(left, {m}, NpcGroup) ELSE left

(* A newcomer first leaves the group it is in.                             *)
FreeOfGroup(w, n) == IF w.groups[n] \in DOMAIN w.slab THEN LeaveGroup(w, n) ELSE w

(* add_group_member: the newcomer n and its pets join the group l leads;   *)
(* if there is none, l leaves the one it is in and founds it.              *)
AddGroupMember(w, l, n) ==
    LET free   == FreeOfGroup(w, n)
        alone  == IF free.groups[l] = NoGroup THEN free ELSE LeaveGroup(free, l)
        joined == IF Leads(free, l)
                  THEN Count(free, free.groups[l], free.slab[free.groups[l]].num_members + 1)
                  ELSE Create(alone, l, 2, {l})
    IN  Put(joined, {n} \cup Pets(n), joined.groups[l])

(* new_pet *)
NewPet(w, p, o) ==
    IF w.groups[o] = NoGroup THEN Create(w, o, 1, {o, p}) ELSE Put(w, {p}, w.groups[o])
-----------------------------------------------------------------------------
(* Bound: an operation founds at most one group for every owner of pets,   *)
(* and one more.                                                           *)
Room == Cardinality(DOMAIN slab) + Cardinality({e \in alive : Pets(e) # {}}) < MaxGroups

GroupSize(e) == IF Leads(Now, e) THEN slab[groups[e]].num_members ELSE 1

(* Mutant: invites that are still out are not counted.                     *)
InviteFitsNow(e) == GroupSize(e) < max_group_size

(* The size of the group with the invites that are still out.              *)
InviteFits(e) == GroupSize(e) + Cardinality(pending[e]) < max_group_size

Invite(x, y) ==
    /\ InGame(x)
    /\ y \in alive
    /\ uid[y] # uid[x]
    /\ ~(Leads(Now, x) /\ groups[y] = groups[x])
    /\ InviteFits(x)
    /\ invite[y] = Nobody
    /\ invite' = [invite EXCEPT ![y] = x]
    /\ pending' = [pending EXCEPT ![x] = @ \cup {y}]
    /\ UNCHANGED <<bodies, manager, irregular>>

(* Mutant: the inviter keeps it on its list.                               *)
WithdrawHalf(y) ==
    /\ invite' = [invite EXCEPT ![y] = Nobody]
    /\ UNCHANGED pending

(* Accept, Decline and the timeout take the Invite of y back.              *)
Withdraw(y) ==
    /\ invite' = [invite EXCEPT ![y] = Nobody]
    /\ pending' = [x \in ENTITY |-> IF x = invite[y] THEN pending[x] \ {y} ELSE pending[x]]

(* What an Accept upsets: a pet of the inviter stays in the group that     *)
(* leave_group has just made for it, when add_group_member makes another.  *)
LeavesPetsBehind(l) == groups[l] # NoGroup /\ ~Leads(Now, l) /\ Pets(l) # {}

(* Players accept as they like, NPCs always (agent.rs).                    *)
Accept(y) ==
    /\ InGame(y) \/ (y \in alive /\ kind[y] = "npc")
    /\ invite[y] # Nobody
    /\ Withdraw(y)
    /\ Room
    /\ IF y \in pending[invite[y]]
       THEN /\ Becomes(AddGroupMember(Now, invite[y], y))
            /\ Happens(IF LeavesPetsBehind(invite[y]) THEN {"pets left behind"} ELSE {})
       ELSE UNCHANGED <<manager, irregular>>
    /\ UNCHANGED bodies

Decline(y) ==
    /\ InGame(y) \/ (y \in alive \ client /\ kind[y] # "npc")
    /\ invite[y] # Nobody
    /\ Withdraw(y)
    /\ UNCHANGED <<bodies, manager, irregular>>

(* invite_timeout: only invites their inviter remembers are looked at.     *)
InviteTimeout(y) ==
    /\ invite[y] # Nobody
    /\ y \in pending[invite[y]]
    /\ Withdraw(y)
    /\ UNCHANGED <<bodies, manager, irregular>>

Leave(x) ==
    /\ InGame(x)
    /\ Room
    /\ Becomes(LeaveGroup(Now, x))
    /\ UNCHANGED <<bodies, invites, irregular>>

(* y is in a group that x leads.                                           *)
LedBy(x, y) ==
    /\ groups[y] \in DOMAIN slab
    /\ slab[groups[y]].leader = x

Kick(x, y) ==
    /\ InGame(x)
    /\ y \in alive
    /\ ~IsPet(y)
    /\ uid[y] # uid[x]
    /\ LedBy(x, y)
    /\ Room
    /\ Becomes(LeaveGroup(Now, y))
    /\ UNCHANGED <<bodies, invites, irregular>>

(* Leadership may also go to a pet, or to somebody with invites out.       *)
AssignLeader(x, y) ==
    /\ InGame(x)
    /\ y \in alive
    /\ LedBy(x, y)
    /\ slab' = [slab EXCEPT ![groups[y]].leader = y]
    /\ Happens((IF IsPet(y) THEN {"pet leads"} ELSE {}) \cup
               (IF y # x /\ pending[y] # {} THEN {"invites out"} ELSE {}))
    /\ UNCHANGED <<bodies, groups, invites>>

Tame(x, y) ==
    /\ InGame(x)
    /\ y \in alive
    /\ kind[y] = "wild"
    /\ Cardinality(Pets(x)) < 3
    /\ Room
    /\ kind' = [kind EXCEPT ![y] = "owned"]
    /\ owner' = [owner EXCEPT ![y] = uid[x]]
    /\ Becomes(NewPet(Now, y, x))
    /\ UNCHANGED <<max_group_size, alive, client, uid, invites, irregular>>
-----------------------------------------------------------------------------
(* delete_entity_recorded: a player disconnects, an NPC or a pet is killed *)
(* or its chunk is unloaded.                                               *)
Delete(e) ==
    /\ e \in alive
    /\ Room
    /\ Becomes(Put(RemoveFromGroup(Now, e, TRUE), {e}, NoGroup))
    /\ alive' = alive \ {e}
    /\ client' = client \ {e}
    /\ kind' = [kind EXCEPT ![e] = "none"]
    /\ owner' = [owner EXCEPT ![e] = Nobody]
    /\ invite' = [invite EXCEPT ![e] = Nobody]
    /\ pending' = [pending EXCEPT ![e] = {}]
    /\ UNCHANGED <<max_group_size, uid, irregular>>

(* Mutant: the old entity keeps its Client.                                *)
ClientStays(x, n) == client' = client \cup {n}

ClientMoves(x, n) == client' = (client \ {x}) \cup {n}

(* handle_exit_ingame: a new entity n takes over the Client, the Uid and   *)
(* the Group of x, and leads in its place, but it has no Alignment.        *)
ExitIngame(x, n) ==
    /\ InGame(x)
    /\ uid[n] = Nobody
    /\ alive' = (alive \ {x}) \cup {n}
    /\ ClientMoves(x, n)
    /\ uid' = [uid EXCEPT ![n] = uid[x]]
    /\ kind' = [kind EXCEPT ![x] = "none"]
    /\ owner' = [owner EXCEPT ![x] = Nobody]
    /\ groups' = [groups EXCEPT ![n] = groups[x], ![x] = NoGroup]
    /\ slab' = IF Leads(Now, x) THEN [slab EXCEPT ![groups[x]].leader = n] ELSE slab
    /\ invite' = [invite EXCEPT ![x] = Nobody]
    /\ pending' = [pending EXCEPT ![x] = {}]
    /\ Happens(IF groups[x] # NoGroup THEN {"absent member"} ELSE {})
    /\ UNCHANGED max_group_size

(* initialize_character_data: a player in the lobby enters the game world. *)
EnterGame(x) ==
    /\ x \in alive \cap client
    /\ kind[x] = "none"
    /\ kind' = [kind EXCEPT ![x] = "owned"]
    /\ owner' = [owner EXCEPT ![x] = uid[x]]
    /\ UNCHANGED <<max_group_size, alive, client, uid, manager, invites, irregular>>

Next ==
    \/ \E x, y \in ENTITY :
          \/ Invite(x, y)
          \/ Kick(x, y)
          \/ AssignLeader(x, y)
          \/ Tame(x, y)
          \/ ExitIngame(x, y)
    \/ \E x \in ENTITY :
          \/ Accept(x)
          \/ Decline(x)
          \/ InviteTimeout(x)
          \/ Leave(x)
          \/ Delete(x)
          \/ EnterGame(x)

Spec == Init /\ [][Next]_vars
-----------------------------------------------------------------------------
TypeOK ==
    /\ max_group_size \in GroupSizes
    /\ alive \subseteq ENTITY /\ IsFiniteSet(alive) /\ client \subseteq alive
    /\ uid \in [ENTITY -> ENTITY \cup {Nobody}]
    /\ kind \in [ENTITY -> {"owned", "npc", "wild", "none"}]
    /\ owner \in [ENTITY -> ENTITY \cup {Nobody}]
    /\ groups \in [ENTITY -> GROUP \cup {NoGroup, NpcGroup}]
    /\ DOMAIN slab \subseteq GROUP /\ IsFiniteSet(DOMAIN slab)
    /\ slab \in [DOMAIN slab -> [leader : ENTITY, num_members : Nat]]
    /\ invite \in [ENTITY -> ENTITY \cup {Nobody}]
    /\ pending \in [ENTITY -> SUBSET ENTITY]
    /\ \A e \in ENTITY : IsFiniteSet(pending[e])
    /\ irregular \subseteq {"pets left behind", "pet leads", "invites out", "absent member"}

(* The groups that somebody is in.                                         *)
LiveGroups == {groups[e] : e \in alive} \cap GROUP

(* A Group component names a group that GroupManager has.                  *)
NoneDangling == LiveGroups \subseteq DOMAIN slab

(* Who is in a group, and what is to be known about it.                    *)
Inside(g) == {e \in alive : groups[e] = g}

GroupsAgree ==
    /\ NoneDangling
    /\ \A g \in LiveGroups :
          LET counted == {e \in Inside(g) : ~IsPet(e)}
          IN  /\ Cardinality(Inside(g)) >= 2
              /\ slab[g].leader \in counted
              /\ slab[g].num_members = Cardinality(counted)
    /\ \A p, o \in alive : IsPet(p) /\ owner[p] = uid[o] => groups[p] = groups[o]

(* Groups stay what they are said to be as long as no member leaves the    *)
(* game world, no pet is made leader and no inviter's pets are left        *)
(* behind: their ids are valid, a group has at least two entities and is   *)
(* led by one of them, num_members counts all of them but the pets, and    *)
(* pets are in the group of their owner.                                   *)
Intact == irregular \subseteq {"invites out"} => GroupsAgree

(* No group outgrows max_player_group_size, whoever accepts what when,     *)
(* unless somebody with invites out is made the leader of a group.  (A     *)
(* player alone with its pets is a group of one, whatever the limit.)      *)
WithinLimit ==
    irregular = {} =>
        \A g \in DOMAIN slab : slab[g].num_members > 1 => slab[g].num_members <= max_group_size

(* Invite and PendingInvites agree about all entities that still exist.    *)
InvitesAgree ==
    \A x, y \in alive : (invite[y] = x) <=> (y \in pending[x])
=============================================================================

------------------------------ MODULE Characters ------------------------------
(***************************************************************************)
(* The characters in the database and the two threads that work on it      *)
(* (server/src/persistence/character.rs): CharacterLoader answers the      *)
(* requests of clients one after the other, CharacterUpdater writes what   *)
(* the server saves.  Each has its own queue; only transactions order what *)
(* one does against the other.                                             *)
(*                                                                         *)
(* All that is stored of a character is one number, its progress.          *)
(***************************************************************************)
EXTENDS Naturals, FiniteSets, SequencesExt

CONSTANTS ACCOUNT,          \* players, by uuid
          MAX_CHARACTERS_PER_PLAYER,
          MaxCharacter,     \* bound: ids of characters
          MaxProgress,      \* bound: progress of a character
          MaxRequests,      \* bound: requests that clients have with the loader
          MaxSaves          \* bound: batches waiting when another may be added

ASSUME CharactersAssumption ==
    /\ {MAX_CHARACTERS_PER_PLAYER, MaxCharacter, MaxProgress, MaxRequests, MaxSaves} \subseteq Nat
    /\ 0 \notin ACCOUNT

CHARACTER == 1 .. MaxCharacter
NoCharacter == 0
Nobody == 0     \* an entity that has been deleted
NoRow == <<>>

VARIABLES db,           \* the tables, joined: owner and progress
          requests,     \* CharacterLoader.update_tx
          checked,      \* create_character has passed check_character_limit
          responses,    \* CharacterLoader.update_rx, the answers with data
          saves,        \* CharacterUpdater.update_tx: batches, sets of updates
          raced         \* history: characters read while a save of them waited

store == <<db, requests, checked, responses, saves, raced>>

Row == [owner : ACCOUNT, progress : 0 .. MaxProgress]
Update == [id : CHARACTER, progress : 0 .. MaxProgress]

Request ==
    [entity : Nat, what : {"load"}, account : ACCOUNT \cup {0}, id : CHARACTER]
        \cup [entity : Nat, what : {"delete"}, account : ACCOUNT, id : CHARACTER]
        \cup [entity : Nat, what : {"create"}, account : ACCOUNT]
Answer == [entity : Nat, id : CHARACTER, row : Row \cup {NoRow}]

Stored(rows) == {id \in CHARACTER : rows[id] # NoRow}
OwnedBy(rows, account) == {id \in Stored(rows) : rows[id].owner = account}
CharactersOf(account) == OwnedBy(db, account)

(* The row id that sqlite gives out: one more than the largest.            *)
NextId(rows) == CHOOSE id \in 1 .. MaxCharacter + 1 :
                    /\ \A used \in Stored(rows) : used < id
                    /\ id = 1 \/ id - 1 \in Stored(rows)

Saving(id) == \E i \in DOMAIN saves : \E update \in saves[i] : update.id = id

(* Mutant: the queue is a stack.                                           *)
SaveFirst(batch) == saves' = IF batch = {} THEN saves ELSE <<batch>> \o saves

(* CharacterUpdater::batch_update; a batch without updates writes nothing. *)
Save(batch) == saves' = IF batch = {} THEN saves ELSE Append(saves, batch)

Answered == requests' = Tail(requests)
-----------------------------------------------------------------------------
(* load_character_data: finds the character only if the player owns it.    *)
LoadCharacterData ==
    /\ requests # <<>>
    /\ LET request == Head(requests)
           row     == IF request.id \in CharactersOf(request.account) THEN db[request.id] ELSE NoRow
       IN  /\ request.what = "load"
           /\ responses' = Append(responses, [entity |-> request.entity, id |-> request.id, row |-> row])
           /\ raced' = IF row = NoRow THEN raced
                       ELSE IF Saving(request.id) THEN raced \cup {request.id}
                       ELSE raced \ {request.id}
    /\ Answered
    /\ UNCHANGED <<db, checked, saves>>

(* The same when there is no connection to the database.                   *)
LoadFails ==
    /\ requests # <<>>
    /\ Head(requests).what = "load"
    /\ responses' = Append(responses, [entity |-> Head(requests).entity, id |-> Head(requests).id, row |-> NoRow])
    /\ Answered
    /\ UNCHANGED <<db, checked, saves, raced>>

(* Mutant: one more than the limit.                                        *)
AtLimit(account) == Cardinality(CharactersOf(account)) <= MAX_CHARACTERS_PER_PLAYER

BelowLimit(account) == Cardinality(CharactersOf(account)) < MAX_CHARACTERS_PER_PLAYER

(* check_character_limit, over a connection of its own.                    *)
CheckCharacterLimit ==
    /\ requests # <<>>
    /\ Head(requests).what = "create"
    /\ ~checked
    /\ IF BelowLimit(Head(requests).account)
       THEN checked' = TRUE /\ UNCHANGED requests
       ELSE Answered /\ UNCHANGED checked
    /\ UNCHANGED <<db, responses, saves, raced>>

(* The transaction of create_character.                                    *)
CreateCharacter ==
    /\ checked
    /\ db' = [db EXCEPT ![NextId(db)] = [owner |-> Head(requests).account, progress |-> 0]]
    /\ checked' = FALSE
    /\ Answered
    /\ UNCHANGED <<responses, saves, raced>>

DeleteCharacter ==
    /\ requests # <<>>
    /\ Head(requests).what = "delete"
    /\ db' = IF Head(requests).id \in CharactersOf(Head(requests).account)
             THEN [db EXCEPT ![Head(requests).id] = NoRow] ELSE db
    /\ Answered
    /\ UNCHANGED <<checked, responses, saves, raced>>

(* Mutant: updates of rows that are not there insert them.                 *)
Upserted(row, updates) ==
    IF updates = {} THEN row ELSE [owner |-> NoCharacter, progress |-> (CHOOSE u \in updates : TRUE).progress]

(* update: of a row that is not there it changes nothing.                  *)
Updated(row, updates) ==
    IF row = NoRow \/ updates = {} THEN row
    ELSE [row EXCEPT !.progress = (CHOOSE u \in updates : TRUE).progress]

(* batch_update, in one transaction                                        *)
BatchUpdate ==
    /\ saves # <<>>
    /\ db' = [id \in CHARACTER |-> Updated(db[id], {u \in Head(saves) : u.id = id})]
    /\ saves' = Tail(saves)
    /\ UNCHANGED <<requests, checked, responses, raced>>

(* No connection, or the transaction fails: the batch is only logged.      *)
BatchFails ==
    /\ saves # <<>>
    /\ saves' = Tail(saves)
    /\ UNCHANGED <<db, requests, checked, responses, raced>>

LoaderStep == LoadCharacterData \/ CheckCharacterLimit \/ CreateCharacter \/ DeleteCharacter
-----------------------------------------------------------------------------
StoreOK ==
    /\ db \in [CHARACTER -> Row \cup {NoRow}]
    /\ requests \in Seq(Request)
    /\ responses \in Seq(Answer)
    /\ saves \in Seq(SUBSET Update)
    /\ checked \in BOOLEAN
    /\ raced \subseteq CHARACTER

(* No player ever has more characters than the limit: the check and the    *)
(* creation are not one transaction, but only the loader creates any.      *)
CharacterLimit ==
    \A account \in ACCOUNT : Cardinality(CharactersOf(account)) <= MAX_CHARACTERS_PER_PLAYER
=============================================================================

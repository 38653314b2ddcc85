------------------------------ MODULE EnvStore ------------------------------
(***************************************************************************)
(* What export, unset and cd promise together: every name has one value,   *)
(* or is exported without a value, or is not known; and a change of        *)
(* directory records the directory left and the one entered.               *)
(***************************************************************************)
CONSTANTS Names, Values, Dirs, PWD, OLDPWD,
          NoValue,   \* what an unknown name has, and where the shell is
                     \* when its directory has been removed
          Declared   \* what a name exported without a value has

VARIABLES
  store,       \* what each name has
  here,        \* the working directory
  moving       \* a cd has left a directory and not yet recorded the new one

storeVars == <<store, here, moving>>

StoreInit ==
  /\ store \in [Names -> Values \cup {NoValue}]
  /\ here \in Dirs
  /\ moving = FALSE

Assign(n, v) ==
  /\ ~moving
  /\ store' = [store EXCEPT ![n] = v]
  /\ UNCHANGED <<here, moving>>

Declare(n) ==
  /\ ~moving
  /\ store[n] = NoValue
  /\ store' = [store EXCEPT ![n] = Declared]
  /\ UNCHANGED <<here, moving>>

Erase(n) ==
  /\ ~moving
  /\ store' = [store EXCEPT ![n] = NoValue]
  /\ UNCHANGED <<here, moving>>

(* OLDPWD gets the value of PWD, when it has one. *)
Leave(d) ==
  /\ ~moving
  /\ here' = d
  /\ store' = [store EXCEPT ![OLDPWD] =
                 IF store[PWD] \in Values THEN store[PWD] ELSE @]
  /\ moving' = TRUE

(* PWD gets the directory, unless it has been removed. *)
Arrive ==
  /\ moving
  /\ store' = [store EXCEPT ![PWD] = IF here \in Dirs THEN here ELSE @]
  /\ moving' = FALSE
  /\ UNCHANGED here

Removed ==
  /\ here' = NoValue
  /\ UNCHANGED <<store, moving>>

StoreNext ==
  \/ \E n \in Names : \/ \E v \in Values : Assign(n, v)
                      \/ Declare(n)
                      \/ Erase(n)
  \/ \E d \in Dirs \cup {here} : Leave(d)
  \/ Arrive
  \/ Removed

StoreSpec == StoreInit /\ [][StoreNext]_storeVars

=============================================================================

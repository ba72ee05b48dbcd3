---------------------------- MODULE MCNotifications ----------------------------
(* Model values for Notifications.                                         *)
EXTENDS Notifications, TLC

(* Timeout events and other events are alike among themselves, and so are  *)
(* the entries; all the properties are about states or single steps.       *)
Symmetric ==
  Permutations(Entry) \cup Permutations(Event \ Timeout) \cup Permutations(Timeout)
===============================================================================

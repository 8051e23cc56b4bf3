------------------------------- MODULE MCPages -------------------------------
(* Pages of two kinds, from nothing and from files. *)
EXTENDS Pages

Tagged(role, items) == [role |-> role, type |-> RoleTypes[role], items |-> items]
MCSources(k) ==
    {<<>>} \cup
    CASE k = "character" -> {<<Tagged("greetings", 1), Tagged("system_prompt", 1)>>,
                             <<Tagged("gallery", 1), Tagged("gallery", 1)>>}
      [] OTHER -> {<<Tagged("theme_tokens", 2)>>, <<Tagged("description", 1)>>}
=============================================================================

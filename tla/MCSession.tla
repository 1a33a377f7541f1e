------------------------------ MODULE MCSession ------------------------------
(* Small instances of Session for TLC.  The sets are model values; they     *)
(* are interchangeable in runs that check safety only.                      *)
EXTENDS Session, TLC

Symmetry == Permutations(Clients) \cup Permutations(Users)
            \cup Permutations(SIDs) \cup Permutations(Requests)

(* No guard reads loggedOut and view: a run whose properties do not read    *)
(* them either identifies states that differ only there.                    *)
WithoutLogins == <<sessions, mu, req, cookie, accounts, owner, authAs>>
=============================================================================

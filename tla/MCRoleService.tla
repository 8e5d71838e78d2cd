---------------------------- MODULE MCRoleService ----------------------------
(***************************************************************************)
(* Two users, the admin role and one other grant, three requests.          *)
(***************************************************************************)
EXTENDS RoleService, TLC

CONSTANTS ann, bob, Plain

\* A tenant with one admin and one other member.
MCFoundedTenant == {[held |-> (ann :> {Admin}) @@ (bob :> {Plain}), active |-> {Admin, Plain}]}
=============================================================================

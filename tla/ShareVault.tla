----------------------------- MODULE ShareVault -----------------------------
(***************************************************************************)
(* What the stake pool promises its holders, without stake accounts,       *)
(* records, authorities or epochs: a vault whose shares are bought and     *)
(* redeemed at the ratio of two counters.                                  *)
(*                                                                         *)
(* Lamports lie in places.  They leave the vault only when shares are      *)
(* redeemed, from one place at a time; shares appear only when lamports    *)
(* are put into one place.  The price is the book value over the shares    *)
(* as they are before the step; what is rounded off is less than one unit. *)
(* Between places they may be moved around at any time.                    *)
(* The book value may be set to anything at any time (Revalue): that is    *)
(* how much the promise depends on UpdatePoolBalance being right.          *)
(***************************************************************************)
EXTENDS PoolMath

CONSTANTS
  Users,   \* who may hold shares
  Places   \* where the vault keeps lamports

VARIABLES
  assets,   \* book value of the vault, a u64 counter
  shares,   \* shares the price is computed with, a u64 counter
  holding,  \* shares by user
  custody   \* lamports by place

vars == <<assets, shares, holding, custody>>

Init ==
  /\ assets = 0 /\ shares = 0
  /\ holding = [u \in Users |-> 0]
  /\ custody = [p \in Places |-> 0]

\* n is floor(m * num / den).
RoundsDown(n, m, num, den) == n * den <= m * num /\ m * num < (n + 1) * den

\* The shares of u and the two counters change by n and lamports.
Booked(u, n, lamports) ==
  /\ holding' = [holding EXCEPT ![u] = @ + n]
  /\ shares' = Add64(shares, n)
  /\ assets' = Add64(assets, lamports)

\* Shares for lamports, one to one into an empty vault.
Enter(u, p) ==
  LET n == holding'[u] - holding[u]
      lamports == custody'[p] - custody[p]
  IN /\ lamports >= 0 /\ n >= 0
     /\ Booked(u, n, lamports)
     /\ custody' = [custody EXCEPT ![p] = @ + lamports]
     /\ IF assets = 0 THEN n = lamports
                      ELSE RoundsDown(n, lamports, shares, assets)

\* Nothing leaves any place but p, and no more than lamports leave p.
TakenFrom(p, lamports) ==
  /\ custody' \in [Places -> Nat]
  /\ custody'[p] >= custody[p] - lamports
  /\ \A q \in Places \ {p} : custody'[q] >= custody[q]

\* Lamports for shares: what is rounded is the lamports paid out for given
\* shares, or the shares taken for a whole place.  Whoever leaves may let the
\* lamports stay in the vault.
Exit(u, p) ==
  LET n == holding[u] - holding'[u]
  IN \E lamports \in 0 .. custody[p] :
       /\ n >= 0
       /\ Booked(u, -n, -lamports)
       /\ TakenFrom(p, lamports)
       /\ \/ RoundsDown(lamports, n, assets, shares)
          \/ lamports = custody[p] /\ RoundsDown(n, lamports, shares, assets)

\* Lamports go from one place to another; some may be added on the way.
Rearrange(p, q) ==
  LET lamports == custody[p] - custody'[p]
  IN /\ p # q /\ lamports >= 0
     /\ TakenFrom(p, lamports)
     /\ custody'[q] >= custody[q] + lamports
     /\ UNCHANGED <<assets, shares, holding>>

\* Lamports arrive that nobody bought shares with.
Accrue ==
  /\ custody' \in [Places -> Nat]
  /\ \A p \in Places : custody'[p] >= custody[p]
  /\ UNCHANGED <<assets, shares, holding>>

\* The book value is set; any u64.
Revalue ==
  /\ assets' \in U64
  /\ UNCHANGED <<shares, holding, custody>>

\* A user throws shares away; the price does not change.
Discard(u) ==
  LET n == holding[u] - holding'[u]
  IN /\ n >= 0
     /\ holding' = [holding EXCEPT ![u] = @ - n]
     /\ UNCHANGED <<assets, shares, custody>>

Next ==
  \/ \E u \in Users, p \in Places : Enter(u, p) \/ Exit(u, p)
  \/ \E u \in Users : Discard(u)
  \/ \E p, q \in Places : Rearrange(p, q)
  \/ Accrue
  \/ Revalue

Spec == Init /\ [][Next]_vars

=============================================================================

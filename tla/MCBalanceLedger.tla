-------------------------- MODULE MCBalanceLedger --------------------------
(* Workloads for TLC.  Ten units are one fen; an API call costs 4 units. *)
EXTENDS LedgerBook

CONSTANTS alice, bob, settler, rpc, rpc2, cli, server, tool

MCLogType ==
  {"DEPOSIT", "WITHDRAW", "BUY_GAS", "BUY_STORAGE", "BUY_DATABUNDLE",
   "DEPOSITE_DATABUNDLE", "REFUND_SPONSOR", "PAY_API_FEE", "PAY_API_QUOTA",
   "REFUND_API_FEE", "REFUND_API_QUOTA", "RESET_API_QUOTA"}

MCProcessOf == [w \in Worker |-> IF w = cli THEN tool ELSE server]
MCInitialBalance == [u \in User |-> 50]
MCArrears == [u \in User |-> 20]

None == [w \in Worker |-> {}]

(* Everything at once: the settle loop, handlers inside and outside of a
   transaction and the tool that does not share the mutex, all on alice; bob
   meets checked postings only, from two handlers at a time. *)
Mixed ==
  [None EXCEPT
    ![settler] = {SettleKey(alice, TRUE, 12), RefundApiFee(alice, 8)},
    ![rpc] = {WithdrawBalance(alice, 40), RefundSponsor(alice, 30),
              WithdrawBalance(bob, 60)},
    ![rpc2] = {BuyStorage(bob, 20), DepositBalance(bob, 10)},
    ![cli] = {DepositBalanceWithoutCheckBalance(alice, 100)}]

(* Alice is posted to outside of transactions only, from two workers of one
   process; bob by the transactions of one worker, whose process may crash. *)
Statementwise ==
  [None EXCEPT
    ![settler] = {RefundApiFee(alice, 8), RefundQuota(alice), ResetQuota(alice)},
    ![rpc] = {RefundSponsor(alice, 30)},
    ![cli] = {SettleKey(bob, TRUE, 12), BuyDataBundle(bob, 20), WithdrawBalance(bob, 60)}]
=============================================================================

---------------------------- MODULE OrderStatus ----------------------------
(***************************************************************************)
(* The order state machine of backend/app/modules/orders/models.py.        *)
(* Definitions marked FAULT are not part of the model: each is a plausible *)
(* mistake in the definition after it, used to see the properties fail.    *)
(***************************************************************************)

\* OrderStatus(enum.StrEnum).
OrderStatuses ==
  {"pending", "awaiting_payment", "paid", "processing", "shipped",
   "completed", "cancelled", "payment_failed", "refunded"}

\* The table's moves to "cancelled" and to "refunded", by where they start.
CancellableFrom ==
  {"pending", "awaiting_payment", "paid", "processing", "payment_failed"}

RefundableAgain == {"paid", "completed", "refunded"}            \* FAULT
RefundableUnpaid == {"awaiting_payment", "paid", "completed"}   \* FAULT
RefundableFrom == {"paid", "completed"}

\* The transition table, as the set of moves it allows; nothing leaves
\* "cancelled" and "refunded".
ALLOWED_TRANSITIONS ==
  {<<"pending", "awaiting_payment">>,
   <<"awaiting_payment", "paid">>,
   <<"awaiting_payment", "payment_failed">>,
   <<"payment_failed", "awaiting_payment">>,
   <<"paid", "processing">>,
   <<"processing", "shipped">>,
   <<"shipped", "completed">>}
    \cup (CancellableFrom \X {"cancelled"})
    \cup (RefundableFrom \X {"refunded"})
=============================================================================

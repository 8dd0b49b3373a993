\* A member comes back to an organization that was deactivated: LoginRestores is violated.
SPECIFICATION BillingSpec
CONSTANTS
    BillReqs = {r1}
    MaxStripeEvents = 1
    MaxBillFaults = 0
INVARIANT LoginRestores
CHECK_DEADLOCK FALSE

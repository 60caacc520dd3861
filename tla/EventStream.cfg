SPECIFICATION Spec
CONSTANTS
    e1 = e1
    e2 = e2
    e3 = e3
    u = u
    c1 = c1
    A = A
    B = B
    NoCompany = NoCompany
    Events = {e1, e2, e3, u}
    Clients = {c1}
    Companies = {A, B}
    CompanyOf <- MCCompanyOf
    ClientCompany <- MCClientCompany
    RingSize = 2
    PageSize = 1
    MaxConnects = 2
    MaxRestarts = 1
INVARIANTS TypeOK CompaniesApart SharedIdsAreLedgerLate CounterCovers NothingLostWhenOrderly
CHECK_DEADLOCK FALSE
SYMMETRY MCSymmetry

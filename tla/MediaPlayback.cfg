\* The poll and one other coroutine, two stations, fair scheduling.
SPECIFICATION FairSpec
CONSTANTS
    Task = {t1}
    Station = {ylex, rock}
    None = None
INVARIANTS
    TypeOK
    
    

    
